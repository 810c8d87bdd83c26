--------------------------- MODULE PackSlotsProofs ---------------------------
(***************************************************************************)
(* Theorems of PackSlots, for any number of slots, frames in flight and    *)
(* senders.                                                                *)
(***************************************************************************)
EXTENDS PackSlotsInv, FiniteSetTheorems, TLAPS

\* A value's frame-in-flight index is one.
LEMMA FifType ==
    ASSUME NEW v \in Nat
    PROVE  Fif(v) \in Fifs
  BY FramesInFlightAssumption DEF Fif, Fifs

\* The index that stands for "no slot" is none.
LEMMA NoSlotIsNone == NoSlot \notin Slots /\ NoSlot \in Nat
  BY NumSlotsAssumption DEF NoSlot, Slots

\* The pins of a slot are counted over finitely many senders.
LEMMA PinnersFinite ==
    ASSUME NEW s
    PROVE  IsFiniteSet(Pinners(s)) /\ Cardinality(Pinners(s)) \in Nat
  <1>1. Pinners(s) \in SUBSET Outs
    BY DEF Pinners
  <1>2. IsFiniteSet(Pinners(s))
    BY <1>1, OutsAssumption, FS_Subset
  <1> QED
    BY <1>2, FS_CardinalityType

\* A slot some sender pins has a positive count.
LEMMA PinnedIsCounted ==
    ASSUME PinInv, NEW o \in Outs, Pinning(o), slot[o] \in Slots
    PROVE  packPins[slot[o]].readers # 0
  <1>1. o \in Pinners(slot[o])
    BY DEF Pinners
  <1>2. Cardinality(Pinners(slot[o])) # 0
    BY <1>1, PinnersFinite, FS_EmptySet
  <1> QED
    BY <1>2 DEF PinInv

\* The pin counts are not disturbed by a step that leaves the set of pinning
\* senders and their slots alone.
LEMMA PinnersSame ==
    ASSUME NEW s,
           \A o \in Outs : (Pinning(o) /\ slot[o] = s) <=> (Pinning(o)' /\ slot'[o] = s)
    PROVE  Pinners(s)' = Pinners(s)
  BY DEF Pinners

TypePin == TypeOK /\ PinInv

\* The pins agree with the threads at the start.
LEMMA TypePinInit == Init => TypePin
  <1> SUFFICES ASSUME Init PROVE TypePin
    OBVIOUS
  <1>1. TypeOK
    BY NumSlotsAssumption DEF Init, TypeOK, NoSlot, Slots, RenderPc, SenderPc, Free
  <1>2. ASSUME NEW s \in Slots PROVE Cardinality(Pinners(s)) = 0
    <2>1. Pinners(s) = {}
      BY DEF Init, Pinners, Pinning
    <2> QED
      BY <2>1, FS_EmptySet
  <1>3. PinInv
    BY <1>2 DEF Init, PinInv, Writing, Free
  <1> QED
    BY <1>1, <1>3 DEF TypePin

\* The variables of PinInv that only senders change.
PinFrame == <<packPins, spc, slot>>

\* A step of the render thread that changes no pin keeps the pins right.
LEMMA PinStepOfRender ==
    ASSUME TypePin, UNCHANGED PinFrame,
           rpc' \in {"begin", "scan"} => packSlot' = NoSlot,
           rpc' \in {"pts", "stamp", "release"} => packSlot' # NoSlot,
           rpc' # "scan" => scan' = 0,
           \A s \in Slots : (Writing /\ packSlot = s) <=> (Writing' /\ packSlot' = s)
    PROVE  PinInv'
  <1>1. \A s : Pinners(s)' = Pinners(s)
    BY DEF Pinners, Pinning, PinFrame
  <1> QED
    BY <1>1 DEF TypePin, PinInv, PinFrame

\* The render thread keeps types and pins.
LEMMA TypePinRender == TypePin /\ Render => TypePin'
  <1> SUFFICES ASSUME TypePin, Render PROVE TypePin'
    OBVIOUS
  <1> USE NoSlotIsNone DEF TypePin
  <1>a. CASE BeginTick
    <2>1. TypeOK'
      BY <1>a DEF BeginTick, TypeOK, gpuVars, ringVars, senderVars, RenderPc
    <2>2. PinInv'
      BY <1>a, PinStepOfRender DEF BeginTick, PinInv, PinFrame, Writing, ringVars, senderVars
    <2> QED BY <2>1, <2>2
  <1>b. CASE TakeSlot
    <2>0. scan \in Slots
      BY <1>b, NumSlotsAssumption DEF TakeSlot, TypeOK, Slots
    <2>1. TypeOK'
      BY <1>b, <2>0, NumSlotsAssumption DEF TakeSlot, TypeOK, gpuVars, senderVars, RenderPc
    <2>2. \A s : Pinners(s)' = Pinners(s)
      BY <1>b DEF TakeSlot, Pinners, Pinning, senderVars
    <2>3. packPins[scan].readers = 0 /\ ~Writing
      BY <1>b DEF TakeSlot, Writable, Free, Writing
    <2>4. PinInv'
      BY <1>b, <2>0, <2>2, <2>3 DEF TakeSlot, PinInv, Writing, TypeOK, senderVars
    <2> QED BY <2>1, <2>4
  <1>c. CASE PassSlot
    <2>1. TypeOK'
      BY <1>c, NumSlotsAssumption DEF PassSlot, TypeOK, gpuVars, ringVars, senderVars
    <2>2. PinInv'
      BY <1>c, PinStepOfRender DEF PassSlot, PinInv, PinFrame, Writing, ringVars, senderVars
    <2> QED BY <2>1, <2>2
  <1>d. CASE SkipPack
    <2>1. TypeOK'
      BY <1>d, NumSlotsAssumption DEF SkipPack, TypeOK, gpuVars, ringVars, senderVars, RenderPc
    <2>2. PinInv'
      BY <1>d, PinStepOfRender DEF SkipPack, PinInv, PinFrame, Writing, ringVars, senderVars
    <2> QED BY <2>1, <2>2
  <1>e. CASE SubmitRender
    <2> DEFINE x == [val |-> value, fif |-> Fif(value), pack |-> packSlot # NoSlot]
    <2>a. x \in [val : Nat, fif : Fifs, pack : BOOLEAN]
      BY FifType DEF TypeOK
    <2>b. renderQ' \subseteq [val : Nat, fif : Fifs, pack : BOOLEAN]
      BY <1>e, <2>a DEF SubmitRender, TypeOK
    <2>c. failures' \in Nat
      BY <1>e DEF SubmitRender, MayFail, TypeOK
    <2>1. TypeOK'
      BY <1>e, <2>b, <2>c, FifType DEF SubmitRender, TypeOK, ringVars, senderVars, RenderPc
    <2>2. PinInv'
      BY <1>e, PinStepOfRender DEF SubmitRender, PinInv, PinFrame, Writing, ringVars, senderVars
    <2> QED BY <2>1, <2>2
  <1>f. CASE StampPts
    <2>1. TypeOK'
      BY <1>f DEF StampPts, TypeOK, gpuVars, senderVars, RenderPc
    <2>2. PinInv'
      BY <1>f, PinStepOfRender DEF StampPts, PinInv, PinFrame, Writing, senderVars
    <2> QED BY <2>1, <2>2
  <1>g. CASE Stamp
    <2>1. TypeOK'
      BY <1>g DEF Stamp, TypeOK, gpuVars, senderVars, RenderPc
    <2>2. PinInv'
      BY <1>g, PinStepOfRender DEF Stamp, PinInv, PinFrame, Writing, senderVars
    <2> QED BY <2>1, <2>2
  <1>h. CASE ReleaseSlot
    <2>0. packSlot \in Slots
      BY <1>h DEF ReleaseSlot, TypeOK, PinInv
    <2>1. TypeOK'
      BY <1>h, <2>0 DEF ReleaseSlot, TypeOK, gpuVars, senderVars, RenderPc
    <2>2. \A s : Pinners(s)' = Pinners(s)
      BY <1>h DEF ReleaseSlot, Pinners, Pinning, senderVars
    <2>3. PinInv'
      BY <1>h, <2>0, <2>2 DEF ReleaseSlot, PinInv, Writing, TypeOK, senderVars
    <2> QED BY <2>1, <2>3
  <1>i. CASE SubmitDown
    <2>1. TypeOK'
      BY <1>i, FifType DEF SubmitDown, MayFail, TypeOK, ringVars, senderVars, RenderPc
    <2>2. PinInv'
      BY <1>i, PinStepOfRender DEF SubmitDown, PinInv, PinFrame, Writing, ringVars, senderVars
    <2> QED BY <2>1, <2>2
  <1>j. CASE NoDown
    <2>1. TypeOK'
      BY <1>j DEF NoDown, TypeOK, gpuVars, ringVars, senderVars, RenderPc
    <2>2. PinInv'
      BY <1>j, PinStepOfRender DEF NoDown, PinInv, PinFrame, Writing, ringVars, senderVars
    <2> QED BY <2>1, <2>2
  <1> QED
    BY <1>a, <1>b, <1>c, <1>d, <1>e, <1>f, <1>g, <1>h, <1>i, <1>j DEF Render

\* The GPU touches no pin.
LEMMA TypePinGpu == TypePin /\ Gpu => TypePin'
  <1> SUFFICES ASSUME TypePin, Gpu PROVE TypePin'
    OBVIOUS
  <1> USE NoSlotIsNone DEF TypePin
  <1>a. ASSUME NEW x \in renderQ, RenderFinishes(x) PROVE TypePin'
    <2>1. TypeOK'
      BY <1>a DEF RenderFinishes, TypeOK, renderVars, ringVars, senderVars
    <2>2. PinInv'
      BY <1>a, PinStepOfRender DEF RenderFinishes, PinInv, PinFrame, Writing,
                                   renderVars, ringVars, senderVars
    <2> QED BY <2>1, <2>2
  <1>b. ASSUME NEW y \in downQ, DownFinishes(y) PROVE TypePin'
    <2>1. TypeOK'
      BY <1>b DEF DownFinishes, TypeOK, renderVars, senderVars
    <2>2. PinInv'
      BY <1>b, PinStepOfRender DEF DownFinishes, PinInv, PinFrame, Writing,
                                   renderVars, senderVars
    <2> QED BY <2>1, <2>2
  <1> QED
    BY <1>a, <1>b DEF Gpu

\* A sender that does not touch the pin word keeps PinInv if it neither starts
\* nor stops pinning.
LEMMA PinStepOfSender ==
    ASSUME TypePin, NEW o \in Outs, UNCHANGED <<packPins, renderVars>>,
           \A p \in Outs : p # o => spc'[p] = spc[p] /\ slot'[p] = slot[p],
           spc'[o] \in {"pin", "check", "send", "unpin"} => slot'[o] # NoSlot,
           Pinning(o) <=> Pinning(o)',
           Pinning(o) => slot'[o] = slot[o]
    PROVE  PinInv'
  <1>1. \A s : Pinners(s)' = Pinners(s)
    BY DEF Pinners, Pinning
  <1> QED
    BY <1>1 DEF TypePin, PinInv, Writing, renderVars

\* A sender pins and unpins only the slot it holds.
LEMMA TypePinSender ==
    ASSUME TypePin, NEW o \in Outs, Sender(o)
    PROVE  TypePin'
  <1> USE NoSlotIsNone DEF TypePin
  <1>a. CASE Wake(o)
    <2>1. TypeOK'
      BY <1>a DEF Wake, TypeOK, renderVars, gpuVars, ringVars, SenderPc
    <2>2. PinInv'
      BY <1>a, PinStepOfSender DEF Wake, TypeOK, Pinning, ringVars
    <2> QED BY <2>1, <2>2
  <1>b. CASE Find(o)
    <2>1. TypeOK'
      <3>0. /\ spc \in [Outs -> SenderPc] /\ slot \in [Outs -> Slots \cup {NoSlot}]
            /\ {"pin", "wait"} \subseteq SenderPc
        BY DEF TypeOK, SenderPc
      <3>1. spc' \in [Outs -> SenderPc] /\ slot' \in [Outs -> Slots \cup {NoSlot}]
        <4>1. CASE NextFrame(o)
          BY <3>0, <4>1 DEF NextFrame
        <4>2. ASSUME NEW s \in Slots, slot' = [slot EXCEPT ![o] = s], spc' = [spc EXCEPT ![o] = "pin"]
              PROVE  spc' \in [Outs -> SenderPc] /\ slot' \in [Outs -> Slots \cup {NoSlot}]
          BY <3>0, <4>2
        <4> QED BY <1>b, <4>1, <4>2 DEF Find
      <3>2. UNCHANGED <<renderVars, gpuVars, ringVars, pts, lastSent, sent>>
        BY <1>b DEF Find
      <3> QED BY <3>1, <3>2 DEF TypeOK, renderVars, gpuVars, ringVars
    <2>2. /\ spc[o] = "find" /\ spc'[o] \in {"pin", "wait"}
          /\ spc'[o] = "pin" => slot'[o] # NoSlot
          /\ \A p \in Outs : p # o => spc'[p] = spc[p] /\ slot'[p] = slot[p]
      BY <1>b DEF Find, NextFrame, TypeOK
    <2>3. PinInv'
      BY <1>b, <2>2, PinStepOfSender DEF Find, Pinning, ringVars
    <2> QED BY <2>1, <2>3
  <1>c. CASE SdiSkip(o)
    <2>1. TypeOK'
      BY <1>c DEF SdiSkip, NextFrame, TypeOK, renderVars, gpuVars, ringVars, SenderPc
    <2>2. PinInv'
      BY <1>c, PinStepOfSender DEF SdiSkip, NextFrame, TypeOK, Pinning, ringVars
    <2> QED BY <2>1, <2>2
  <1>d. CASE TryPin(o) /\ packPins[slot[o]].writer
    <2>1. TypeOK'
      BY <1>d DEF TryPin, NextFrame, TypeOK, renderVars, gpuVars, SenderPc
    <2>2. PinInv'
      <3>1. /\ spc[o] = "pin" /\ spc'[o] = "wait"
            /\ \A p \in Outs : p # o => spc'[p] = spc[p] /\ slot'[p] = slot[p]
        BY <1>d DEF TryPin, NextFrame, TypeOK
      <3>2. UNCHANGED <<packPins, renderVars>>
        BY <1>d DEF TryPin, NextFrame, ringVars
      <3>3. ~Pinning(o) /\ ~Pinning(o)'
        BY <3>1 DEF Pinning
      <3> QED BY <3>1, <3>2, <3>3, PinStepOfSender
    <2> QED BY <2>1, <2>2
  <1>e. CASE TryPin(o) /\ ~packPins[slot[o]].writer
    <2>0. slot[o] \in Slots
      BY <1>e DEF TryPin, TypeOK, PinInv
    <2> PICK t \in Slots : t = slot[o]
      BY <2>0
    <2> DEFINE w == [writer |-> packPins[t].writer, readers |-> packPins[t].readers + 1]
    <2>1. /\ spc[o] = "pin" /\ spc' = [spc EXCEPT ![o] = "check"]
          /\ packPins' = [packPins EXCEPT ![t] = w]
          /\ UNCHANGED <<slot, renderVars>>
      BY <1>e DEF TryPin
    <2>2. packPins[t] \in [writer : BOOLEAN, readers : Nat]
      BY DEF TypeOK
    <2>3. w \in [writer : BOOLEAN, readers : Nat]
      BY <2>2
    <2>4. packPins' \in [Slots -> [writer : BOOLEAN, readers : Nat]]
      BY <2>1, <2>3 DEF TypeOK
    <2>5. TypeOK'
      BY <1>e, <2>1, <2>4 DEF TryPin, TypeOK, renderVars, gpuVars, SenderPc
    <2>6. Pinners(t)' = Pinners(t) \cup {o} /\ o \notin Pinners(t)
      BY <2>1 DEF TypeOK, Pinners, Pinning
    <2>7. \A s : s # t => Pinners(s)' = Pinners(s)
      BY <2>1 DEF TypeOK, Pinners, Pinning
    <2>8. Cardinality(Pinners(t)') = Cardinality(Pinners(t)) + 1
      BY <2>6, PinnersFinite, FS_AddElement
    <2>9. packPins'[t] = w /\ \A s \in Slots : s # t => packPins'[s] = packPins[s]
      BY <2>1 DEF TypeOK
    <2>10. PinInv'
      <3>1. ~packPins[t].writer
        BY <1>e
      <3>2. ASSUME NEW s \in Slots
            PROVE  /\ packPins'[s].readers = Cardinality(Pinners(s)')
                   /\ packPins'[s].writer <=> Writing /\ packSlot = s
                   /\ packPins'[s].writer => packPins'[s].readers = 0
        <4>1. CASE s = t
          BY <4>1, <2>8, <2>9, <3>1 DEF PinInv
        <4>2. CASE s # t
          BY <4>2, <2>7, <2>9 DEF PinInv
        <4> QED BY <4>1, <4>2
      <3> QED
        BY <2>0, <2>1, <3>2 DEF PinInv, Writing, renderVars, TypeOK
    <2> QED BY <2>5, <2>10
  <1>f. CASE Check(o)
    <2>0. slot[o] \in Slots /\ slotPts[o][slot[o]] \in Nat
      BY <1>f DEF Check, TypeOK, PinInv
    <2>a. pts' \in [Outs -> Nat]
      BY <1>f, <2>0 DEF Check, TypeOK
    <2>1. TypeOK'
      BY <1>f, <2>a DEF Check, TypeOK, renderVars, gpuVars, ringVars, SenderPc
    <2>2. PinInv'
      BY <1>f, PinStepOfSender DEF Check, TypeOK, PinInv, Pinning, ringVars
    <2> QED BY <2>1, <2>2
  <1>g. CASE Send(o)
    <2>1. TypeOK'
      BY <1>g DEF Send, TypeOK, PinInv, renderVars, gpuVars, ringVars, SenderPc
    <2>2. PinInv'
      BY <1>g, PinStepOfSender DEF Send, TypeOK, PinInv, Pinning, ringVars
    <2> QED BY <2>1, <2>2
  <1>h. CASE SdiSendFails(o)
    <2>1. TypeOK'
      BY <1>h DEF SdiSendFails, TypeOK, renderVars, gpuVars, ringVars, SenderPc
    <2>2. PinInv'
      BY <1>h, PinStepOfSender DEF SdiSendFails, TypeOK, PinInv, Pinning, ringVars
    <2> QED BY <2>1, <2>2
  <1>i. CASE Unpin(o)
    <2>0. slot[o] \in Slots /\ Pinning(o)
      BY <1>i DEF Unpin, TypeOK, PinInv, Pinning
    <2> PICK t \in Slots : t = slot[o]
      BY <2>0
    <2> DEFINE w == [writer |-> packPins[t].writer, readers |-> packPins[t].readers - 1]
    <2>1. /\ spc[o] = "unpin" /\ spc' = [spc EXCEPT ![o] = "wait"]
          /\ slot' = [slot EXCEPT ![o] = NoSlot]
          /\ packPins' = [packPins EXCEPT ![t] = w]
          /\ UNCHANGED renderVars
      BY <1>i DEF Unpin, NextFrame
    <2>2. packPins[t] \in [writer : BOOLEAN, readers : Nat] /\ packPins[t].readers # 0
      BY <2>0, PinnedIsCounted DEF TypeOK
    <2>3. w \in [writer : BOOLEAN, readers : Nat]
      BY <2>2
    <2>4. packPins' \in [Slots -> [writer : BOOLEAN, readers : Nat]]
      BY <2>1, <2>3 DEF TypeOK
    <2>5. TypeOK'
      BY <1>i, <2>1, <2>4 DEF Unpin, TypeOK, renderVars, gpuVars, SenderPc
    <2>6. Pinners(t)' = Pinners(t) \ {o} /\ o \in Pinners(t)
      BY <2>1 DEF TypeOK, Pinners, Pinning
    <2>7. \A s \in Slots : s # t => Pinners(s)' = Pinners(s)
      BY <2>1 DEF TypeOK, Pinners, Pinning
    <2>8. Cardinality(Pinners(t)') = Cardinality(Pinners(t)) - 1
      <3>1. IsFiniteSet(Pinners(t))
        BY PinnersFinite
      <3> DEFINE P == Pinners(t)
      <3>2. IsFiniteSet(P) /\ o \in P
        BY <2>6, <3>1
      <3> HIDE DEF P
      <3>3. Cardinality(P \ {o}) = Cardinality(P) - 1
        BY <3>2, FS_RemoveElement
      <3> QED BY <2>6, <3>3 DEF P
    <2>9. packPins'[t] = w /\ \A s \in Slots : s # t => packPins'[s] = packPins[s]
      BY <2>1 DEF TypeOK
    <2>10. PinInv'
      <3>1. ~packPins[t].writer
        BY <2>2 DEF PinInv
      <3>2. ASSUME NEW s \in Slots
            PROVE  /\ packPins'[s].readers = Cardinality(Pinners(s)')
                   /\ packPins'[s].writer <=> Writing /\ packSlot = s
                   /\ packPins'[s].writer => packPins'[s].readers = 0
        <4>1. CASE s = t
          BY <4>1, <2>8, <2>9, <3>1 DEF PinInv
        <4>2. CASE s # t
          BY <4>2, <2>7, <2>9 DEF PinInv
        <4> QED BY <4>1, <4>2
      <3> QED
        BY <2>1, <3>2 DEF PinInv, Writing, renderVars, TypeOK
    <2> QED BY <2>5, <2>10
  <1> QED
    BY <1>a, <1>b, <1>c, <1>d, <1>e, <1>f, <1>g, <1>h, <1>i DEF Sender

\* Every step keeps types and pins.
LEMMA TypePinNext == TypePin /\ [Next]_vars => TypePin'
  <1> SUFFICES ASSUME TypePin, [Next]_vars PROVE TypePin'
    OBVIOUS
  <1>1. CASE UNCHANGED vars
    <2>1. \A s : Pinners(s)' = Pinners(s)
      BY <1>1 DEF vars, senderVars, Pinners, Pinning
    <2> QED
      BY <1>1, <2>1 DEF TypePin, TypeOK, PinInv, Writing, vars, renderVars, gpuVars,
                        ringVars, senderVars
  <1> QED
    BY <1>1, TypePinRender, TypePinGpu, TypePinSender DEF Next

\* Every variable keeps its type; the pin counts never go below zero.
THEOREM TypeCorrect == Spec => []TypeOK
  <1>1. TypePin => TypeOK
    BY DEF TypePin
  <1> QED
    BY <1>1, TypePinInit, TypePinNext, PTL DEF Spec

\* The pin count of a slot is the number of senders that hold it, and never
\* meets a pack in progress.
THEOREM PinsCorrect == Spec => []TypePin
  BY TypePinInit, TypePinNext, PTL DEF Spec

-----------------------------------------------------------------------------
(* Values and timelines *)

\* No submission is pending at the start.
LEMMA OrderInit == Init => OrderInv
  BY DEF Init, OrderInv

\* The render thread submits values in order.
LEMMA OrderRender == TypeOK /\ PinInv /\ OrderInv /\ Render => OrderInv'
  <1> SUFFICES ASSUME TypeOK, PinInv, OrderInv, Render PROVE OrderInv'
    OBVIOUS
  <1>v. value \in Nat /\ Fif(value) \in Fifs /\ Fif(value + 1) \in Fifs
    BY FifType DEF TypeOK
  <1>a. CASE BeginTick
    BY <1>a, <1>v DEF BeginTick, OrderInv, TypeOK, gpuVars, senderVars
  <1>b. CASE TakeSlot
    BY <1>b DEF TakeSlot, OrderInv, gpuVars, senderVars
  <1>c. CASE PassSlot
    BY <1>c DEF PassSlot, OrderInv, gpuVars, senderVars
  <1>d. CASE SkipPack
    BY <1>d DEF SkipPack, OrderInv, gpuVars, senderVars
  <1>e. CASE SubmitRender
    <2> DEFINE x == [val |-> value, fif |-> Fif(value), pack |-> packSlot # NoSlot]
    <2>1. /\ rpc = "submit" /\ rpc' \in {"down", "pts"}
          /\ renderQ' \subseteq renderQ \cup {x}
          /\ fifValues' = [fifValues EXCEPT ![Fif(value)] = value]
          /\ UNCHANGED <<value, rbDone, downValues, downQ, renderDone, downDone, lastSent>>
      BY <1>e DEF SubmitRender, senderVars
    <2>2. x.val = value /\ x.fif = Fif(value)
      OBVIOUS
    <2>3. fifValues'[Fif(value)] = value /\ \A f \in Fifs : f # Fif(value) => fifValues'[f] = fifValues[f]
      BY <2>1, <1>v DEF TypeOK
    <2>4. \A z \in renderQ : z.fif \in Fifs /\ z.fif # Fif(value) /\ z.val \in Nat /\ z.val <= value
      BY <2>1 DEF OrderInv, TypeOK
    <2>5. \A z \in renderQ' :
             /\ renderDone < z.val /\ z.val <= value /\ z.fif = Fif(z.val)
             /\ z.val <= fifValues'[z.fif]
             /\ \A y \in renderQ' : z.fif = y.fif => z = y
      <3> HIDE DEF x
      <3>1. renderDone < value
        BY <2>1 DEF OrderInv
      <3> QED
        BY <2>1, <2>2, <2>3, <2>4, <3>1, <1>v DEF OrderInv
    <2>6. \A z \in renderQ', y \in downQ : z.fif = y.fif => z.val <= y.val
      <3> HIDE DEF x
      <3> QED
        BY <2>1, <2>2 DEF OrderInv
    <2> QED
      BY <2>1, <2>5, <2>6 DEF OrderInv
  <1>f. CASE StampPts
    BY <1>f DEF StampPts, OrderInv, gpuVars, senderVars
  <1>g. CASE Stamp
    BY <1>g DEF Stamp, OrderInv, gpuVars, senderVars
  <1>h. CASE ReleaseSlot
    BY <1>h DEF ReleaseSlot, OrderInv, gpuVars, senderVars
  <1>i. CASE SubmitDown
    <2> DEFINE y == [val |-> value, fif |-> Fif(value), slot |-> packSlot]
    <2>1. /\ rpc = "down" /\ rpc' = "begin"
          /\ downQ' \subseteq downQ \cup {y}
          /\ downValues' = [downValues EXCEPT ![Fif(value)] = value]
          /\ UNCHANGED <<value, rbDone, fifValues, renderQ, renderDone, downDone, lastSent>>
      BY <1>i DEF SubmitDown, senderVars
    <2>2. y.val = value /\ y.fif = Fif(value)
      OBVIOUS
    <2>3. downValues'[Fif(value)] = value /\ \A f \in Fifs : f # Fif(value) => downValues'[f] = downValues[f]
      BY <2>1, <1>v DEF TypeOK
    <2>4. \A z \in downQ : z.fif \in Fifs /\ z.fif # Fif(value) /\ z.val \in Nat /\ z.val <= value
      BY <2>1 DEF OrderInv, TypeOK
    <2>5. \A z \in downQ' :
             /\ downDone < z.val /\ z.val <= value /\ z.fif = Fif(z.val)
             /\ z.val <= downValues'[z.fif]
             /\ \A w \in downQ' : z.fif = w.fif => z = w
             /\ \A w \in renderQ : w.fif = z.fif => w.val <= z.val
      <3> HIDE DEF y
      <3>1. downDone < value
        BY <2>1 DEF OrderInv
      <3> QED
        BY <2>1, <2>2, <2>3, <2>4, <3>1, <1>v DEF OrderInv
    <2> QED
      BY <2>1, <2>5 DEF OrderInv
  <1>j. CASE NoDown
    BY <1>j DEF NoDown, OrderInv, gpuVars, senderVars
  <1> QED
    BY <1>a, <1>b, <1>c, <1>d, <1>e, <1>f, <1>g, <1>h, <1>i, <1>j DEF Render

\* Each queue completes its values in order.
LEMMA OrderGpu == TypeOK /\ OrderInv /\ Gpu => OrderInv'
  <1> SUFFICES ASSUME TypeOK, OrderInv, Gpu PROVE OrderInv'
    OBVIOUS
  <1>a. ASSUME NEW x \in renderQ, RenderFinishes(x) PROVE OrderInv'
    <2>1. /\ renderQ' = renderQ \ {x} /\ renderDone' = x.val
          /\ \A z \in renderQ : x.val <= z.val
          /\ UNCHANGED <<rpc, value, rbDone, fifValues, downValues, downQ, downDone, lastSent>>
      BY <1>a DEF RenderFinishes, Oldest, renderVars, senderVars
    <2>2. \A z \in renderQ : z.val \in Nat /\ z.fif \in Fifs
      BY DEF TypeOK
    <2>3. \A z \in renderQ' : x.val < z.val
      <3> SUFFICES ASSUME NEW z \in renderQ' PROVE x.val < z.val
        OBVIOUS
      <3>1. z \in renderQ /\ z # x
        BY <2>1
      <3>2. x.val # z.val
        BY <3>1 DEF OrderInv
      <3> QED
        BY <2>1, <2>2, <3>1, <3>2
    <2> QED
      BY <2>1, <2>2, <2>3 DEF OrderInv, TypeOK
  <1>b. ASSUME NEW y \in downQ, DownFinishes(y) PROVE OrderInv'
    <2>1. /\ downQ' = downQ \ {y} /\ downDone' = y.val
          /\ \A z \in downQ : y.val <= z.val
          /\ UNCHANGED <<rpc, value, rbDone, fifValues, downValues, renderQ, renderDone, lastSent>>
      BY <1>b DEF DownFinishes, Oldest, renderVars, senderVars
    <2>2. \A z \in downQ : z.val \in Nat /\ z.fif \in Fifs
      BY DEF TypeOK
    <2>3. \A z \in downQ' : y.val < z.val
      <3> SUFFICES ASSUME NEW z \in downQ' PROVE y.val < z.val
        OBVIOUS
      <3>1. z \in downQ /\ z # y
        BY <2>1
      <3>2. y.val # z.val
        BY <3>1 DEF OrderInv
      <3> QED
        BY <2>1, <2>2, <3>1, <3>2
    <2> QED
      BY <2>1, <2>2, <2>3 DEF OrderInv, TypeOK
  <1> QED
    BY <1>a, <1>b DEF Gpu

\* Senders only ever look for values that were read back.
LEMMA OrderSender ==
    ASSUME TypeOK, OrderInv, NEW o \in Outs, Sender(o)
    PROVE  OrderInv'
  <1>1. UNCHANGED renderVars /\ UNCHANGED gpuVars
    BY DEF Sender, Wake, Find, SdiSkip, TryPin, Check, Send, SdiSendFails, Unpin
  <1>2. lastSent' = lastSent \/ lastSent' = [lastSent EXCEPT ![o] = downDone]
    BY DEF Sender, Wake, Find, SdiSkip, TryPin, Check, Send, SdiSendFails, Unpin
  <1>3. \A p \in Outs : lastSent'[p] = lastSent[p] \/ lastSent'[p] = downDone
    BY <1>2 DEF TypeOK
  <1>4. UNCHANGED <<rpc, value, rbDone, fifValues, downValues, renderQ, downQ, renderDone, downDone>>
    BY <1>1 DEF renderVars, gpuVars
  <1>5. \A p \in Outs : lastSent'[p] <= downDone
    <2>1. downDone \in Nat /\ \A p \in Outs : lastSent[p] <= downDone
      BY DEF OrderInv, TypeOK
    <2> QED
      BY <1>3, <2>1
  <1> QED
    BY <1>4, <1>5 DEF OrderInv

\* Every step keeps the order of values.
LEMMA OrderNext == TypeOK /\ PinInv /\ OrderInv /\ [Next]_vars => OrderInv'
  <1> SUFFICES ASSUME TypeOK, PinInv, OrderInv, [Next]_vars PROVE OrderInv'
    OBVIOUS
  <1>1. CASE UNCHANGED vars
    BY <1>1 DEF OrderInv, vars, renderVars, gpuVars, senderVars
  <1> QED
    BY <1>1, OrderRender, OrderGpu, OrderSender DEF Next

-----------------------------------------------------------------------------
(* Stamps *)

\* No slot is stamped at the start.
LEMMA StampInit == Init => StampInv
  BY NoSlotIsNone DEF Init, StampInv

\* The render thread stamps a slot only when no older copy into it is pending.
LEMMA StampRender == TypeOK /\ PinInv /\ OrderInv /\ StampInv /\ Render => StampInv'
  <1> SUFFICES ASSUME TypeOK, PinInv, OrderInv, StampInv, Render PROVE StampInv'
    OBVIOUS
  <1> USE NoSlotIsNone
  <1>t. value \in Nat /\ rbDone \in Nat /\ downDone \in Nat /\ packStamp \in [Slots -> Nat]
    BY DEF TypeOK
  <1>a. CASE BeginTick
    BY <1>a, <1>t DEF BeginTick, StampInv, PinInv, gpuVars, ringVars, senderVars
  <1>b. CASE TakeSlot
    BY <1>b DEF TakeSlot, Writable, StampInv, gpuVars, senderVars
  <1>c. CASE PassSlot
    BY <1>c DEF PassSlot, StampInv, gpuVars, ringVars, senderVars
  <1>d. CASE SkipPack
    BY <1>d DEF SkipPack, StampInv, gpuVars, ringVars, senderVars
  <1>e. CASE SubmitRender
    <2>1. packSlot = NoSlot => \A s \in Slots : packStamp[s] < value /\ s # packSlot
      BY <1>e DEF SubmitRender, StampInv
    <2>2. /\ rpc = "submit" /\ rpc' = IF packSlot = NoSlot THEN "down" ELSE "pts"
          /\ UNCHANGED <<value, rbDone, packSlot, downQ, packStamp, spc, slot, lastSent>>
      BY <1>e DEF SubmitRender, ringVars, senderVars
    <2> QED
      BY <2>1, <2>2, <1>t DEF StampInv
  <1>f. CASE StampPts
    BY <1>f DEF StampPts, StampInv, gpuVars, senderVars
  <1>g. CASE Stamp
    <2>1. /\ rpc = "stamp" /\ rpc' = "release"
          /\ packStamp' = [packStamp EXCEPT ![packSlot] = value]
          /\ packSlot \in Slots
          /\ UNCHANGED <<value, rbDone, packSlot, downQ, downDone, spc, slot, lastSent>>
      BY <1>g DEF Stamp, PinInv, TypeOK, gpuVars, senderVars
    <2>2. /\ packStamp'[packSlot] = value
          /\ \A s \in Slots : s # packSlot => packStamp'[s] = packStamp[s]
          /\ \A s \in Slots : packStamp[s] < value
      BY <2>1, <1>t DEF StampInv
    <2>3. \A y \in downQ : y.slot # packSlot
      <3> SUFFICES ASSUME NEW y \in downQ, y.slot = packSlot PROVE FALSE
        OBVIOUS
      <3>1. y.val \in Nat /\ y.val > downDone /\ packStamp[packSlot] = y.val
        BY <2>1, <1>t DEF TypeOK, OrderInv, StampInv
      <3>2. packStamp[packSlot] <= rbDone /\ rbDone <= downDone
        BY <2>1 DEF StampInv, OrderInv
      <3> QED
        BY <3>1, <3>2, <1>t
    <2>4. \A o \in Outs : spc[o] = "send" => slot[o] # packSlot
      <3> SUFFICES ASSUME NEW o \in Outs, spc[o] = "send", slot[o] = packSlot PROVE FALSE
        OBVIOUS
      <3>1. packPins[packSlot].readers # 0
        BY <2>1, PinnedIsCounted DEF Pinning
      <3>2. packPins[packSlot].writer
        BY <2>1 DEF PinInv, Writing
      <3> QED
        BY <3>1, <3>2, <2>1 DEF PinInv
    <2>5. \A o \in Outs : lastSent[o] \in Nat /\ lastSent[o] < value
      BY <2>1, <1>t DEF OrderInv, TypeOK
    <2>6. \A o \in Outs : spc[o] \in {"pin", "check", "send", "unpin"} => slot[o] \in Slots
      BY DEF PinInv, TypeOK
    <2>7. \A y \in downQ : y.slot # NoSlot => y.slot \in Slots
      BY DEF TypeOK
    <2>8. \A y \in downQ :
             /\ y.slot # NoSlot => packStamp'[y.slot] = y.val
             /\ y.slot = NoSlot => \A s \in Slots : packStamp'[s] # y.val
      <3>1. \A y \in downQ : y.val \in Nat /\ y.val < value
        BY <2>1, <1>t DEF OrderInv, TypeOK
      <3> QED
        BY <2>2, <2>3, <2>7, <3>1, <1>t DEF StampInv
    <2>9. \A o \in Outs :
             /\ spc[o] # "wait" => lastSent[o] > 0
             /\ spc[o] \in {"pin", "check", "send", "unpin"} => packStamp'[slot[o]] >= lastSent[o]
             /\ spc[o] = "send" => packStamp'[slot[o]] = lastSent[o]
      BY <2>2, <2>4, <2>5, <2>6, <1>t DEF StampInv
    <2>10. \A s, u \in Slots : packStamp'[s] = packStamp'[u] /\ packStamp'[s] # 0 => s = u
      BY <2>2, <1>t DEF StampInv
    <2> QED
      BY <2>1, <2>2, <2>8, <2>9, <2>10, <1>t DEF StampInv
  <1>h. CASE ReleaseSlot
    BY <1>h DEF ReleaseSlot, StampInv, gpuVars, senderVars
  <1>i. CASE SubmitDown
    <2> DEFINE y == [val |-> value, fif |-> Fif(value), slot |-> packSlot]
    <2>1. /\ rpc = "down" /\ rpc' = "begin"
          /\ downQ' \subseteq downQ \cup {y}
          /\ packSlot' = NoSlot
          /\ UNCHANGED <<value, rbDone, packStamp, spc, slot, lastSent>>
      BY <1>i DEF SubmitDown, ringVars, senderVars
    <2>2. y.val = value /\ y.slot = packSlot
      OBVIOUS
    <2>3. \A s \in Slots : packStamp[s] = value <=> s = packSlot
      BY <2>1 DEF StampInv
    <2>a. packSlot \in Slots \cup {NoSlot}
      BY DEF TypeOK
    <2>4. \A z \in downQ' : /\ z.slot # NoSlot => packStamp[z.slot] = z.val
                            /\ z.slot = NoSlot => \A s \in Slots : packStamp[s] # z.val
      <3> HIDE DEF y
      <3> QED
        BY <2>1, <2>2, <2>3, <2>a DEF StampInv
    <2> QED
      BY <2>1, <2>4 DEF StampInv
  <1>j. CASE NoDown
    BY <1>j DEF NoDown, StampInv, gpuVars, ringVars, senderVars
  <1> QED
    BY <1>a, <1>b, <1>c, <1>d, <1>e, <1>f, <1>g, <1>h, <1>i, <1>j DEF Render

\* The GPU changes no stamp.
LEMMA StampGpu == StampInv /\ Gpu => StampInv'
  <1> SUFFICES ASSUME StampInv, Gpu PROVE StampInv'
    OBVIOUS
  <1>1. ASSUME NEW x \in renderQ, RenderFinishes(x) PROVE StampInv'
    BY <1>1 DEF RenderFinishes, StampInv, renderVars, ringVars, senderVars
  <1>2. ASSUME NEW y \in downQ, DownFinishes(y) PROVE StampInv'
    BY <1>2 DEF DownFinishes, StampInv, renderVars, senderVars
  <1> QED
    BY <1>1, <1>2 DEF Gpu

\* A slot a sender has checked keeps its stamp while it is pinned.
LEMMA StampSender ==
    ASSUME TypeOK, PinInv, OrderInv, StampInv, NEW o \in Outs, Sender(o)
    PROVE  StampInv'
  <1>1. UNCHANGED renderVars /\ UNCHANGED gpuVars /\ UNCHANGED packStamp
    BY DEF Sender, Wake, Find, SdiSkip, TryPin, Check, Send, SdiSendFails, Unpin, ringVars
  <1>2. \A p \in Outs : p # o => /\ spc'[p] = spc[p] /\ slot'[p] = slot[p]
                               /\ lastSent'[p] = lastSent[p]
    BY DEF Sender, Wake, Find, SdiSkip, TryPin, Check, Send, SdiSendFails, Unpin,
           NextFrame, TypeOK
  <1>3. /\ spc'[o] # "wait" => lastSent'[o] > 0
        /\ spc'[o] \in {"pin", "check", "send", "unpin"} => packStamp[slot'[o]] >= lastSent'[o]
        /\ spc'[o] = "send" => packStamp[slot'[o]] = lastSent'[o]
    <2>t. lastSent[o] \in Nat /\ downDone \in Nat /\ spc \in [Outs -> SenderPc]
          /\ slot \in [Outs -> Slots \cup {NoSlot}] /\ lastSent \in [Outs -> Nat]
      BY DEF TypeOK
    <2>a. CASE Wake(o)
      BY <2>a, <2>t DEF Wake
    <2>b. CASE Find(o)
      BY <2>b, <2>t DEF Find, NextFrame, StampInv
    <2>c. CASE SdiSkip(o)
      BY <2>c, <2>t DEF SdiSkip, NextFrame
    <2>d. CASE TryPin(o)
      BY <2>d, <2>t DEF TryPin, NextFrame, StampInv
    <2>e. CASE Check(o)
      BY <2>e, <2>t DEF Check, StampInv
    <2>f. CASE Send(o)
      BY <2>f, <2>t DEF Send, StampInv
    <2>g. CASE SdiSendFails(o)
      BY <2>g, <2>t DEF SdiSendFails, StampInv
    <2>h. CASE Unpin(o)
      BY <2>h, <2>t DEF Unpin, NextFrame
    <2> QED
      BY <2>a, <2>b, <2>c, <2>d, <2>e, <2>f, <2>g, <2>h DEF Sender
  <1>4. UNCHANGED <<rpc, value, rbDone, packSlot, downQ>>
    BY <1>1 DEF renderVars, gpuVars
  <1>5. \A p \in Outs :
           /\ spc'[p] # "wait" => lastSent'[p] > 0
           /\ spc'[p] \in {"pin", "check", "send", "unpin"} => packStamp[slot'[p]] >= lastSent'[p]
           /\ spc'[p] = "send" => packStamp[slot'[p]] = lastSent'[p]
    BY <1>2, <1>3 DEF StampInv
  <1> QED
    BY <1>1, <1>4, <1>5 DEF StampInv

\* Every step keeps the stamps right.
LEMMA StampNext == TypeOK /\ PinInv /\ OrderInv /\ StampInv /\ [Next]_vars => StampInv'
  <1> SUFFICES ASSUME TypeOK, PinInv, OrderInv, StampInv, [Next]_vars PROVE StampInv'
    OBVIOUS
  <1>1. CASE UNCHANGED vars
    BY <1>1 DEF StampInv, vars, renderVars, gpuVars, ringVars, senderVars
  <1> QED
    BY <1>1, StampRender, StampGpu, StampSender DEF Next

-----------------------------------------------------------------------------
\* The ring invariant: types, pins, values and stamps.
RingInv == TypeOK /\ PinInv /\ OrderInv /\ StampInv

\* What the slots hold agrees with the stamps and with the work the GPU has in
\* hand, whatever submissions fail.
THEOREM RingCorrect == Spec => []RingInv
  <1>1. Init => RingInv
    BY TypePinInit, OrderInit, StampInit DEF RingInv, TypePin
  <1>2. RingInv /\ [Next]_vars => RingInv'
    BY TypePinNext, OrderNext, StampNext DEF RingInv, TypePin
  <1> QED
    BY <1>1, <1>2, PTL DEF Spec

\* While a sender reads a slot, no copy into it is pending or running and the
\* render thread does not own it, whatever submissions fail.
THEOREM NoOverwrite == Spec => []NoOverwriteWhileSending
  <1>1. RingInv => NoOverwriteWhileSending
    <2> SUFFICES ASSUME RingInv, NEW o \in Outs, spc[o] = "send"
                 PROVE  /\ ~packPins[slot[o]].writer
                        /\ \A y \in downQ : y.slot # slot[o]
      BY DEF NoOverwriteWhileSending
    <2>1. slot[o] \in Slots /\ slot[o] # NoSlot
      BY NoSlotIsNone DEF RingInv, TypeOK, PinInv
    <2>2. ~packPins[slot[o]].writer
      BY <2>1, PinnedIsCounted DEF RingInv, PinInv, Pinning
    <2>3. ASSUME NEW y \in downQ, y.slot = slot[o] PROVE FALSE
      <3>1. packStamp[slot[o]] = y.val /\ packStamp[slot[o]] = lastSent[o]
        BY <2>1, <2>3 DEF RingInv, StampInv
      <3>2. y.val \in Nat /\ downDone < y.val /\ lastSent[o] <= downDone /\ downDone \in Nat
        BY DEF RingInv, OrderInv, TypeOK
      <3> QED
        BY <3>1, <3>2
    <2> QED
      BY <2>2, <2>3
  <1> QED
    BY <1>1, RingCorrect, PTL

\* A device pack buffer is not composited into before its copy has been made.
THEOREM NoRepack == Spec => []NoRepackBeforeCopy
  <1>1. RingInv => NoRepackBeforeCopy
    BY DEF RingInv, OrderInv, NoRepackBeforeCopy
  <1> QED
    BY <1>1, RingCorrect, PTL

-----------------------------------------------------------------------------
(* Frames: what the copies carry when no render submission fails *)

\* A pinned slot is not the one the render thread is writing.
LEMMA PinnedNotWritten ==
    ASSUME TypeOK, PinInv, NEW o \in Outs, Pinning(o), Writing
    PROVE  slot[o] \in Slots /\ slot[o] # packSlot
  <1>1. slot[o] \in Slots
    BY NoSlotIsNone DEF Pinning, TypeOK, PinInv
  <1>2. ~packPins[slot[o]].writer
    BY <1>1, PinnedIsCounted DEF PinInv
  <1> QED
    BY <1>1, <1>2 DEF PinInv

\* Nothing is composited at the start.
LEMMA FrameInit == Init => FrameInv
  BY DEF Init, FrameInv

\* Submissions leave composited frames where their copies will find them.
LEMMA FrameRender ==
    ASSUME "render" \notin CanFail, RingInv, RingInv', FrameInv, Render
    PROVE  FrameInv'
  <1> USE NoSlotIsNone DEF RingInv
  <1>t. value \in Nat /\ downDone \in Nat /\ packStamp \in [Slots -> Nat]
        /\ lastSent \in [Outs -> Nat]
    BY DEF TypeOK
  <1>a. CASE BeginTick
    BY <1>a DEF BeginTick, FrameInv, FrameDue, gpuVars, ringVars, senderVars
  <1>b. CASE TakeSlot
    BY <1>b DEF TakeSlot, FrameInv, FrameDue, gpuVars, senderVars
  <1>c. CASE PassSlot
    BY <1>c DEF PassSlot, FrameInv, FrameDue, gpuVars, ringVars, senderVars
  <1>d. CASE SkipPack
    BY <1>d DEF SkipPack, FrameInv, FrameDue, gpuVars, ringVars, senderVars
  <1>e. CASE SubmitRender
    <2> DEFINE x == [val |-> value, fif |-> Fif(value), pack |-> packSlot # NoSlot]
    <2>1. /\ rpc = "submit" /\ rpc' = IF packSlot = NoSlot THEN "down" ELSE "pts"
          /\ renderQ' = renderQ \cup {x}
          /\ UNCHANGED <<value, packSlot, downQ, downDone, packDev, packStamp, packHost,
                         lastSent, sent>>
      BY <1>e DEF SubmitRender, MayFail, ringVars, senderVars
    <2>2. x.val = value /\ x.fif = Fif(value) /\ (packSlot # NoSlot => x.pack)
      OBVIOUS
    <2>3. packSlot # NoSlot => FrameDue(value, Fif(value))'
      <3> HIDE DEF x
      <3> QED
        BY <2>1, <2>2 DEF FrameDue
    <2>4. \A y \in downQ : y.slot # NoSlot => FrameDue(y.val, y.fif)'
      <3> HIDE DEF x
      <3> SUFFICES ASSUME NEW y \in downQ, y.slot # NoSlot PROVE FrameDue(y.val, y.fif)'
        OBVIOUS
      <3>1. y.fif # x.fif
        BY <2>1, <2>2 DEF OrderInv
      <3>2. FrameDue(y.val, y.fif)
        BY DEF FrameInv
      <3> QED
        BY <2>1, <3>1, <3>2 DEF FrameDue
    <2> QED
      BY <2>1, <2>3, <2>4 DEF FrameInv
  <1>f. CASE StampPts
    BY <1>f DEF StampPts, FrameInv, FrameDue, gpuVars, senderVars
  <1>g. CASE Stamp
    <2>1. /\ rpc = "stamp" /\ rpc' = "release"
          /\ packStamp' = [packStamp EXCEPT ![packSlot] = value]
          /\ packSlot \in Slots
          /\ UNCHANGED <<value, packSlot, renderQ, downQ, downDone, packDev, packHost,
                         lastSent, sent>>
      BY <1>g DEF Stamp, PinInv, TypeOK, gpuVars, senderVars
    <2>2. /\ packStamp'[packSlot] = value
          /\ \A s \in Slots : s # packSlot => packStamp'[s] = packStamp[s]
      BY <2>1, <1>t
    <2>3. downDone < value
      BY <2>1 DEF OrderInv
    <2>4. \A o \in Outs : lastSent[o] \in Nat /\ lastSent[o] <= downDone
      BY <1>t DEF OrderInv
    <2>5. \A s \in Slots :
             /\ packStamp'[s] = downDone => packHost[s] = packStamp'[s]
             /\ \A o \in Outs : packStamp'[s] = lastSent[o] => packHost[s] = packStamp'[s]
      BY <2>2, <2>3, <2>4, <1>t DEF FrameInv
    <2> QED
      BY <2>1, <2>5 DEF FrameInv, FrameDue
  <1>h. CASE ReleaseSlot
    BY <1>h DEF ReleaseSlot, FrameInv, FrameDue, gpuVars, senderVars
  <1>i. CASE SubmitDown
    <2> DEFINE y == [val |-> value, fif |-> Fif(value), slot |-> packSlot]
    <2>1. /\ rpc = "down" /\ rpc' = "begin"
          /\ downQ' \subseteq downQ \cup {y}
          /\ UNCHANGED <<value, renderQ, downDone, packDev, packStamp, packHost, lastSent, sent>>
      BY <1>i DEF SubmitDown, ringVars, senderVars
    <2>2. y.val = value /\ y.fif = Fif(value) /\ y.slot = packSlot
      OBVIOUS
    <2>3. packSlot # NoSlot => FrameDue(value, Fif(value))
      BY <2>1 DEF FrameInv
    <2>4. \A z \in downQ' : z.slot # NoSlot => FrameDue(z.val, z.fif)
      <3> HIDE DEF y
      <3> QED
        BY <2>1, <2>2, <2>3 DEF FrameInv
    <2> QED
      BY <2>1, <2>4 DEF FrameInv, FrameDue
  <1>j. CASE NoDown
    BY <1>j DEF NoDown, FrameInv, FrameDue, gpuVars, ringVars, senderVars
  <1> QED
    BY <1>a, <1>b, <1>c, <1>d, <1>e, <1>f, <1>g, <1>h, <1>i, <1>j DEF Render

\* A copy moves the composite of its own value into its own slot.
LEMMA FrameGpu ==
    ASSUME RingInv, FrameInv, Gpu
    PROVE  FrameInv'
  <1> USE NoSlotIsNone DEF RingInv
  <1>a. ASSUME NEW x \in renderQ, RenderFinishes(x) PROVE FrameInv'
    <2>1. /\ renderQ' = renderQ \ {x}
          /\ packDev' = IF x.pack THEN [packDev EXCEPT ![x.fif] = x.val] ELSE packDev
          /\ UNCHANGED <<rpc, value, packSlot, downQ, downDone, packStamp, packHost,
                         lastSent, sent>>
      BY <1>a DEF RenderFinishes, renderVars, ringVars, senderVars
    <2>2. ASSUME NEW v, NEW f \in Fifs, FrameDue(v, f) PROVE FrameDue(v, f)'
      <3>1. x.fif \in Fifs /\ \A z \in renderQ : z.fif = x.fif => z = x
        BY DEF OrderInv, TypeOK
      <3>2. CASE f = x.fif
        <4>1. x.val = v /\ x.pack
          BY <2>2, <3>1, <3>2 DEF FrameDue
        <4>2. packDev'[f] = v
          BY <2>1, <3>2, <4>1 DEF TypeOK
        <4>3. \A z \in renderQ' : z.fif # f
          BY <2>1, <3>1, <3>2
        <4> QED
          BY <4>2, <4>3 DEF FrameDue
      <3>3. CASE f # x.fif
        <4>1. packDev'[f] = packDev[f]
          BY <2>1, <3>3 DEF TypeOK
        <4> QED
          BY <2>1, <2>2, <3>3, <4>1 DEF FrameDue
      <3> QED
        BY <3>2, <3>3
    <2>3. \A y \in downQ : y.fif \in Fifs
      BY DEF TypeOK
    <2>4. Fif(value) \in Fifs
      BY FifType DEF TypeOK
    <2>5. \A y \in downQ : y.slot # NoSlot => FrameDue(y.val, y.fif)'
      BY <2>2, <2>3 DEF FrameInv
    <2>6. rpc \in {"pts", "stamp", "release", "down"} /\ packSlot # NoSlot =>
             FrameDue(value, Fif(value))'
      <3> SUFFICES ASSUME rpc \in {"pts", "stamp", "release", "down"}, packSlot # NoSlot
                   PROVE  FrameDue(value, Fif(value))'
        OBVIOUS
      <3> PICK v \in Nat : v = value
        BY DEF TypeOK
      <3>1. FrameDue(v, Fif(v))
        BY DEF FrameInv
      <3>2. FrameDue(v, Fif(v))'
        BY <2>2, <2>4, <3>1
      <3> QED
        BY <2>1, <3>2
    <2> QED
      BY <2>1, <2>5, <2>6 DEF FrameInv
  <1>b. ASSUME NEW y \in downQ, DownFinishes(y) PROVE FrameInv'
    <2>1. /\ downQ' = downQ \ {y} /\ downDone' = y.val /\ renderDone >= y.val
          /\ packHost' = IF y.slot = NoSlot THEN packHost
                         ELSE [packHost EXCEPT ![y.slot] = packDev[y.fif]]
          /\ UNCHANGED <<rpc, value, packSlot, renderQ, packDev, packStamp, lastSent, sent>>
      BY <1>b DEF DownFinishes, renderVars, senderVars
    <2>2. y.val \in Nat /\ y.slot \in Slots \cup {NoSlot} /\ downDone \in Nat
          /\ y.val > downDone
      BY DEF TypeOK, OrderInv
    <2>3. y.slot # NoSlot => packDev[y.fif] = y.val
      <3> SUFFICES ASSUME y.slot # NoSlot PROVE packDev[y.fif] = y.val
        OBVIOUS
      <3>1. FrameDue(y.val, y.fif)
        BY DEF FrameInv
      <3>2. \A x \in renderQ : x.val # y.val
        BY <2>1, <2>2 DEF OrderInv, TypeOK
      <3> QED
        BY <3>1, <3>2 DEF FrameDue
    <2>4. \A o \in Outs : lastSent[o] \in Nat /\ lastSent[o] < y.val
      BY <2>2 DEF OrderInv, TypeOK
    <2>5. y.slot # NoSlot => packStamp[y.slot] = y.val
      BY DEF StampInv
    <2>6. \A s \in Slots : packStamp[s] = y.val => s = y.slot
      BY <2>2 DEF StampInv
    <2>7. ASSUME NEW s \in Slots
          PROVE  /\ packStamp[s] = y.val => packHost'[s] = packStamp[s]
                 /\ \A o \in Outs : packStamp[s] = lastSent[o] => packHost'[s] = packStamp[s]
      <3>1. CASE s = y.slot
        <4>1. packHost'[s] = y.val
          BY <2>1, <2>2, <2>3, <3>1 DEF TypeOK
        <4> QED
          BY <4>1, <2>4, <2>5, <2>2, <3>1
      <3>2. CASE s # y.slot
        <4>1. packHost'[s] = packHost[s]
          BY <2>1, <3>2 DEF TypeOK
        <4>2. packStamp[s] # y.val
          BY <2>6, <3>2
        <4> QED
          BY <4>1, <4>2 DEF FrameInv
      <3> QED
        BY <3>1, <3>2
    <2> QED
      BY <2>1, <2>7 DEF FrameInv, FrameDue
  <1> QED
    BY <1>a, <1>b DEF Gpu

\* A sender leaves the frames alone.
LEMMA FrameSender ==
    ASSUME RingInv, FrameInv, NEW o \in Outs, Sender(o)
    PROVE  FrameInv'
  <1> USE DEF RingInv
  <1>1. UNCHANGED renderVars /\ UNCHANGED gpuVars /\ UNCHANGED <<packStamp, packHost>>
    BY DEF Sender, Wake, Find, SdiSkip, TryPin, Check, Send, SdiSendFails, Unpin, ringVars
  <1>2. \A p \in Outs : p # o => lastSent'[p] = lastSent[p] /\ sent'[p] = sent[p]
    BY DEF Sender, Wake, Find, SdiSkip, TryPin, Check, Send, SdiSendFails, Unpin, TypeOK
  <1>3. /\ sent'[o] <= lastSent'[o]
        /\ lastSent'[o] = lastSent[o] \/ lastSent'[o] = downDone
    <2>t. /\ lastSent[o] \in Nat /\ downDone \in Nat /\ sent[o] \in Nat
          /\ lastSent \in [Outs -> Nat] /\ sent \in [Outs -> Nat]
          /\ sent[o] <= lastSent[o] /\ lastSent[o] <= downDone
      BY DEF TypeOK, FrameInv, OrderInv
    <2>a. CASE Send(o)
      <3>1. slot[o] \in Slots /\ packStamp[slot[o]] = lastSent[o]
        BY <2>a, NoSlotIsNone DEF Send, PinInv, StampInv, TypeOK
      <3>2. packHost[slot[o]] = lastSent[o]
        BY <3>1 DEF FrameInv
      <3> QED
        BY <2>a, <2>t, <3>2 DEF Send
    <2>b. CASE ~Send(o)
      BY <2>b, <2>t DEF Sender, Wake, Find, SdiSkip, TryPin, Check, SdiSendFails, Unpin
    <2> QED
      BY <2>a, <2>b
  <1>4. UNCHANGED <<rpc, value, packSlot, renderQ, downQ, downDone, packDev>>
    BY <1>1 DEF renderVars, gpuVars
  <1>5. \A s \in Slots, p \in Outs : packStamp[s] = lastSent'[p] => packHost[s] = packStamp[s]
    BY <1>2, <1>3 DEF FrameInv
  <1>6. \A p \in Outs : sent'[p] <= lastSent'[p]
    BY <1>2, <1>3 DEF FrameInv
  <1> QED
    BY <1>1, <1>4, <1>5, <1>6 DEF FrameInv, FrameDue

\* Every step keeps the frames where the stamps say.
LEMMA FrameNext ==
    ASSUME "render" \notin CanFail, RingInv, RingInv', FrameInv, [Next]_vars
    PROVE  FrameInv'
  <1>1. CASE UNCHANGED vars
    BY <1>1 DEF FrameInv, FrameDue, vars, renderVars, gpuVars, ringVars, senderVars
  <1> QED
    BY <1>1, FrameRender, FrameGpu, FrameSender DEF Next

\* Every stamped slot holds the composite of its stamp, provided no render
\* submission fails.
THEOREM FramesCorrect ==
    ASSUME "render" \notin CanFail
    PROVE  Spec => [](RingInv /\ FrameInv)
  <1>1. Init => FrameInv
    BY FrameInit
  <1>2. RingInv /\ RingInv' /\ FrameInv /\ [Next]_vars => FrameInv'
    BY FrameNext
  <1> QED
    BY <1>1, <1>2, RingCorrect, PTL DEF Spec

\* What a sender reads is the frame it set out to send, complete, provided no
\* render submission fails.
THEOREM Intact ==
    ASSUME "render" \notin CanFail
    PROVE  Spec => []SendIntact
  <1>1. RingInv /\ FrameInv => SendIntact
    <2> SUFFICES ASSUME RingInv, FrameInv, NEW o \in Outs, spc[o] = "send"
                 PROVE  packHost[slot[o]] = lastSent[o]
      BY DEF SendIntact
    <2>1. slot[o] \in Slots /\ packStamp[slot[o]] = lastSent[o]
      BY NoSlotIsNone DEF RingInv, TypeOK, PinInv, StampInv
    <2> QED
      BY <2>1 DEF FrameInv
  <1> QED
    BY <1>1, FramesCorrect, PTL

\* The feed keeps the promise of FrameFeed: every step of the ring is a step of
\* FrameFeed or leaves it alone, provided no render submission fails.
THEOREM FeedRefined ==
    ASSUME "render" \notin CanFail
    PROVE  Spec => FeedSpec
  <1>1. Init => Feed!FeedInit
    BY DEF Init, Feed!FeedInit
  <1>2. RingInv /\ FrameInv /\ [Next]_vars => [Feed!FeedNext]_<<downDone, sent>>
    <2> SUFFICES ASSUME RingInv, FrameInv, [Next]_vars, ~UNCHANGED <<downDone, sent>>
                 PROVE  Feed!FeedNext
      OBVIOUS
    <2>t. downDone \in Nat /\ sent \in [Outs -> Nat] /\ lastSent \in [Outs -> Nat]
      BY DEF RingInv, TypeOK
    <2>1. ASSUME NEW y \in downQ, DownFinishes(y) PROVE Feed!FeedNext
      <3>1. y.val \in Nat /\ downDone < y.val
        BY DEF RingInv, OrderInv, TypeOK
      <3> QED
        BY <2>1, <3>1 DEF DownFinishes, Feed!FeedNext, Feed!Publish, senderVars
    <2>2. ASSUME NEW o \in Outs, Send(o) PROVE Feed!FeedNext
      <3>1. slot[o] \in Slots /\ packStamp[slot[o]] = lastSent[o]
        BY <2>2, NoSlotIsNone DEF Send, RingInv, TypeOK, PinInv, StampInv
      <3>2. packHost[slot[o]] = lastSent[o]
        BY <3>1 DEF FrameInv
      <3>3. /\ sent' = [sent EXCEPT ![o] = lastSent[o]] /\ downDone' = downDone
            /\ sent[o] <= lastSent[o] /\ lastSent[o] <= downDone
        BY <2>2, <3>2 DEF Send, FrameInv, RingInv, OrderInv, gpuVars
      <3>4. sent[o] # lastSent[o]
        BY <2>t, <3>3
      <3>5. lastSent[o] \in sent[o] + 1 .. downDone
        BY <2>t, <3>3, <3>4
      <3> QED
        BY <3>3, <3>5 DEF Feed!FeedNext, Feed!Deliver
    <2>3. ASSUME Render \/ UNCHANGED vars PROVE UNCHANGED <<downDone, sent>>
      BY <2>3 DEF Render, BeginTick, TakeSlot, PassSlot, SkipPack, SubmitRender, StampPts, Stamp,
                  ReleaseSlot, SubmitDown, NoDown, vars, gpuVars, senderVars
    <2>4. ASSUME NEW x \in renderQ, RenderFinishes(x) PROVE UNCHANGED <<downDone, sent>>
      BY <2>4 DEF RenderFinishes, senderVars
    <2>5. ASSUME NEW o \in Outs, Sender(o), ~Send(o) PROVE UNCHANGED <<downDone, sent>>
      BY <2>5 DEF Sender, Wake, Find, SdiSkip, TryPin, Check, SdiSendFails, Unpin, gpuVars
    <2> QED
      BY <2>1, <2>2, <2>3, <2>4, <2>5 DEF Next, Gpu
  <1> QED
    BY <1>1, <1>2, FramesCorrect, PTL DEF Spec, FeedSpec, Feed!FeedSpec, Feed!feedVars

-----------------------------------------------------------------------------
(* Presentation times *)

\* Every step keeps presentation times with their stamps.
LEMMA PtsNext ==
    ASSUME RingInv, PtsInv, [Next]_vars
    PROVE  PtsInv'
  <1> USE NoSlotIsNone DEF RingInv
  <1>t. slotPts \in [Outs -> [Slots -> Nat]] /\ packStamp \in [Slots -> Nat]
        /\ pts \in [Outs -> Nat]
    BY DEF TypeOK
  <1>1. CASE StampPts
    <2>1. /\ rpc = "pts" /\ rpc' = "stamp" /\ packSlot \in Slots
          /\ slotPts' = [o \in Outs |-> [slotPts[o] EXCEPT ![packSlot] = value]]
          /\ UNCHANGED <<value, packSlot, packStamp, spc, pts, lastSent>>
      BY <1>1 DEF StampPts, TypeOK, PinInv, senderVars
    <2>2. \A o \in Outs, s \in Slots :
             slotPts'[o][s] = IF s = packSlot THEN value ELSE slotPts[o][s]
      BY <2>1, <1>t
    <2> QED
      BY <2>1, <2>2 DEF PtsInv
  <1>2. CASE Stamp
    <2>1. /\ rpc = "stamp" /\ rpc' = "release" /\ packSlot \in Slots
          /\ packStamp' = [packStamp EXCEPT ![packSlot] = value]
          /\ UNCHANGED <<value, slotPts, spc, pts, lastSent>>
      BY <1>2 DEF Stamp, TypeOK, PinInv, senderVars
    <2>2. \A o \in Outs : slotPts[o][packSlot] = value
      BY <2>1 DEF PtsInv
    <2> QED
      BY <2>1, <2>2, <1>t DEF PtsInv
  <1>3. ASSUME NEW o \in Outs, Check(o) PROVE PtsInv'
    <2>1. /\ spc[o] = "check"
          /\ UNCHANGED <<rpc, packSlot, value, packStamp, slotPts, lastSent>>
      BY <1>3 DEF Check, renderVars, ringVars
    <2>2. slot[o] \in Slots /\ (rpc = "stamp" => slot[o] # packSlot)
      BY <2>1, PinnedNotWritten DEF Pinning, Writing, TypeOK, PinInv
    <2>3. slotPts[o][slot[o]] = packStamp[slot[o]]
      BY <2>2 DEF PtsInv
    <2>4. o \notin SdiOuts /\ spc'[o] = "send" => pts'[o] = lastSent[o]
      BY <1>3, <2>3, <1>t DEF Check, TypeOK
    <2>5. \A p \in Outs : p # o => spc'[p] = spc[p] /\ pts'[p] = pts[p]
      BY <1>3, <1>t DEF Check, TypeOK
    <2> QED
      BY <2>1, <2>4, <2>5 DEF PtsInv
  <1>4. ASSUME UNCHANGED <<packStamp, slotPts, pts>>,
               \/ rpc # "stamp" /\ rpc' # "stamp"
               \/ UNCHANGED <<rpc, packSlot, value>>,
               \A o \in Outs : spc'[o] = "send" => spc[o] = "send" /\ lastSent'[o] = lastSent[o]
        PROVE  PtsInv'
    BY <1>4 DEF PtsInv
  <1>5. CASE Render /\ ~StampPts /\ ~Stamp
    <2>1. UNCHANGED senderVars /\ UNCHANGED <<packStamp, slotPts>> /\ rpc # "stamp" /\ rpc' # "stamp"
      BY <1>5 DEF Render, BeginTick, TakeSlot, PassSlot, SkipPack, SubmitRender,
                  ReleaseSlot, SubmitDown, NoDown, ringVars
    <2> QED
      BY <1>4, <2>1 DEF senderVars
  <1>6. CASE Gpu \/ UNCHANGED vars
    <2>1. UNCHANGED senderVars /\ UNCHANGED <<packStamp, slotPts>> /\ UNCHANGED renderVars
      BY <1>6 DEF Gpu, RenderFinishes, DownFinishes, ringVars, vars
    <2> QED
      BY <1>4, <2>1 DEF senderVars, renderVars
  <1>7. ASSUME NEW o \in Outs, Sender(o), ~Check(o) PROVE PtsInv'
    <2>1. UNCHANGED <<packStamp, slotPts, pts>> /\ UNCHANGED renderVars
      BY <1>7 DEF Sender, Wake, Find, SdiSkip, TryPin, Send, SdiSendFails, Unpin, ringVars
    <2>2. \A p \in Outs : spc'[p] = "send" => spc[p] = "send" /\ lastSent'[p] = lastSent[p]
      BY <1>7 DEF Sender, Wake, Find, SdiSkip, TryPin, Send, SdiSendFails, Unpin, NextFrame, TypeOK
    <2> QED
      BY <1>4, <2>1, <2>2 DEF renderVars
  <1> QED
    BY <1>1, <1>2, <1>3, <1>5, <1>6, <1>7 DEF Next

\* The pts kept for a slot is that of the tick packed into it.
THEOREM PtsCorrect == Spec => []PtsInv
  <1>1. Init => PtsInv
    BY DEF Init, PtsInv
  <1>2. RingInv /\ PtsInv /\ [Next]_vars => PtsInv'
    BY PtsNext
  <1> QED
    BY <1>1, <1>2, RingCorrect, PTL DEF Spec

\* The timestamp an OMT frame goes out with is that of the tick composited in
\* it, provided no render submission fails.
THEOREM PtsMatchesFrame ==
    ASSUME "render" \notin CanFail
    PROVE  Spec => []PtsIsCompositeTick
  <1>1. PtsInv /\ SendIntact => PtsIsCompositeTick
    BY DEF PtsInv, SendIntact, PtsIsCompositeTick
  <1> QED
    BY <1>1, PtsCorrect, Intact, PTL

---------------------------------------------------------------------------
(* How many slots are enough: one for each copy that can be in flight       *)
(* besides the frame in flight being reused (FramesInFlight - 1), one for   *)
(* the newest frame read back, one for each sender, and one to write.       *)

\* No frame is in flight at the start.
LEMMA FlightInit == Init => FlightInv
  BY FifType DEF Init, FlightInv

\* A stamp is made for the frame in flight its tick reserved.
LEMMA FlightRender == RingInv /\ FlightInv /\ Render => FlightInv'
  <1> SUFFICES ASSUME RingInv, FlightInv, Render PROVE FlightInv'
    OBVIOUS
  <1> USE NoSlotIsNone DEF RingInv
  <1>t. /\ packStamp \in [Slots -> Nat] /\ downValues \in [Fifs -> Nat]
        /\ value \in Nat /\ rbDone \in Nat /\ downDone \in Nat
        /\ \A s \in Slots : Fif(packStamp[s]) \in Fifs /\ packStamp[s] <= value
    BY FifType DEF TypeOK, StampInv
  <1>a. CASE BeginTick
    <2>1. /\ rpc = "begin" /\ rpc' = "scan" /\ value' = value + 1 /\ rbDone' = downDone
          /\ downDone >= downValues[Fif(value')]
          /\ UNCHANGED <<packStamp, downValues, packSlot>>
      BY <1>a DEF BeginTick, ringVars
    <2>2. \A s \in Slots : packStamp[s] <= downValues[Fif(packStamp[s])]
      BY <2>1 DEF FlightInv
    <2>3. rbDone <= rbDone'
      BY <2>1 DEF OrderInv
    <2>4. Fif(value') \in Fifs
      BY <2>1, <1>t, FifType
    <2>5. \A s \in Slots : Fif(packStamp[s]) = Fif(value') => packStamp[s] <= rbDone'
      BY <2>1, <2>2, <2>4, <1>t
    <2>6. \A s, t \in Slots :
             Fif(packStamp[s]) = Fif(packStamp[t]) /\ packStamp[s] < packStamp[t]
                 => packStamp[s] <= rbDone'
      BY <2>1, <2>3, <1>t DEF FlightInv
    <2> QED
      BY <2>1, <2>2, <2>5, <2>6 DEF FlightInv, Fif
  <1>b. CASE Stamp
    <2>1. /\ rpc = "stamp" /\ rpc' = "release" /\ packSlot \in Slots
          /\ packStamp' = [packStamp EXCEPT ![packSlot] = value]
          /\ UNCHANGED <<value, rbDone, downValues, packSlot>>
      BY <1>b DEF Stamp, TypeOK, PinInv
    <2>2. /\ packStamp'[packSlot] = value
          /\ \A s \in Slots : s # packSlot => packStamp'[s] = packStamp[s]
      BY <2>1, <1>t
    <2>3. \A s \in Slots : s = packSlot \/ packStamp'[s] <= downValues'[Fif(packStamp'[s])]
      BY <2>1, <2>2 DEF FlightInv
    <2>4. \A s \in Slots : Fif(packStamp'[s]) = Fif(value) /\ packStamp'[s] < value
                               => packStamp'[s] <= rbDone
      BY <2>1, <2>2, <1>t DEF FlightInv
    <2>5. ASSUME NEW s \in Slots, NEW t \in Slots,
                 Fif(packStamp'[s]) = Fif(packStamp'[t]), packStamp'[s] < packStamp'[t]
          PROVE  packStamp'[s] <= rbDone
      <3>1. CASE t = packSlot
        BY <2>2, <2>4, <2>5, <3>1
      <3>2. CASE s = packSlot
        BY <2>2, <2>5, <3>2, <1>t
      <3>3. CASE s # packSlot /\ t # packSlot
        BY <2>2, <2>5, <3>3 DEF FlightInv
      <3> QED BY <3>1, <3>2, <3>3
    <2> QED
      BY <2>1, <2>3, <2>4, <2>5 DEF FlightInv, Fif
  <1>c. CASE SubmitDown
    <2>1. /\ rpc = "down" /\ rpc' = "begin"
          /\ downValues' = [downValues EXCEPT ![Fif(value)] = value]
          /\ UNCHANGED <<value, rbDone, packStamp>>
      BY <1>c DEF SubmitDown, ringVars
    <2>2. Fif(value) \in Fifs
      BY <1>t, FifType
    <2>3. packSlot \in Slots => packStamp[packSlot] = value
      BY <2>1 DEF StampInv
    <2>4. ASSUME NEW s \in Slots PROVE packStamp[s] <= downValues'[Fif(packStamp[s])]
      <3>1. CASE Fif(packStamp[s]) = Fif(value)
        BY <2>1, <2>2, <3>1, <1>t
      <3>2. CASE Fif(packStamp[s]) # Fif(value)
        <4>1. downValues'[Fif(packStamp[s])] = downValues[Fif(packStamp[s])]
          BY <2>1, <3>2, <1>t
        <4>2. s # packSlot
          BY <2>3, <3>2
        <4> QED
          BY <4>1, <4>2 DEF FlightInv
      <3> QED BY <3>1, <3>2
    <2> QED
      BY <2>1, <2>4 DEF FlightInv, Fif
  <1>d. CASE ReleaseSlot \/ NoDown
    <2>1. /\ UNCHANGED <<packStamp, value, rbDone, downValues, packSlot>> /\ rpc # "begin"
          /\ \/ rpc = "release" /\ rpc' = "down"
             \/ rpc' = "begin" /\ packSlot \notin Slots
      BY <1>d DEF ReleaseSlot, NoDown, ringVars
    <2> QED
      BY <2>1 DEF FlightInv, Fif
  <1>e. CASE TakeSlot \/ PassSlot \/ SkipPack \/ SubmitRender \/ StampPts
    <2>1. /\ UNCHANGED <<packStamp, value, rbDone, downValues>>
          /\ rpc \notin {"begin", "release", "down"}
          /\ rpc' \in {"scan", "submit", "pts", "stamp", "down"}
      BY <1>e DEF TakeSlot, PassSlot, SkipPack, SubmitRender, StampPts, ringVars
    <2> QED
      BY <2>1 DEF FlightInv, Fif
  <1> QED
    BY <1>a, <1>b, <1>c, <1>d, <1>e DEF Render

\* Every step keeps the frames in flight apart.
LEMMA FlightNext == RingInv /\ FlightInv /\ [Next]_vars => FlightInv'
  <1> SUFFICES ASSUME RingInv, FlightInv, Gpu \/ (\E o \in Outs : Sender(o)) \/ UNCHANGED vars
               PROVE  FlightInv'
    BY FlightRender DEF Next
  <1>1. UNCHANGED <<rpc, packStamp, value, rbDone, downValues, packSlot>>
    BY DEF Gpu, RenderFinishes, DownFinishes, Sender, Wake, Find, SdiSkip, TryPin, Check, Send,
           SdiSendFails, Unpin, renderVars, ringVars, vars
  <1> QED
    BY <1>1 DEF FlightInv, Fif

-----------------------------------------------------------------------------
(* The search *)

\* The senders that cannot pin another old slot are finitely many.
LEMMA SpentFinite == IsFiniteSet(Spent) /\ Cardinality(Spent) \in Nat
  <1>1. Spent \in SUBSET Outs
    BY DEF Spent
  <1> QED
    BY <1>1, OutsAssumption, FS_Subset, FS_CardinalityType

\* The slots the search has passed are finitely many.
LEMMA PassedFinite ==
    ASSUME TypeOK
    PROVE  IsFiniteSet(PassedPinned) /\ Cardinality(PassedPinned) \in Nat
  <1>1. PassedPinned \in SUBSET (0 .. scan - 1)
    BY DEF PassedPinned
  <1>2. scan - 1 \in Int
    BY NumSlotsAssumption DEF TypeOK
  <1>3. IsFiniteSet(0 .. scan - 1)
    BY <1>2, FS_Interval
  <1> QED
    BY <1>1, <1>3, FS_Subset, FS_CardinalityType

\* Before the search there is nothing to show.
LEMMA SearchIdle ==
    ASSUME scan = 0
    PROVE  SearchInv
  <1>1. PassedPinned = {}
    BY DEF PassedPinned
  <1>2. Cardinality(PassedPinned) = 0
    BY <1>1, FS_EmptySet
  <1> QED
    BY <1>2, SpentFinite DEF SearchInv

\* A slot that the search passes with an old frame in it is pinned.
LEMMA PassedIsPinned ==
    ASSUME RingInv, rpc = "scan", NEW s \in Slots, ~Writable(s), packStamp[s] <= rbDone
    PROVE  \E o \in Outs : Pinning(o) /\ slot[o] = s /\ 0 < lastSent[o] /\ lastSent[o] <= packStamp[s]
  <1> USE DEF RingInv
  <1>1. packPins[s] # Free /\ ~packPins[s].writer
    BY DEF Writable, PinInv, Writing
  <1>2. packPins[s].readers # 0
    BY <1>1 DEF Free, TypeOK
  <1>3. Pinners(s) # {}
    BY <1>2, FS_EmptySet DEF PinInv
  <1>4. PICK o \in Outs : Pinning(o) /\ slot[o] = s
    BY <1>3 DEF Pinners
  <1> QED
    BY <1>4 DEF Pinning, StampInv, TypeOK

\* A slot the search passes is charged to a frame in flight or to a sender.
LEMMA SearchPass == RingInv /\ SearchInv /\ PassSlot => SearchInv'
  <1> SUFFICES ASSUME RingInv, SearchInv, PassSlot PROVE SearchInv'
    OBVIOUS
  <1>1. /\ rpc = "scan" /\ scan \in Slots /\ ~Writable(scan) /\ scan' = scan + 1
        /\ UNCHANGED <<rbDone, packStamp, spc, slot, lastSent>>
    BY NumSlotsAssumption DEF PassSlot, RingInv, TypeOK, Slots, ringVars, senderVars
  <1>t. /\ packStamp \in [Slots -> Nat] /\ rbDone \in Nat /\ lastSent \in [Outs -> Nat]
        /\ scan \in Nat /\ slot \in [Outs -> Slots \cup {NoSlot}]
        /\ Slots \subseteq Nat /\ NoSlot \in Nat
    BY <1>1, NoSlotIsNone DEF RingInv, TypeOK, Slots
  <1>2. packStamp[scan] # 0
    BY <1>1, <1>t, PassedIsPinned
  <1>3. 0 .. scan' - 1 = (0 .. scan - 1) \cup {scan}
    BY <1>1, <1>t
  <1>4. \A k \in 0 .. scan' - 1 : packStamp'[k] # 0
    BY <1>1, <1>2, <1>3 DEF SearchInv
  <1>5. ASSUME NEW o \in Spent PROVE o \in Spent'
    <2>1. o \in Outs /\ slot[o] \in Nat /\ lastSent'[o] = lastSent[o]
          /\ spc'[o] = spc[o] /\ slot'[o] = slot[o] /\ rbDone' = rbDone
      BY <1>1, <1>t DEF Spent
    <2>2. slot[o] < scan => slot'[o] < scan'
      BY <1>1, <1>t, <2>1
    <2> QED
      BY <2>1, <2>2 DEF Spent, Pinning
  <1>f. /\ IsFiniteSet(Spent) /\ Cardinality(Spent) \in Nat
        /\ IsFiniteSet(Spent') /\ Cardinality(Spent') \in Nat
        /\ IsFiniteSet(PassedPinned) /\ Cardinality(PassedPinned) \in Nat
    <2>1. Spent' \in SUBSET Outs
      BY DEF Spent
    <2> QED
      BY <2>1, OutsAssumption, FS_Subset, FS_CardinalityType, SpentFinite, PassedFinite
         DEF RingInv
  <1>6. CASE packStamp[scan] >= rbDone
    <2>1. PassedPinned' = PassedPinned
      BY <1>1, <1>3, <1>6, <1>t DEF PassedPinned
    <2>2. Cardinality(Spent) <= Cardinality(Spent')
      <3>1. Spent \in SUBSET Spent'
        BY <1>5
      <3> QED
        BY <1>f, <3>1, FS_Subset
    <2>3. Cardinality(PassedPinned) <= Cardinality(Spent')
      BY <2>2, <1>f DEF SearchInv
    <2> QED
      BY <1>4, <2>1, <2>3 DEF SearchInv
  <1>7. CASE packStamp[scan] < rbDone
    <2>1. PICK o \in Outs : Pinning(o) /\ slot[o] = scan /\ lastSent[o] <= packStamp[scan]
      BY <1>1, <1>7, <1>t, PassedIsPinned
    <2>2. o \notin Spent /\ o \in Spent'
      BY <1>1, <1>7, <1>t, <2>1 DEF Spent, Pinning
    <2>3. Cardinality(Spent \cup {o}) = Cardinality(Spent) + 1
      BY <2>2, <1>f, FS_AddElement
    <2>4. Spent \cup {o} \in SUBSET Spent'
      BY <1>5, <2>2
    <2>5. Cardinality(Spent \cup {o}) <= Cardinality(Spent')
      BY <2>4, <1>f, FS_Subset
    <2>6. PassedPinned' = PassedPinned \cup {scan} /\ scan \notin PassedPinned
      BY <1>1, <1>3, <1>7, <1>t DEF PassedPinned
    <2>7. Cardinality(PassedPinned \cup {scan}) = Cardinality(PassedPinned) + 1
      BY <2>6, <1>f, FS_AddElement
    <2>8. Cardinality(PassedPinned) <= Cardinality(Spent)
      BY DEF SearchInv
    <2>9. Cardinality(PassedPinned \cup {scan}) <= Cardinality(Spent')
      BY <1>f, <2>3, <2>5, <2>7, <2>8
    <2> QED
      BY <1>4, <2>6, <2>9 DEF SearchInv
  <1> QED
    BY <1>1, <1>6, <1>7, <1>t

\* A sender that moves on keeps its one charge.
LEMMA SearchSender ==
    ASSUME RingInv, SearchInv, NEW o \in Outs, Sender(o)
    PROVE  SearchInv'
  <1>t. /\ rbDone \in Nat /\ rbDone <= downDone /\ downDone \in Nat
        /\ lastSent \in [Outs -> Nat] /\ spc \in [Outs -> SenderPc]
        /\ slot \in [Outs -> Slots \cup {NoSlot}]
    BY DEF RingInv, TypeOK, OrderInv
  <1>1. UNCHANGED <<scan, rbDone, packStamp>>
    BY DEF Sender, Wake, Find, SdiSkip, TryPin, Check, Send, SdiSendFails, Unpin, renderVars, ringVars
  <1>2. ASSUME NEW p \in Outs, p # o
        PROVE  spc'[p] = spc[p] /\ slot'[p] = slot[p] /\ lastSent'[p] = lastSent[p]
    BY <1>2, <1>t DEF Sender, Wake, Find, SdiSkip, TryPin, Check, Send, SdiSendFails, Unpin, NextFrame
  <1>3. ASSUME o \in Spent PROVE o \in Spent'
    <2>1. CASE Wake(o)
      <3>1. lastSent'[o] = downDone
        BY <2>1, <1>t DEF Wake
      <3> QED
        BY <3>1, <1>t, <1>1 DEF Spent
    <2>2. CASE Unpin(o)
      <3>1. spc'[o] = "wait"
        BY <2>2, <1>t DEF Unpin, NextFrame
      <3> QED
        BY <3>1 DEF Spent
    <2>3. CASE Find(o) \/ SdiSkip(o) \/ TryPin(o)
      <3>1. lastSent'[o] = lastSent[o] /\ spc[o] \in {"find", "pin"}
        BY <2>3 DEF Find, SdiSkip, TryPin
      <3> QED
        BY <3>1, <1>3, <1>1 DEF Spent, Pinning
    <2>4. CASE Check(o) \/ Send(o) \/ SdiSendFails(o)
      <3>1. /\ lastSent'[o] = lastSent[o] /\ slot'[o] = slot[o]
            /\ spc[o] # "wait" /\ spc'[o] \in {"send", "unpin"}
        BY <2>4, <1>t DEF Check, Send, SdiSendFails
      <3> QED
        BY <3>1, <1>3, <1>1 DEF Spent, Pinning
    <2> QED
      BY <2>1, <2>2, <2>3, <2>4 DEF Sender
  <1>4. Spent \subseteq Spent'
    BY <1>1, <1>2, <1>3 DEF Spent, Pinning
  <1>5. PassedPinned' = PassedPinned
    BY <1>1 DEF PassedPinned
  <1>6. Spent' \in SUBSET Outs
    BY DEF Spent
  <1>7. Cardinality(Spent) <= Cardinality(Spent')
    BY <1>4, <1>6, OutsAssumption, FS_Subset
  <1>8. IsFiniteSet(Spent') /\ Cardinality(Spent') \in Nat
    BY <1>6, OutsAssumption, FS_Subset, FS_CardinalityType
  <1>9. Cardinality(PassedPinned) <= Cardinality(Spent')
    BY <1>7, <1>8, SpentFinite, PassedFinite DEF SearchInv, RingInv
  <1> QED
    BY <1>1, <1>5, <1>9 DEF SearchInv

\* Every step keeps the account of the passed slots.
LEMMA SearchNext == RingInv /\ SearchInv /\ [Next]_vars => SearchInv'
  <1> SUFFICES ASSUME RingInv, SearchInv, [Next]_vars PROVE SearchInv'
    OBVIOUS
  <1>1. CASE Gpu \/ UNCHANGED vars
    <2>1. UNCHANGED <<scan, rbDone, packStamp, spc, slot, lastSent>>
      BY <1>1 DEF Gpu, RenderFinishes, DownFinishes, renderVars, ringVars, senderVars, vars
    <2>2. Spent' = Spent /\ PassedPinned' = PassedPinned
      BY <2>1 DEF Spent, PassedPinned, Pinning
    <2> QED
      BY <2>1, <2>2 DEF SearchInv
  <1>2. CASE Render /\ ~PassSlot
    <2>1. scan' = 0
      BY <1>2 DEF Render, BeginTick, TakeSlot, SkipPack, SubmitRender, StampPts, Stamp,
                  ReleaseSlot, SubmitDown, NoDown, RingInv, PinInv
    <2>2. PassedPinned' = {}
      BY <2>1 DEF PassedPinned
    <2>3. Spent' \in SUBSET Outs
      BY DEF Spent
    <2>4. Cardinality(PassedPinned') = 0 /\ Cardinality(Spent') \in Nat
      BY <2>2, <2>3, OutsAssumption, FS_EmptySet, FS_Subset, FS_CardinalityType
    <2> QED
      BY <2>1, <2>4 DEF SearchInv
  <1> QED
    BY <1>1, <1>2, SearchPass, SearchSender DEF Next

-----------------------------------------------------------------------------
CapacityInv == RingInv /\ FlightInv /\ SearchInv

\* Of the slots that are not free, each is accounted for by a frame in flight
\* or by a sender.
THEOREM CapacityCorrect == Spec => []CapacityInv
  <1>1. Init => SearchInv
    BY SearchIdle DEF Init
  <1>2. FlightInv /\ SearchInv /\ RingInv /\ [Next]_vars => FlightInv' /\ SearchInv'
    BY FlightNext, SearchNext
  <1> QED
    BY <1>1, <1>2, FlightInit, RingCorrect, PTL DEF Spec, CapacityInv

\* The slots stamped with values newer than what the search saw read back.
InFlight == {s \in Slots : packStamp[s] > rbDone}

\* Besides the tick being packed, at most FramesInFlight - 1 frames are in flight.
LEMMA FewInFlight ==
    ASSUME RingInv, FlightInv, rpc = "scan"
    PROVE  IsFiniteSet(InFlight) /\ Cardinality(InFlight) <= FramesInFlight - 1
  <1> DEFINE others == Fifs \ {Fif(value)}
             fifOf == [s \in InFlight |-> Fif(packStamp[s])]
  <1>t. /\ packStamp \in [Slots -> Nat] /\ value \in Nat /\ rbDone \in Nat
        /\ \A s \in Slots : Fif(packStamp[s]) \in Fifs
    BY FifType DEF RingInv, TypeOK
  <1>1. IsFiniteSet(Fifs) /\ Cardinality(Fifs) = FramesInFlight
    BY FramesInFlightAssumption, FS_Interval DEF Fifs
  <1>2. Fif(value) \in Fifs
    BY <1>t, FifType
  <1>3. IsFiniteSet(others) /\ Cardinality(others) = FramesInFlight - 1
    BY <1>1, <1>2, FS_RemoveElement
  <1>4. IsFiniteSet(Slots)
    BY NumSlotsAssumption, FS_Interval DEF Slots
  <1>5. IsFiniteSet(InFlight) /\ Cardinality(InFlight) \in Nat
    BY <1>4, FS_Subset, FS_CardinalityType DEF InFlight
  <1>6. \A s \in InFlight : Fif(packStamp[s]) # Fif(value)
    BY <1>t DEF FlightInv, RingInv, StampInv, InFlight
  <1>7. fifOf \in [InFlight -> others]
    BY <1>t, <1>6 DEF InFlight
  <1>8. ASSUME NEW s \in InFlight, NEW t \in InFlight, s # t
        PROVE  fifOf[s] # fifOf[t]
    <2>1. packStamp[s] # packStamp[t]
      BY <1>8, <1>t DEF RingInv, StampInv, InFlight
    <2>2. packStamp[s] < packStamp[t] \/ packStamp[t] < packStamp[s]
      BY <2>1, <1>t DEF InFlight
    <2> QED
      BY <2>2, <1>t DEF FlightInv, InFlight
  <1>9. ~(Cardinality(others) < Cardinality(InFlight))
    <2> HIDE DEF others, fifOf
    <2> QED
      BY <1>3, <1>5, <1>7, <1>8, FS_PigeonHole
  <1> QED
    BY <1>3, <1>5, <1>9, FramesInFlightAssumption

\* The ring of Compositor.h (5 slots, 2 frames in flight, 2 senders) never
\* turns a frame away: the render thread finds a slot in every tick, whatever
\* the senders do while it looks.
THEOREM Capacity ==
    ASSUME NumSlots >= FramesInFlight + Cardinality(Outs) + 1
    PROVE  Spec => []AlwaysASlot
  <1>1. CapacityInv => AlwaysASlot
    <2> SUFFICES ASSUME CapacityInv, rpc = "scan", scan = NumSlots PROVE FALSE
      BY DEF AlwaysASlot
    <2> DEFINE newest == {s \in Slots : packStamp[s] = rbDone}
    <2>t. packStamp \in [Slots -> Nat] /\ rbDone \in Nat /\ 0 .. scan - 1 = Slots
      BY DEF CapacityInv, RingInv, TypeOK, Slots
    <2>p. PassedPinned = {s \in Slots : packStamp[s] < rbDone}
      BY <2>t DEF PassedPinned
    <2>n. \A s \in Slots : packStamp[s] # 0
      BY <2>t DEF CapacityInv, SearchInv
    <2>1. IsFiniteSet(InFlight) /\ Cardinality(InFlight) <= FramesInFlight - 1
          /\ Cardinality(InFlight) \in Nat
      BY FewInFlight, FS_CardinalityType DEF CapacityInv
    <2>2. Cardinality(PassedPinned) <= Cardinality(Outs) /\ IsFiniteSet(PassedPinned)
          /\ Cardinality(PassedPinned) \in Nat /\ Cardinality(Outs) \in Nat
      <3>1. Spent \in SUBSET Outs
        BY DEF Spent
      <3>2. Cardinality(Spent) <= Cardinality(Outs) /\ Cardinality(Outs) \in Nat
        BY <3>1, OutsAssumption, FS_Subset, FS_CardinalityType
      <3> QED
        BY <3>2, SpentFinite, PassedFinite DEF CapacityInv, SearchInv, RingInv
    <2>3. IsFiniteSet(newest) /\ Cardinality(newest) \in Nat /\ Cardinality(newest) <= 1
      <3>1. \A s, t \in newest : s = t
        BY <2>n DEF CapacityInv, RingInv, StampInv
      <3>2. newest = {} \/ \E s : newest = {s}
        BY <3>1
      <3> HIDE DEF newest
      <3>3. CASE newest = {}
        BY <3>3, FS_EmptySet
      <3>4. ASSUME NEW s, newest = {s}
            PROVE  IsFiniteSet(newest) /\ Cardinality(newest) = 1
        BY <3>4, FS_Singleton
      <3> QED
        BY <3>2, <3>3, <3>4
    <2>4. Slots = (PassedPinned \cup newest) \cup InFlight
      <3>1. \A s \in Slots : packStamp[s] < rbDone \/ packStamp[s] = rbDone \/ packStamp[s] > rbDone
        BY <2>t
      <3> QED
        BY <2>p, <3>1 DEF InFlight
    <2>5. Cardinality(Slots) = NumSlots
      BY NumSlotsAssumption, FS_Interval DEF Slots
    <2>6. /\ IsFiniteSet(PassedPinned \cup newest)
          /\ Cardinality(PassedPinned \cup newest) <= Cardinality(Outs) + 1
          /\ Cardinality(PassedPinned \cup newest) \in Nat
      <3> HIDE DEF newest
      <3>1. /\ IsFiniteSet(PassedPinned \cup newest)
            /\ Cardinality(PassedPinned \cup newest) =
                 Cardinality(PassedPinned) + Cardinality(newest)
                     - Cardinality(PassedPinned \cap newest)
        BY <2>2, <2>3, FS_Union
      <3>2. Cardinality(PassedPinned \cap newest) \in Nat
        BY <2>2, FS_Subset, FS_CardinalityType
      <3> QED
        BY <2>2, <2>3, <3>1, <3>2, FS_CardinalityType
    <2>7. Cardinality(Slots) <= Cardinality(Outs) + 1 + (FramesInFlight - 1)
      <3> HIDE DEF newest
      <3>1. Cardinality((PassedPinned \cup newest) \cup InFlight) =
              Cardinality(PassedPinned \cup newest) + Cardinality(InFlight)
                  - Cardinality((PassedPinned \cup newest) \cap InFlight)
        BY <2>1, <2>6, FS_Union
      <3>2. Cardinality((PassedPinned \cup newest) \cap InFlight) \in Nat
        BY <2>6, FS_Subset, FS_CardinalityType
      <3> QED
        BY <2>1, <2>2, <2>4, <2>6, <3>1, <3>2, FramesInFlightAssumption
    <2> QED
      BY <2>2, <2>5, <2>7, NumSlotsAssumption, FramesInFlightAssumption
  <1> QED
    BY <1>1, CapacityCorrect, PTL
==============================================================================
