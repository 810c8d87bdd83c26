----------------------------- MODULE PackSlotsInv -----------------------------
(***************************************************************************)
(* The inductive invariants behind the theorems of PackSlotsProofs, in the *)
(* order in which they are proved: each uses the ones before it.           *)
(***************************************************************************)
EXTENDS PackSlots

\* A sender has pinned its slot between packTryPin and packUnpin.
Pinning(o) == spc[o] \in {"check", "send", "unpin"}

Pinners(s) == {o \in Outs : Pinning(o) /\ slot[o] = s}

\* The render thread owns the slot it took until it releases it.
Writing == rpc \in {"submit", "pts", "stamp", "release"}

\* The pin words count exactly the threads that hold the slots, never a writer
\* and a reader at once.
PinInv ==
    /\ rpc \in {"begin", "scan"} => packSlot = NoSlot
    /\ rpc \in {"pts", "stamp", "release"} => packSlot # NoSlot
    /\ rpc # "scan" => scan = 0
    /\ \A o \in Outs : spc[o] \in {"pin", "check", "send", "unpin"} => slot[o] # NoSlot
    /\ \A s \in Slots :
          /\ packPins[s].readers = Cardinality(Pinners(s))
          /\ packPins[s].writer <=> Writing /\ packSlot = s
          /\ packPins[s].writer => packPins[s].readers = 0

\* Where each value stands between the tick that reserved it and its timeline.
OrderInv ==
    /\ downDone <= value /\ renderDone <= value
    /\ rbDone <= downDone
    /\ rpc # "begin" => downDone < value
    /\ rpc \in {"scan", "submit"} => renderDone < value
    /\ \A x \in renderQ :
          /\ renderDone < x.val /\ x.val <= value /\ x.fif = Fif(x.val)
          /\ x.val <= fifValues[x.fif]
          /\ rpc \in {"scan", "submit"} => x.fif # Fif(value) /\ x.val < value
          /\ \A y \in renderQ : x.fif = y.fif => x = y
    /\ \A y \in downQ :
          /\ downDone < y.val /\ y.val <= value /\ y.fif = Fif(y.val)
          /\ y.val <= downValues[y.fif]
          /\ rpc # "begin" => y.fif # Fif(value) /\ y.val < value
          /\ \A z \in downQ : y.fif = z.fif => y = z
          /\ \A x \in renderQ : x.fif = y.fif => x.val <= y.val
    /\ \A o \in Outs : lastSent[o] <= downDone

\* Which value each slot carries: that of the copy in flight into it if there is
\* one, an old one while the render thread has it, and no two the same.
StampInv ==
    /\ \A s \in Slots : packStamp[s] <= value
    /\ rpc \in {"scan", "submit", "pts", "stamp"} => \A s \in Slots : packStamp[s] < value
    /\ rpc \in {"release", "down"} =>
          \A s \in Slots : packStamp[s] = value <=> s = packSlot
    /\ rpc \in {"submit", "pts", "stamp"} /\ packSlot # NoSlot =>
          packStamp[packSlot] <= rbDone
    /\ \A s, t \in Slots : packStamp[s] = packStamp[t] /\ packStamp[s] # 0 => s = t
    /\ \A y \in downQ : y.slot # NoSlot => packStamp[y.slot] = y.val
    /\ \A y \in downQ : y.slot = NoSlot => \A s \in Slots : packStamp[s] # y.val
    /\ \A o \in Outs :
          /\ spc[o] # "wait" => lastSent[o] > 0
          /\ spc[o] \in {"pin", "check", "send", "unpin"} => packStamp[slot[o]] >= lastSent[o]
          /\ spc[o] = "send" => packStamp[slot[o]] = lastSent[o]

-----------------------------------------------------------------------------
\* Frames, when no render submission fails: the device buffer holds the frame
\* whose copy is due, or the render queue is about to put it there ...
FrameDue(v, f) ==
    \/ \E x \in renderQ : x.val = v /\ x.fif = f /\ x.pack
    \/ packDev[f] = v /\ \A x \in renderQ : x.fif # f

\* ... and a slot whose stamp is complete holds the frame of its stamp.
FrameInv ==
    /\ \A y \in downQ : y.slot # NoSlot => FrameDue(y.val, y.fif)
    /\ rpc \in {"pts", "stamp", "release", "down"} /\ packSlot # NoSlot =>
          FrameDue(value, Fif(value))
    /\ \A s \in Slots :
          /\ packStamp[s] = downDone => packHost[s] = packStamp[s]
          /\ \A o \in Outs : packStamp[s] = lastSent[o] => packHost[s] = packStamp[s]
    /\ \A o \in Outs : sent[o] <= lastSent[o]

\* An output's presentation times follow the stamps.
PtsInv ==
    /\ \A s \in Slots, o \in Outs :
          slotPts[o][s] = IF rpc = "stamp" /\ s = packSlot THEN value ELSE packStamp[s]
    /\ \A o \in Outs \ SdiOuts : spc[o] = "send" => pts[o] = lastSent[o]

-----------------------------------------------------------------------------
\* Every stamp belongs to a tick that reserved its frame in flight, so two
\* stamps of one frame in flight cannot both be newer than what was read back.
FlightInv ==
    /\ \A s \in Slots :
          \/ packStamp[s] <= downValues[Fif(packStamp[s])]
          \/ rpc \in {"release", "down"} /\ s = packSlot
    /\ \A s, t \in Slots :
          Fif(packStamp[s]) = Fif(packStamp[t]) /\ packStamp[s] < packStamp[t]
              => packStamp[s] <= rbDone
    /\ rpc # "begin" =>
          \A s \in Slots : Fif(packStamp[s]) = Fif(value) /\ packStamp[s] < value
                               => packStamp[s] <= rbDone

\* The slots the search passed although an older frame than the last one read
\* back was in them: each was pinned by a sender ...
PassedPinned == {k \in 0 .. scan - 1 : packStamp[k] < rbDone}

\* ... that cannot pin another such slot before the search ends.
Spent == {o \in Outs : \/ lastSent[o] >= rbDone
                       \/ spc[o] = "wait"
                       \/ Pinning(o) /\ slot[o] < scan}

SearchInv ==
    /\ \A k \in 0 .. scan - 1 : packStamp[k] # 0
    /\ Cardinality(PassedPinned) <= Cardinality(Spent)
==============================================================================
