--------------------------- MODULE UploadPinProofs ---------------------------
(***************************************************************************)
(* For any number of slots, retained publishes, queued frames and ticks in *)
(* flight: while the GPU may sample a frame its image holds that frame,    *)
(* the staging buffer of an upload in flight is not written to, and the    *)
(* picture does not go back in time.                                       *)
(*                                                                         *)
(* What makes it so is that a frame which is held or being uploaded is the *)
(* last one submitted to its slot, and that the slot being filled has no   *)
(* such frame; the two are kept by acquire's test of pins and timeline.    *)
(***************************************************************************)
EXTENDS UploadPin, FiniteSetTheorems, TLAPS

Settings == SlotsAssumption /\ HoldersAssumption /\ BoundsAssumption

\* The entry of a table for a slot.
Entry(t, place) == t[place.ring][place.slot]

\* A frame is held, or being uploaded.
Busy == pending \cup Held

\* Frames on air, or kept for a tick in flight.
Shown == ({cur} \cup Range(retention)) \ {0}

\* Slots: a busy frame is the last one submitted to its slot, and not in the slot
\* that is being filled.
SlotsOK ==
    /\ \A f \in 1 .. Published : frames[f].ring <= ring /\ f <= Entry(lastSubmit, frames[f])
    /\ filling # NoSlot => staging[ring][filling] = Published + 1
    /\ \A f \in Busy : Entry(lastSubmit, frames[f]) = f
    /\ \A f \in Busy : frames[f].ring = ring => frames[f].slot # filling

\* Pixels: an image has what was submitted to it or something older, and what was
\* submitted for a held frame unless its upload is in flight or failed.
UploadsOK ==
    /\ pending \cap failed = {}
    /\ \A f \in pending : Entry(staging, frames[f]) = f /\ f > uploadDone[frames[f].ring]
    /\ \A r \in Rings, s \in AllSlots : image[r][s] <= lastSubmit[r][s] /\ image[r][s] \notin failed
    /\ \A f \in Held : f \in pending \/ f \in failed \/ Entry(image, frames[f]) = f

\* What is on air was uploaded, and what is still to come is newer.
AirOK ==
    /\ Shown \cap pending = {}
    /\ sync => seen = 0 /\ \A f \in queue \cup Range(feed) : f > cur
    /\ ~sync => cur \in {0, seen}

\* The frame of a tick in flight is kept.
RenderOK ==
    /\ gpu <= value /\ value <= gpu + FramesInFlight
    /\ \A x \in inFlight : x.val \in gpu + 1 .. value /\ retention[Fif(x.val)] = x.frame

PinInv == TypeOK /\ SlotsOK /\ UploadsOK /\ AirOK /\ RenderOK

\* Order: what may still go on air is newer than what is or was, and what went on
\* air was uploaded.
Kept == Range(retention)
Coming == IF sync THEN queue \cup Range(feed) ELSE Newer
OrderOK ==
    /\ ~sync => queue = {} /\ feed = << >>
    /\ \A f \in Coming, g \in Kept \cup {cur} : f > g
    /\ cur # 0 => \A g \in Kept : g <= cur
    /\ \A g \in Shown : Uploaded(g)

\* Places: a later frame is not in an earlier ring, the frame last submitted to a
\* slot was copied there, and the mailbox has the last frames published.
PlacesOK ==
    /\ \A f, g \in 1 .. Published : f < g => frames[f].ring <= frames[g].ring
    /\ \A r \in Rings, s \in AllSlots :
          lastSubmit[r][s] # 0 => frames[lastSubmit[r][s]] = [ring |-> r, slot |-> s]
    /\ \A i \in 1 .. Len(mailbox) : mailbox[i] = (Published + 1) - i

------------------------------------------------------------------------------
(* Sets, sequences and tables *)

\* A set that is not empty has a member of least rank.
LEMMA LeastRank ==
    ASSUME NEW S, S # {}, NEW rank \in [S -> Nat]
    PROVE  \E x \in S : \A y \in S : rank[x] <= rank[y]
<1> DEFINE Upto == {0 .. rank[x] : x \in S}
           Less == StrictSubsetOrdering(Nat)
<1>1. PICK i \in Upto : \A j \in Upto : ~(<<j, i>> \in Less)
  <2>1. Upto \subseteq FiniteSubsetsOf(Nat) /\ Upto # {}
    <3>1. \A x \in S : 0 .. rank[x] \in SUBSET Nat /\ IsFiniteSet(0 .. rank[x])
      BY FS_Interval
    <3> QED BY <3>1 DEF FiniteSubsetsOf
  <2> HIDE DEF Upto, Less
  <2> QED BY <2>1, FS_StrictSubsetOrderingWellFounded, WFMin DEF Less
<1>2. PICK x \in S : i = 0 .. rank[x]
  BY <1>1
<1>3. ASSUME NEW y \in S, rank[y] < rank[x] PROVE FALSE
  <2>1. /\ 0 .. rank[y] \in SUBSET Nat /\ 0 .. rank[x] \in SUBSET Nat
        /\ 0 .. rank[y] \subseteq 0 .. rank[x]
        /\ rank[x] \in 0 .. rank[x] /\ rank[x] \notin 0 .. rank[y]
    BY <1>3
  <2>2. 0 .. rank[y] \in Upto /\ 0 .. rank[y] # 0 .. rank[x]
    BY <2>1
  <2>3. <<0 .. rank[y], 0 .. rank[x]>> \in Less
    BY <2>1, <2>2, Zenon DEF StrictSubsetOrdering
  <2> QED BY <1>1, <1>2, <2>2, <2>3
<1> QED BY <1>3

\* A set of frames has a newest.
LEMMA NewestIs ==
    ASSUME NEW n \in Nat, NEW S, S # {}, S \subseteq 0 .. n
    PROVE  Newest(S) \in S /\ \A g \in S : g <= Newest(S)
<1> DEFINE rank == [f \in S |-> n - f]
<1>1. rank \in [S -> Nat]
  OBVIOUS
<1>2. \E x \in S : \A y \in S : rank[x] <= rank[y]
  <2> HIDE DEF rank
  <2> QED BY <1>1, LeastRank
<1>3. \E x \in S : \A y \in S : y <= x
  BY <1>2
<1> QED BY <1>3 DEF Newest

\* The newest n frames of a set are at most n.
LEMMA LatestSize ==
    ASSUME NEW S, NEW m \in Nat, S \subseteq 0 .. m, NEW n \in Nat
    PROVE  Latest(S, n) \subseteq S /\ Cardinality(Latest(S, n)) <= n
<1> DEFINE L == Latest(S, n)
           rank == [f \in L |-> f]
<1>1. L \subseteq S
  BY DEF Latest
<1>2. IsFiniteSet(S)
  <2>1. IsFiniteSet(0 .. m)
    BY FS_Interval
  <2> QED BY <2>1, FS_Subset
<1>3. IsFiniteSet(L) /\ Cardinality(L) \in Nat
  BY <1>1, <1>2, FS_Subset, FS_CardinalityType
<1>4. CASE L = {}
  BY <1>1, <1>4, FS_EmptySet
<1>5. CASE L # {}
  <2>0. \A f \in L : f \in Nat
    <3> HIDE DEF L
    <3> QED BY <1>1
  <2>1. rank \in [L -> Nat]
    <3> HIDE DEF L
    <3> QED BY <2>0
  <2>2. \E x \in L : \A y \in L : rank[x] <= rank[y]
    <3> HIDE DEF rank, L
    <3> QED BY <1>5, <2>1, LeastRank
  <2>3. PICK x \in L : \A y \in L : x <= y
    BY <2>2
  <2> DEFINE A == {g \in S : g > x}
             B == L \ {x}
  <2>4. Cardinality(A) < n
    BY <2>3 DEF Latest
  <2>5. B \subseteq A
    <3> HIDE DEF L
    <3> QED BY <1>1, <2>0, <2>3
  <2>6. IsFiniteSet(A) /\ Cardinality(A) \in Nat
    <3>1. A \subseteq S
      OBVIOUS
    <3> HIDE DEF A
    <3> QED BY <1>2, <3>1, FS_Subset, FS_CardinalityType
  <2>7. IsFiniteSet(B) /\ Cardinality(B) = Cardinality(L) - 1
    <3> HIDE DEF L
    <3> QED BY <1>3, <2>3, FS_RemoveElement
  <2>8. Cardinality(B) <= Cardinality(A)
    <3> HIDE DEF A, B
    <3> QED BY <2>5, <2>6, FS_Subset
  <2> HIDE DEF A, B, L
  <2>9. Cardinality(L) <= n
    BY <1>3, <2>4, <2>6, <2>7, <2>8
  <2> QED BY <1>1, <2>9 DEF L
<1> HIDE DEF L
<1> QED BY <1>4, <1>5 DEF L

\* A table with one entry changed.
Put(t, r, s, v) == [t EXCEPT ![r][s] = v]

\* The entries of such a table.
LEMMA PutIs ==
    ASSUME NEW t \in [Rings -> [AllSlots -> Nat]], NEW r \in Rings, NEW s \in AllSlots,
           NEW v \in Nat
    PROVE  /\ Put(t, r, s, v) \in [Rings -> [AllSlots -> Nat]]
           /\ Put(t, r, s, v)[r][s] = v
           /\ \A r2 \in Rings, s2 \in AllSlots :
                 r2 # r \/ s2 # s => Put(t, r, s, v)[r2][s2] = t[r2][s2]
BY DEF Put

\* What a sequence of frames holds.
LEMMA RangeIs ==
    ASSUME NEW X, NEW q \in Seq(X)
    PROVE  Range(q) \subseteq X /\ \A x : x \in Range(q) <=> \E i \in 1 .. Len(q) : q[i] = x
BY DEF Range

\* A frame more at the end of a sequence.
LEMMA RangeAppend ==
    ASSUME NEW X, NEW q \in Seq(X), NEW f \in X
    PROVE  Range(Append(q, f)) \subseteq Range(q) \cup {f}
<1> DEFINE v == Append(q, f)
<1>1. v \in Seq(X) /\ Len(v) = Len(q) + 1 /\ Len(q) \in Nat
  OBVIOUS
<1>2. \A i \in 1 .. Len(q) + 1 : v[i] = IF i <= Len(q) THEN q[i] ELSE f
  OBVIOUS
<1> HIDE DEF v
<1>3. ASSUME NEW x \in Range(v) PROVE x \in Range(q) \cup {f}
  <2>1. PICK i \in 1 .. Len(q) + 1 : v[i] = x
    BY <1>1, RangeIs
  <2>2. x = f \/ (i \in 1 .. Len(q) /\ x = q[i])
    BY <1>1, <1>2, <2>1
  <2> QED BY <2>2, RangeIs
<1> QED BY <1>3 DEF v

\* What is retained when a frame is published.
LEMMA RetainedIs ==
    ASSUME Settings, NEW X, NEW m \in Seq(X), NEW f \in X
    PROVE  /\ Retained(<<f>> \o m) \in Seq(X) /\ Len(Retained(<<f>> \o m)) <= Keep
           /\ Range(Retained(<<f>> \o m)) \subseteq Range(m) \cup {f}
<1> DEFINE w == <<f>> \o m
           k == IF Len(w) < Keep THEN Len(w) ELSE Keep
           v == SubSeq(w, 1, k)
<1>1. w \in Seq(X) /\ Len(w) = Len(m) + 1 /\ Len(m) \in Nat
  OBVIOUS
<1>2. \A i \in 1 .. Len(w) : w[i] = IF i = 1 THEN f ELSE m[i - 1]
  OBVIOUS
<1>3. Keep \in Nat
  BY DEF Settings, HoldersAssumption
<1> HIDE DEF w
<1>4. k \in 0 .. Len(w) /\ k <= Keep
  BY <1>1, <1>3
<1> HIDE DEF k
<1>5. v \in Seq(X) /\ Len(v) = k /\ \A i \in 1 .. k : v[i] = w[i]
  BY <1>1, <1>4
<1>6. Retained(w) = v
  BY DEF Retained, k
<1> HIDE DEF v
<1>7. Range(v) \subseteq Range(m) \cup {f}
  <2> SUFFICES ASSUME NEW x \in Range(v) PROVE x \in Range(m) \cup {f}
    OBVIOUS
  <2>1. PICK i \in 1 .. k : v[i] = x
    BY <1>5, RangeIs
  <2>2. i \in 1 .. Len(w) /\ x = w[i]
    BY <1>1, <1>4, <1>5, <2>1
  <2>3. x = f \/ (i - 1 \in 1 .. Len(m) /\ x = m[i - 1])
    BY <1>1, <1>2, <2>2
  <2> QED BY <2>3, RangeIs
<1> QED BY <1>4, <1>5, <1>6, <1>7 DEF w

------------------------------------------------------------------------------
(* Slots *)

\* The types of what the slots are about.
LEMMA SlotFacts ==
    ASSUME Settings, TypeOK
    PROVE  /\ NumSlots \in Nat \ {0} /\ NoSlot \in Nat /\ NumSlots <= NoSlot
           /\ Slots \subseteq AllSlots /\ NoSlot \notin AllSlots
           /\ ring \in Rings /\ ring \in Nat /\ filling \in AllSlots \cup {NoSlot}
           /\ Published \in Nat
           /\ \A f \in 1 .. Published : frames[f] \in [ring : Rings, slot : AllSlots]
           /\ \A f \in 1 .. Published : frames[f].ring \in Rings /\ frames[f].slot \in AllSlots
           /\ Busy \subseteq 1 .. Published /\ Held \subseteq 1 .. Published
<1>1. NumSlots \in Nat \ {0} /\ NoSlot \in Nat /\ NumSlots <= NoSlot
  BY DEF Settings, SlotsAssumption, NumSlots, NoSlot, TypeOK
<1>2. Slots \subseteq AllSlots /\ NoSlot \notin AllSlots
  BY <1>1 DEF Slots, AllSlots
<1>3. ring \in Rings /\ ring \in Nat /\ filling \in AllSlots \cup {NoSlot}
  BY <1>2 DEF TypeOK, Rings
<1>4. /\ Published \in Nat
      /\ \A f \in 1 .. Published : frames[f] \in [ring : Rings, slot : AllSlots]
      /\ \A f \in 1 .. Published : frames[f].ring \in Rings /\ frames[f].slot \in AllSlots
  <2>1. /\ frames \in Seq([ring : Rings, slot : AllSlots]) /\ Published = Len(frames)
    BY DEF TypeOK, Published
  <2>2. \A f \in 1 .. Len(frames) : frames[f] \in [ring : Rings, slot : AllSlots]
    <3> DEFINE X == [ring : Rings, slot : AllSlots]
    <3>1. frames \in Seq(X)
      BY <2>1
    <3> HIDE DEF X
    <3>2. \A f \in 1 .. Len(frames) : frames[f] \in X
      BY <3>1
    <3> QED BY <3>2 DEF X
  <2> QED BY <2>1, <2>2
<1>5. Held \subseteq 1 .. Published
  <2>1. Range(mailbox) \subseteq 1 .. Published /\ Range(feed) \subseteq 1 .. Published
    BY RangeIs DEF TypeOK
  <2>2. \A x \in Range(retention) : x \in 0 .. Published
    BY DEF TypeOK, Range
  <2>3. queue \subseteq 1 .. Published /\ cur \in 0 .. Published
    BY DEF TypeOK
  <2> HIDE DEF Published
  <2> SUFFICES ASSUME NEW x \in Held PROVE x \in 1 .. Published
    OBVIOUS
  <2>4. x # 0 /\ (x \in Range(mailbox) \/ x \in Range(feed) \/ x \in queue \/ x = cur
                   \/ x \in Range(retention))
    BY DEF Held
  <2>5. Published \in Nat
    BY <1>4
  <2>6. \A y \in 1 .. Published : y \in 0 .. Published
    OBVIOUS
  <2>7. x \in 0 .. Published
    BY <2>1, <2>2, <2>3, <2>4, <2>6, Zenon
  <2> QED BY <2>4, <2>5, <2>7
<1>6. Busy \subseteq 1 .. Published
  BY <1>5 DEF Busy, TypeOK
<1> QED BY <1>1, <1>2, <1>3, <1>4, <1>5, <1>6

\* The slot acquire finds is free.
LEMMA AcquiredIs ==
    ASSUME Settings, TypeOK, \E s \in Slots : Free(s)
    PROVE  Acquired \in Slots /\ Free(Acquired)
<1> DEFINE S == {s \in Slots : Free(s)}
           rank == [s \in S |-> Offset(s)]
<1>1. \A s \in Slots : Offset(s) \in Nat
  <2>1. NumSlots \in Nat \ {0} /\ cursor \in 0 .. NumSlots - 1
    BY SlotFacts DEF TypeOK, Slots
  <2> HIDE DEF NumSlots
  <2>2. \A s \in 0 .. NumSlots - 1 : (s + NumSlots - cursor) % NumSlots \in Nat
    BY <2>1
  <2> QED BY <2>2 DEF Offset, Slots
<1>2. rank \in [S -> Nat] /\ S # {}
  BY <1>1
<1>3. \E x \in S : \A y \in S : rank[x] <= rank[y]
  <2> HIDE DEF rank, S
  <2> QED BY <1>2, LeastRank
<1>4. \E x \in Slots : Free(x) /\ \A y \in Slots : Free(y) => Offset(x) <= Offset(y)
  BY <1>3
<1> QED BY <1>4, Zenon DEF Acquired

\* A frame whose slot has been acquired is not busy.
LEMMA FreeIsIdle ==
    ASSUME Settings, TypeOK, SlotsOK, UploadsOK, NEW s \in Slots, Free(s), NEW f \in Busy
    PROVE  ~(frames[f].ring = ring /\ frames[f].slot = s)
<1> SUFFICES ASSUME frames[f].ring = ring, frames[f].slot = s PROVE FALSE
  OBVIOUS
<1>1. /\ f \in 1 .. Published /\ ring \in Rings /\ s \in AllSlots
      /\ frames[f] \in [ring : Rings, slot : AllSlots]
  BY SlotFacts
<1>2. frames[f] = [ring |-> ring, slot |-> s]
  BY <1>1
<1>3. f \notin Held
  BY <1>2 DEF Free, Pinned
<1>4. f \in pending
  BY <1>3 DEF Busy
<1>5. lastSubmit[ring][s] = f /\ f > uploadDone[ring]
  BY <1>4 DEF SlotsOK, UploadsOK, Entry
<1>6. lastSubmit[ring][s] <= uploadDone[ring]
  BY DEF Free
<1>7. uploadDone[ring] \in Nat /\ f \in Nat
  BY <1>1 DEF TypeOK
<1> QED BY <1>5, <1>6, <1>7

\* Nobody takes hold of a frame, and a slot that is being filled is given up or
\* goes on being filled.
LEMMA ReleaseStep ==
    ASSUME Settings, TypeOK, SlotsOK, UploadsOK,
           UNCHANGED <<frames, staging, image, lastSubmit, pending, uploadDone, failed>>,
           Held' \subseteq Held,
           UNCHANGED <<ring, filling>> \/ (filling' = NoSlot /\ ring' \in Nat /\ ring' >= ring)
    PROVE  SlotsOK' /\ UploadsOK'
<1>1. /\ NoSlot \notin AllSlots /\ ring \in Nat /\ Busy \subseteq 1 .. Published
      /\ \A f \in 1 .. Published : frames[f].ring \in Rings /\ frames[f].slot \in AllSlots
  BY SlotFacts
<1>2. Busy' \subseteq Busy /\ Published' = Published /\ NoSlot' = NoSlot /\ Rings' = Rings
      /\ AllSlots' = AllSlots
  BY DEF Busy, Published, NoSlot, AllSlots, Rings
<1>3. \A f \in 1 .. Published : frames[f].ring \in Nat
  BY <1>1 DEF Rings
<1>4. SlotsOK'
  <2>1. \A f \in 1 .. Published : frames[f].ring <= ring' /\ f <= Entry(lastSubmit, frames[f])
    BY <1>1, <1>3 DEF SlotsOK
  <2>2. filling' # NoSlot => staging[ring'][filling'] = Published + 1
    BY DEF SlotsOK
  <2>3. \A f \in Busy' : Entry(lastSubmit, frames[f]) = f
    BY <1>2 DEF SlotsOK
  <2>4. \A f \in Busy' : frames[f].ring = ring' => frames[f].slot # filling'
    BY <1>1, <1>2 DEF SlotsOK
  <2> QED BY <1>2, <2>1, <2>2, <2>3, <2>4 DEF SlotsOK, Entry
<1>5. UploadsOK'
  BY <1>2 DEF UploadsOK, Entry
<1> QED BY <1>4, <1>5

\* A frame is copied into the staging buffer of a free slot: no upload in flight
\* reads from it.
LEMMA ReceiveStep ==
    ASSUME Settings, TypeOK, SlotsOK, UploadsOK, Receive
    PROVE  SlotsOK' /\ UploadsOK'
<1> DEFINE a == Acquired
           n == Published + 1
<1>1. a \in Slots /\ Free(a)
  BY AcquiredIs DEF Receive
<1>2. \A f \in Busy : ~(frames[f].ring = ring /\ frames[f].slot = a)
  BY <1>1, FreeIsIdle
<1>3. /\ filling' = a /\ staging' = Put(staging, ring, a, n)
      /\ UNCHANGED <<ring, frames, lastSubmit, failed, image, pending, uploadDone,
                     mailbox, feed, queue, cur, retention>>
  BY DEF Receive, uploadVars, airVars, renderVars, Put
<1> HIDE DEF a, n
<1>4. /\ ring \in Rings /\ a \in AllSlots /\ Published \in Nat /\ n \in Nat /\ Busy \subseteq 1 .. Published
      /\ \A f \in 1 .. Published : frames[f].ring \in Rings /\ frames[f].slot \in AllSlots
  BY <1>1, SlotFacts DEF n
<1>5. /\ Busy' = Busy /\ Held' = Held /\ Published' = Published
      /\ Rings' = Rings /\ AllSlots' = AllSlots
  BY <1>3 DEF Busy, Held, Published, Rings, AllSlots, NoSlot
<1>6. /\ staging'[ring][a] = n
      /\ \A r \in Rings, s \in AllSlots : r # ring \/ s # a => staging'[r][s] = staging[r][s]
  <2>1. staging \in [Rings -> [AllSlots -> Nat]]
    BY <1>4 DEF TypeOK
  <2>2. staging' = Put(staging, ring, a, n) /\ ring \in Rings /\ a \in AllSlots /\ n \in Nat
    BY <1>3, <1>4
  <2> QED BY <2>1, <2>2, PutIs
<1>7. \A f \in Busy : Entry(staging', frames[f]) = Entry(staging, frames[f])
  BY <1>2, <1>4, <1>6 DEF Entry
<1>8. SlotsOK'
  BY <1>2, <1>3, <1>5, <1>6 DEF SlotsOK, Entry, n
<1>9. \A f \in pending : Entry(staging', frames'[f]) = f
  BY <1>3, <1>7 DEF UploadsOK, Busy, Entry
<1>10. UploadsOK'
  BY <1>3, <1>5, <1>9 DEF UploadsOK, Entry
<1> QED BY <1>8, <1>10

\* The upload is submitted and the frame published: nothing else is in its slot.
LEMMA PublishStep ==
    ASSUME Settings, TypeOK, SlotsOK, UploadsOK, Publish, NEW f, f = Published + 1
    PROVE  SlotsOK' /\ UploadsOK' /\ Held' \subseteq Held \cup {f}
<1>1. /\ filling # NoSlot /\ frames' = Append(frames, [ring |-> ring, slot |-> filling])
      /\ lastSubmit' = Put(lastSubmit, ring, filling, f)
      /\ \/ pending' = pending \cup {f} /\ failed' = failed
         \/ failed' = failed \cup {f} /\ pending' = pending
      /\ filling' = NoSlot
      /\ mailbox' = Retained(<<f>> \o mailbox)
      /\ feed' = feed \/ feed' = Append(feed, f)
      /\ UNCHANGED <<ring, staging, image, uploadDone, queue, cur, retention>>
  BY DEF Publish, airVars, renderVars, Put
<1>2. /\ ring \in Rings /\ ring \in Nat /\ filling \in AllSlots /\ Published \in Nat
      /\ Busy \subseteq 1 .. Published /\ Held \subseteq 1 .. Published /\ NoSlot \notin AllSlots
      /\ \A g \in 1 .. Published : frames[g].ring \in Rings /\ frames[g].slot \in AllSlots
  BY <1>1, SlotFacts
<1>3. /\ pending \subseteq 1 .. Published /\ failed \subseteq 1 .. Published
      /\ \A r \in Rings : uploadDone[r] \in 0 .. Published
      /\ \A r \in Rings, s \in AllSlots : lastSubmit[r][s] \in 0 .. Published
      /\ \A r \in Rings, s \in AllSlots : image[r][s] \in Nat
  BY DEF TypeOK
<1>4. /\ Published' = Published + 1 /\ NoSlot' = NoSlot /\ Rings' = Rings /\ AllSlots' = AllSlots
      /\ frames'[f] = [ring |-> ring, slot |-> filling]
      /\ \A g \in 1 .. Published : frames'[g] = frames[g]
  <2>1. frames \in Seq([ring : Rings, slot : AllSlots]) /\ Published = Len(frames)
    BY DEF TypeOK, Published
  <2> QED BY <1>1, <1>2, <2>1 DEF Published, NoSlot, Rings, AllSlots
<1>0. f \in Nat /\ f > Published
  BY <1>2
<1>5. Held' \subseteq Held \cup {f}
  <2>1. Range(mailbox') \subseteq Range(mailbox) \cup {f}
    <3>1. mailbox \in Seq(Nat)
      BY <1>2 DEF TypeOK
    <3> QED BY <1>0, <1>1, <3>1, RetainedIs
  <2>2. Range(feed') \subseteq Range(feed) \cup {f}
    <3>1. feed \in Seq(Nat)
      BY <1>2 DEF TypeOK
    <3> QED BY <1>0, <1>1, <3>1, RangeAppend
  <2>3. Range(retention') = Range(retention) /\ queue' = queue /\ cur' = cur
    BY <1>1
  <2> QED BY <2>1, <2>2, <2>3 DEF Held
<1>6. Busy' \subseteq Busy \cup {f}
  BY <1>1, <1>5 DEF Busy
<1>7. /\ lastSubmit'[ring][filling] = f
      /\ \A r \in Rings, s \in AllSlots :
            r # ring \/ s # filling => lastSubmit'[r][s] = lastSubmit[r][s]
  <2>1. lastSubmit \in [Rings -> [AllSlots -> Nat]]
    BY <1>2 DEF TypeOK
  <2> QED BY <1>0, <1>1, <1>2, <2>1, PutIs
<1>8. \A g \in Busy : ~(frames[g].ring = ring /\ frames[g].slot = filling)
  BY DEF SlotsOK
<1>9. SlotsOK'
  <2>1. \A g \in 1 .. Published : frames[g].ring <= ring /\ g <= Entry(lastSubmit, frames[g])
    BY DEF SlotsOK
  <2>2. \A g \in 1 .. Published : g <= Entry(lastSubmit', frames'[g])
    <3> SUFFICES ASSUME NEW g \in 1 .. Published PROVE g <= Entry(lastSubmit', frames'[g])
      OBVIOUS
    <3>1. frames'[g] = frames[g] /\ g <= f /\ g <= Entry(lastSubmit, frames[g])
          /\ frames[g].ring \in Rings /\ frames[g].slot \in AllSlots
      BY <1>0, <1>2, <1>4, <2>1
    <3> QED BY <1>7, <3>1 DEF Entry
  <2>3. Entry(lastSubmit', frames'[f]) = f
    BY <1>4, <1>7 DEF Entry
  <2>4. \A g \in Busy : Entry(lastSubmit', frames'[g]) = g
    <3>1. \A g \in Busy : Entry(lastSubmit, frames[g]) = g
      BY DEF SlotsOK
    <3> SUFFICES ASSUME NEW g \in Busy PROVE Entry(lastSubmit', frames'[g]) = g
      OBVIOUS
    <3>2. /\ frames'[g] = frames[g]
          /\ frames[g].ring \in Rings /\ frames[g].slot \in AllSlots
      BY <1>2, <1>4
    <3>3. frames[g].ring # ring \/ frames[g].slot # filling
      BY <1>8
    <3>4. lastSubmit'[frames[g].ring][frames[g].slot] = lastSubmit[frames[g].ring][frames[g].slot]
      BY <1>7, <3>2, <3>3
    <3> QED BY <3>1, <3>2, <3>4 DEF Entry
  <2>0. \A g \in 1 .. f : g = f \/ g \in 1 .. Published
    BY <1>2
  <2>5. \A g \in 1 .. f : frames'[g].ring <= ring' /\ frames'[g].slot # NoSlot
    <3>1. frames'[f].ring = ring /\ frames'[f].slot = filling
      BY <1>4
    <3>2. ring <= ring' /\ filling # NoSlot
      BY <1>1, <1>2
    <3>3. ASSUME NEW g \in 1 .. Published
          PROVE  frames'[g].ring <= ring' /\ frames'[g].slot # NoSlot
      <4>1. frames'[g] = frames[g] /\ ring' = ring
        BY <1>1, <1>4
      <4>2. frames[g].slot # NoSlot /\ frames[g].ring <= ring
        BY <1>2, <2>1
      <4> QED BY <4>1, <4>2
    <3> QED BY <1>1, <2>0, <3>1, <3>2, <3>3
  <2>6. \A g \in 1 .. f : g <= Entry(lastSubmit', frames'[g])
    BY <1>0, <2>0, <2>2, <2>3
  <2>7. Busy' \subseteq 1 .. f
    BY <1>0, <1>2, <1>6
  <2> QED BY <1>1, <1>4, <1>6, <2>3, <2>4, <2>5, <2>6, <2>7 DEF SlotsOK
<1>10. UploadsOK'
  <2>0. f \notin pending /\ f \notin failed /\ f \notin 1 .. Published
    BY <1>0, <1>2, <1>3
  <2>1. pending' \cap failed' = {}
    BY <1>1, <2>0 DEF UploadsOK
  <2>2. \A g \in pending : Entry(staging', frames'[g]) = g /\ g > uploadDone'[frames'[g].ring]
    BY <1>1, <1>3, <1>4 DEF UploadsOK, Entry
  <2>3. Entry(staging', frames'[f]) = f /\ f > uploadDone'[frames'[f].ring]
    <3>0. frames'[f].ring = ring /\ frames'[f].slot = filling
      BY <1>4
    <3>1. Entry(staging', frames'[f]) = staging[ring][filling] /\ frames'[f].ring = ring
      BY <1>1, <3>0 DEF Entry
    <3>2. staging[ring][filling] = f
      BY <1>1 DEF SlotsOK
    <3>3. uploadDone'[ring] \in 0 .. Published
      BY <1>1, <1>2, <1>3
    <3> QED BY <1>0, <1>2, <3>1, <3>2, <3>3
  <2>4. \A r \in Rings, s \in AllSlots : image'[r][s] <= lastSubmit'[r][s]
    BY <1>0, <1>1, <1>2, <1>3, <1>7, SMTT(30) DEF UploadsOK
  <2>5. \A r \in Rings, s \in AllSlots : image'[r][s] \notin failed'
    BY <1>0, <1>1, <1>2, <1>3 DEF UploadsOK
  <2>6. \A g \in Held' : g \in pending' \/ g \in failed' \/ Entry(image', frames'[g]) = g
    <3> SUFFICES ASSUME NEW g \in Held'
                 PROVE  g \in pending' \/ g \in failed' \/ Entry(image', frames'[g]) = g
      OBVIOUS
    <3>1. /\ pending \subseteq pending' /\ failed \subseteq failed' /\ image' = image
          /\ f \in pending' \/ f \in failed'
      BY <1>1
    <3>2. CASE g = f
      BY <3>1, <3>2
    <3>3. CASE g \in Held
      <4>1. frames'[g] = frames[g]
        BY <1>2, <1>4, <3>3
      <4>2. g \in pending \/ g \in failed \/ Entry(image, frames[g]) = g
        BY <3>3 DEF UploadsOK
      <4> QED BY <3>1, <4>1, <4>2 DEF Entry
    <3> QED BY <1>5, <3>2, <3>3
  <2> QED BY <1>1, <1>4, <2>1, <2>2, <2>3, <2>4, <2>5, <2>6 DEF UploadsOK
<1> QED BY <1>5, <1>9, <1>10

\* An upload reaches its image: only the frame that was submitted last can be held
\* there.
LEMMA UploadStep ==
    ASSUME Settings, TypeOK, SlotsOK, UploadsOK, NEW f \in pending, UploadFinishes(f)
    PROVE  SlotsOK' /\ UploadsOK'
<1> DEFINE r == frames[f].ring
           s == frames[f].slot
<1>1. /\ \A g \in pending : frames[g].ring = r => f <= g
      /\ pending' = pending \ {f}
      /\ uploadDone' = [uploadDone EXCEPT ![r] = f]
      /\ image' = Put(image, r, s, staging[r][s])
      /\ UNCHANGED <<ring, filling, frames, staging, lastSubmit, failed,
                     mailbox, feed, queue, cur, retention>>
  BY DEF UploadFinishes, inputVars, airVars, renderVars, Put
<1>2. /\ Published \in Nat /\ f \in 1 .. Published /\ r \in Rings /\ s \in AllSlots
      /\ Busy \subseteq 1 .. Published /\ Held \subseteq 1 .. Published
      /\ \A g \in 1 .. Published : frames[g].ring \in Rings /\ frames[g].slot \in AllSlots
  BY SlotFacts DEF Busy
<1>3. staging[r][s] = f /\ lastSubmit[r][s] = f /\ f \notin failed
  BY DEF UploadsOK, SlotsOK, Busy, Entry
<1>4. /\ Held' = Held /\ Busy' \subseteq Busy /\ Published' = Published /\ NoSlot' = NoSlot
      /\ Rings' = Rings /\ AllSlots' = AllSlots
  BY <1>1 DEF Busy, Held, Published, Rings, AllSlots, NoSlot
<1>5. \A g \in Held : frames[g].ring = r /\ frames[g].slot = s => g = f
  BY <1>3 DEF SlotsOK, Busy, Entry
<1> HIDE DEF r, s
<1>6. /\ image'[r][s] = f
      /\ \A r2 \in Rings, s2 \in AllSlots : r2 # r \/ s2 # s => image'[r2][s2] = image[r2][s2]
  <2>1. image \in [Rings -> [AllSlots -> Nat]] /\ f \in Nat
    BY <1>2 DEF TypeOK
  <2> QED BY <1>1, <1>2, <1>3, <2>1, PutIs
<1>7. \A r2 \in Rings : uploadDone'[r2] = IF r2 = r THEN f ELSE uploadDone[r2]
  BY <1>1 DEF TypeOK
<1>8. SlotsOK'
  BY <1>1, <1>4 DEF SlotsOK, Entry
<1>9. UploadsOK'
  <2>1. pending' \cap failed' = {}
    BY <1>1 DEF UploadsOK
  <2>2. \A g \in pending' : Entry(staging', frames'[g]) = g /\ g > uploadDone'[frames'[g].ring]
    <3> SUFFICES ASSUME NEW g \in pending, g # f
                 PROVE  Entry(staging, frames[g]) = g /\ g > uploadDone'[frames[g].ring]
      BY <1>1 DEF Entry
    <3>1. g \in 1 .. Published /\ frames[g].ring \in Rings
      BY <1>2 DEF Busy
    <3> QED BY <1>1, <1>2, <1>7, <3>1 DEF UploadsOK
  <2>3. \A r2 \in Rings, s2 \in AllSlots :
           image'[r2][s2] <= lastSubmit'[r2][s2] /\ image'[r2][s2] \notin failed'
    <3> SUFFICES ASSUME NEW r2 \in Rings, NEW s2 \in AllSlots
                 PROVE  image'[r2][s2] <= lastSubmit[r2][s2] /\ image'[r2][s2] \notin failed
      BY <1>1
    <3>1. CASE r2 = r /\ s2 = s
      BY <1>2, <1>3, <1>6, <3>1 DEF r, s
    <3>2. CASE r2 # r \/ s2 # s
      BY <1>6, <3>2 DEF UploadsOK
    <3> QED BY <3>1, <3>2
  <2>4. \A g \in Held : g \in pending' \/ g \in failed \/ Entry(image', frames[g]) = g
    <3> SUFFICES ASSUME NEW g \in Held PROVE g \in pending' \/ g \in failed \/ Entry(image', frames[g]) = g
      OBVIOUS
    <3>1. CASE g = f
      BY <1>6, <3>1 DEF Entry, r, s
    <3>2. CASE g # f
      <4>1. frames[g].ring # r \/ frames[g].slot # s
        BY <1>5, <3>2 DEF r, s
      <4>2. Entry(image', frames[g]) = Entry(image, frames[g])
        BY <1>2, <1>6, <4>1 DEF Entry
      <4> QED BY <1>1, <3>2, <4>2 DEF UploadsOK
    <3> QED BY <3>1, <3>2
  <2> QED BY <1>1, <1>4, <2>1, <2>2, <2>3, <2>4 DEF UploadsOK, Entry
<1> QED BY <1>8, <1>9

------------------------------------------------------------------------------
(* What each action does to the frames that are held *)

\* Two ticks of one window that keep their frames in the same place are the same.
LEMMA FifWindow ==
    ASSUME Settings, NEW n \in Nat, NEW v \in n + 1 .. n + FramesInFlight,
           NEW w \in n + 1 .. n + FramesInFlight, Fif(v) = Fif(w)
    PROVE  v = w
<1> DEFINE F == FramesInFlight
           a == v \div F
           b == w \div F
<1>0. FramesInFlight \in Nat \ {0}
  BY DEF Settings, HoldersAssumption
<1>1. F \in Nat /\ F > 0 /\ v \in Nat /\ w \in Nat /\ a \in Int /\ b \in Int
  BY <1>0
<1>2. v % F = v - F * a /\ w % F = w - F * b
  BY <1>1
<1>3. v - w = F * (a - b) /\ v - w < F /\ w - v < F
  BY <1>1, <1>2 DEF Fif
<1> HIDE DEF F, a, b
<1>4. CASE a - b >= 1
  <2>1. F * (a - b) >= F
    BY <1>1, <1>4
  <2> QED BY <1>3, <2>1, <1>1
<1>5. CASE a - b <= -1
  <2>1. F * (a - b) <= -F
    BY <1>1, <1>5
  <2> QED BY <1>3, <2>1, <1>1
<1>6. CASE a = b
  BY <1>1, <1>3, <1>6
<1> QED BY <1>1, <1>4, <1>5, <1>6

\* What the picture is chosen from: nothing is on air that was not published, held
\* and uploaded, and it goes forward.
LEMMA PickIs ==
    ASSUME Settings, TypeOK, AirOK, Take \/ Present
    PROVE  /\ cur' \in 0 .. Published /\ seen' \in 0 .. Published
           /\ feed' = feed \/ feed' = << >>
           /\ queue' \subseteq queue \cup Range(feed) /\ Cardinality(queue') <= QueueCap
           /\ cur' \in {cur, 0} \/ (cur' \in Held /\ Uploaded(cur'))
           /\ sync => seen' = 0 /\ (\A f \in queue' : f > cur')
           /\ feed' # << >> => ~sync
           /\ ~sync => cur' \in {0, seen'}
           /\ cur' # 0 => cur' >= cur /\ cur' >= seen
<1>0. /\ Published \in Nat /\ Held \subseteq 1 .. Published
      /\ cur \in 0 .. Published /\ seen \in 0 .. Published /\ sync \in BOOLEAN
      /\ queue \subseteq 1 .. Published /\ Cardinality(queue) <= QueueCap
      /\ Range(mailbox) \subseteq 1 .. Published /\ Range(feed) \subseteq 1 .. Published
  BY SlotFacts, RangeIs DEF TypeOK
<1>3. \A f \in 1 .. Published : f \in 0 .. Published /\ f # 0
  OBVIOUS
<1> HIDE DEF Published
<1>1. CASE Take
  <2> DEFINE ready == {f \in Newer : Uploaded(f)}
  <2>1. /\ ~sync /\ feed' = feed /\ queue' = queue
        /\ \/ ready # {} /\ cur' = Newest(ready) /\ seen' = cur'
           \/ ready = {} /\ cur' \in {cur, 0} /\ seen' = seen
    BY <1>1 DEF Take
  <2>2. cur \in {0, seen}
    BY <2>1 DEF AirOK
  <2>3. CASE ready # {}
    <3>1. \A f \in ready : f \in Range(mailbox) /\ f > seen /\ Uploaded(f)
      BY DEF Newer
    <3>2. Newest(ready) \in ready
      <4>1. ready \subseteq 0 .. Published
        BY <1>0, <3>1
      <4> HIDE DEF ready
      <4> QED BY <1>0, <2>3, <4>1, NewestIs
    <3>3. cur' \in Range(mailbox) /\ cur' > seen /\ Uploaded(cur')
      BY <2>1, <2>3, <3>1, <3>2
    <3>4. cur' \in 1 .. Published /\ cur' \in Held
      BY <1>0, <3>3 DEF Held
    <3> HIDE DEF ready
    <3> QED BY <1>0, <2>1, <2>2, <2>3, <3>3, <3>4
  <2>4. CASE ready = {}
    <3> HIDE DEF ready
    <3> QED BY <1>0, <2>1, <2>2, <2>4
  <2> QED BY <2>3, <2>4
<1>2. CASE Present
  <2>1. sync /\ feed' = << >> /\ seen' = seen
    BY <1>2 DEF Present
  <2>2. seen = 0 /\ \A f \in queue \cup Range(feed) : f > cur
    BY <2>1 DEF AirOK
  <2>3. PICK q \in Drained : \/ \E f \in q : Uploaded(f) /\ cur' = f /\ queue' = {g \in q : g > f}
                             \/ cur' \in {cur, 0} /\ queue' = q
    BY <1>2 DEF Present
  <2>4. q \subseteq queue \cup Range(feed) /\ Cardinality(q) <= QueueCap
    <3>1. CASE feed = << >>
      BY <1>0, <2>3, <3>1 DEF Drained
    <3>2. CASE feed # << >>
      <4> DEFINE S == queue \cup Range(feed)
      <4>1. PICK n \in 1 .. QueueCap : q = Latest(S, n)
        BY <2>3, <3>2 DEF Drained
      <4>2. n \in Nat /\ n <= QueueCap /\ QueueCap \in Nat
        BY <4>1 DEF Settings, HoldersAssumption
      <4>3. S \subseteq 0 .. Published
        <5>1. \A f \in S : f \in 1 .. Published
          BY <1>0
        <5> QED BY <1>3, <5>1
      <4> HIDE DEF S
      <4>4. Latest(S, n) \subseteq S /\ Cardinality(Latest(S, n)) <= n
        BY <1>0, <4>2, <4>3, LatestSize
      <4>5. IsFiniteSet(q) /\ Cardinality(q) \in Nat
        <5>1. IsFiniteSet(0 .. Published)
          BY <1>0, FS_Interval
        <5> QED BY <4>1, <4>3, <4>4, <5>1, FS_Subset, FS_CardinalityType
      <4>6. Cardinality(q) <= QueueCap
        BY <4>1, <4>2, <4>4, <4>5
      <4> QED BY <4>1, <4>4, <4>6 DEF S
    <3> QED BY <3>1, <3>2
  <2>5. q \subseteq 1 .. Published /\ q \subseteq Held /\ \A f \in q : f > cur
    <3>1. \A f \in q : f \in queue \/ f \in Range(feed)
      BY <2>4
    <3>2. \A f \in q : f \in 1 .. Published /\ f # 0
      BY <1>0, <1>3, <3>1, Zenon
    <3> QED BY <2>2, <3>1, <3>2 DEF Held
  <2>6. IsFiniteSet(q) /\ Cardinality(q) \in Nat
    <3>1. IsFiniteSet(1 .. Published)
      BY <1>0, FS_Interval
    <3> QED BY <2>5, <3>1, FS_Subset, FS_CardinalityType
  <2>7. CASE \E f \in q : Uploaded(f) /\ cur' = f /\ queue' = {g \in q : g > f}
    <3>1. PICK f \in q : Uploaded(f) /\ cur' = f /\ queue' = {g \in q : g > f}
      BY <2>7
    <3>2. queue' \subseteq q /\ \A g \in queue' : g > cur'
      BY <3>1
    <3>3. Cardinality(queue') <= QueueCap
      <4>1. Cardinality(queue') <= Cardinality(q) /\ Cardinality(queue') \in Nat
        BY <2>6, <3>2, FS_Subset, FS_CardinalityType
      <4>2. QueueCap \in Nat
        BY DEF Settings, HoldersAssumption
      <4> QED BY <2>4, <2>6, <4>1, <4>2
    <3>4. cur' \in 1 .. Published /\ cur' > cur /\ cur' \in Held /\ Uploaded(cur')
      BY <2>5, <3>1
    <3>5. cur' >= seen /\ cur' >= cur /\ seen' = 0
      BY <1>0, <2>1, <2>2, <3>4
    <3> QED BY <1>0, <2>1, <2>4, <3>2, <3>3, <3>4, <3>5
  <2>8. CASE cur' \in {cur, 0} /\ queue' = q
    <3>1. \A f \in queue' : f > cur'
      BY <1>0, <2>5, <2>8
    <3>2. cur' \in 0 .. Published /\ (cur' # 0 => cur' >= cur /\ cur' >= seen)
      BY <1>0, <2>2, <2>8
    <3> QED BY <1>0, <2>1, <2>2, <2>4, <2>8, <3>1, <3>2
  <2> QED BY <2>3, <2>7, <2>8
<1> QED BY <1>1, <1>2

\* Nothing of the frame on air changes, and no upload is added.
LEMMA AirQuiet ==
    ASSUME AirOK, UNCHANGED <<sync, seen, queue, feed, cur, retention>>, pending' \subseteq pending
    PROVE  AirOK'
<1>1. Shown' = Shown
  BY DEF Shown
<1> QED BY <1>1 DEF AirOK

\* Nothing of the ticks in flight changes.
LEMMA RenderQuiet ==
    ASSUME RenderOK, UNCHANGED <<value, gpu, inFlight, retention>>
    PROVE  RenderOK'
BY DEF RenderOK, Fif

\* The receive thread's steps and those of the upload engine.
LEMMA ReceiveSide ==
    ASSUME Settings, PinInv, Receive \/ CopyFails \/ NewFormat \/ \E f \in pending : UploadFinishes(f)
    PROVE  PinInv'
<1>1. TypeOK /\ SlotsOK /\ UploadsOK /\ AirOK /\ RenderOK
  BY DEF PinInv
<1>2. /\ Slots \subseteq AllSlots /\ NumSlots \in Nat \ {0} /\ ring \in Rings /\ ring \in Nat
      /\ Published \in Nat /\ NoSlot \in Nat
      /\ \A f \in 1 .. Published : frames[f].ring \in Rings /\ frames[f].slot \in AllSlots
  BY <1>1, SlotFacts
<1>3. UNCHANGED <<frames, sync>> => Slots' = Slots /\ Published' = Published
  BY DEF Slots, NumSlots, Published
<1>4. CASE Receive
  <2> DEFINE a == Acquired
             n == Published + 1
  <2>1. a \in Slots
    BY <1>1, <1>4, AcquiredIs DEF Receive
  <2>2. /\ filling' = a /\ cursor' = (a + 1) % NumSlots
        /\ staging' = Put(staging, ring, a, n)
        /\ UNCHANGED <<sync, ring, frames, lastSubmit, failed, lost, uploadVars, mailbox, feed,
                       airVars, renderVars, gpu>>
    BY <1>4 DEF Receive, Put
  <2>3. cursor' \in Slots
    <3>1. a + 1 \in Nat
      BY <2>1 DEF Slots
    <3> HIDE DEF NumSlots, a
    <3> QED BY <1>2, <2>2, <3>1 DEF Slots
  <2>4. staging' \in [Rings -> [AllSlots -> Nat]]
    <3>1. staging \in [Rings -> [AllSlots -> Nat]]
      BY <1>1 DEF TypeOK
    <3>2. a \in AllSlots /\ n \in Nat
      BY <1>2, <2>1
    <3> HIDE DEF a, n
    <3> QED BY <1>2, <2>2, <3>1, <3>2, PutIs
  <2> HIDE DEF a, n
  <2>5. TypeOK'
    BY <1>1, <1>3, <2>1, <2>2, <2>3, <2>4 DEF TypeOK, uploadVars, airVars, renderVars
  <2>6. AirOK' /\ RenderOK'
    BY <1>1, <2>2, AirQuiet, RenderQuiet DEF uploadVars, airVars, renderVars
  <2> QED BY <1>1, <1>4, <2>5, <2>6, ReceiveStep DEF PinInv
<1>5. CASE CopyFails
  <2>1. /\ filling' = NoSlot /\ lost' = lost + 1
        /\ UNCHANGED <<sync, ring, cursor, frames, staging, lastSubmit, failed, uploadVars,
                       mailbox, feed, airVars, renderVars, gpu>>
    BY <1>5 DEF CopyFails
  <2>2. TypeOK'
    BY <1>1, <1>3, <2>1 DEF TypeOK, uploadVars, airVars, renderVars
  <2>3. AirOK' /\ RenderOK'
    BY <1>1, <2>1, AirQuiet, RenderQuiet DEF uploadVars, airVars, renderVars
  <2>4. Held' = Held /\ ring' \in Nat /\ ring' >= ring
    BY <1>2, <2>1 DEF Held, uploadVars, airVars, renderVars
  <2>5. SlotsOK' /\ UploadsOK'
    BY <1>1, <2>1, <2>4, ReleaseStep DEF uploadVars
  <2> QED BY <2>2, <2>3, <2>5 DEF PinInv
<1>6. CASE NewFormat
  <2>1. /\ filling = NoSlot /\ ring < MaxRings /\ ring' = ring + 1 /\ cursor' = 0
        /\ UNCHANGED <<sync, filling, frames, staging, lastSubmit, failed, lost, uploadVars,
                       mailbox, feed, airVars, renderVars, gpu>>
    BY <1>6 DEF NewFormat
  <2>2. ring' \in Rings /\ cursor' \in Slots /\ ring' \in Nat /\ ring' >= ring
    <3>1. MaxRings \in Nat
      BY DEF Settings, BoundsAssumption
    <3> HIDE DEF NumSlots
    <3> QED BY <1>2, <2>1, <3>1 DEF Rings, Slots
  <2>3. TypeOK'
    BY <1>1, <1>3, <2>1, <2>2 DEF TypeOK, uploadVars, airVars, renderVars
  <2>4. AirOK' /\ RenderOK'
    BY <1>1, <2>1, AirQuiet, RenderQuiet DEF uploadVars, airVars, renderVars
  <2>5. Held' = Held
    BY <2>1 DEF Held, uploadVars, airVars, renderVars
  <2>6. SlotsOK' /\ UploadsOK'
    BY <1>1, <2>1, <2>2, <2>5, ReleaseStep DEF uploadVars
  <2> QED BY <2>3, <2>4, <2>6 DEF PinInv
<1>7. ASSUME NEW f \in pending, UploadFinishes(f) PROVE PinInv'
  <2> DEFINE r == frames[f].ring
             s == frames[f].slot
             v == staging[r][s]
  <2>1. /\ pending' = pending \ {f} /\ uploadDone' = [uploadDone EXCEPT ![r] = f]
        /\ image' = Put(image, r, s, v)
        /\ UNCHANGED <<sync, inputVars, mailbox, feed, airVars, renderVars, gpu>>
    BY <1>7 DEF UploadFinishes, Put
  <2>2. f \in 1 .. Published /\ f \in 0 .. Published /\ r \in Rings /\ s \in AllSlots
    <3>1. f \in 1 .. Published
      BY <1>1 DEF TypeOK
    <3>2. f \in 0 .. Published
      BY <1>2, <3>1
    <3> QED BY <1>2, <3>1, <3>2
  <2>3. v \in Nat
    BY <1>1, <2>2 DEF TypeOK
  <2> HIDE DEF r, s, v
  <2>4. image' \in [Rings -> [AllSlots -> Nat]]
    <3>1. image \in [Rings -> [AllSlots -> Nat]]
      BY <1>1 DEF TypeOK
    <3> QED BY <2>1, <2>2, <2>3, <3>1, PutIs
  <2>5. uploadDone' \in [Rings -> 0 .. Published]
    BY <1>1, <2>1, <2>2 DEF TypeOK
  <2>6. TypeOK'
    BY <1>1, <1>3, <2>1, <2>4, <2>5 DEF TypeOK, inputVars, airVars, renderVars
  <2>7. AirOK' /\ RenderOK'
    BY <1>1, <2>1, AirQuiet, RenderQuiet DEF inputVars, airVars, renderVars
  <2> QED BY <1>1, <1>7, <2>6, <2>7, UploadStep DEF PinInv
<1> QED BY <1>4, <1>5, <1>6, <1>7

\* A frame is published: it is newer than what is on air.
LEMMA PublishKeeps ==
    ASSUME Settings, PinInv, Publish
    PROVE  PinInv'
<1>1. TypeOK /\ SlotsOK /\ UploadsOK /\ AirOK /\ RenderOK
  BY DEF PinInv
<1>2. /\ ring \in Rings /\ filling \in AllSlots \cup {NoSlot} /\ NumSlots \in Nat \ {0}
      /\ Published \in Nat /\ Held \subseteq 1 .. Published
  BY <1>1, SlotFacts
<1>3. PICK f \in Nat : f = Published + 1
  BY <1>2
<1>4. /\ filling # NoSlot /\ frames' = Append(frames, [ring |-> ring, slot |-> filling])
      /\ lastSubmit' = Put(lastSubmit, ring, filling, f)
      /\ \/ pending' = pending \cup {f} /\ failed' = failed
         \/ failed' = failed \cup {f} /\ pending' = pending
      /\ filling' = NoSlot
      /\ mailbox' = Retained(<<f>> \o mailbox)
      /\ feed' = feed \/ (Len(feed) < FeedCapacity /\ feed' = Append(feed, f))
      /\ UNCHANGED <<sync, ring, cursor, staging, lost, image, uploadDone, airVars, renderVars, gpu>>
  BY <1>3 DEF Publish, Put
<1>5. SlotsOK' /\ UploadsOK'
  BY <1>1, <1>3, PublishStep
<1>6. 1 .. Published \subseteq 1 .. f /\ 0 .. Published \subseteq 0 .. f /\ f \in 1 .. f
  BY <1>2, <1>3
<1>7. Published' = f /\ frames' \in Seq([ring : Rings, slot : AllSlots])
  <2> DEFINE X == [ring : Rings, slot : AllSlots]
             x == [ring |-> ring, slot |-> filling]
  <2>1. frames \in Seq(X) /\ x \in X
    BY <1>1, <1>2, <1>4 DEF TypeOK
  <2>2. frames' = Append(frames, x)
    BY <1>4
  <2> HIDE DEF X, x
  <2>3. frames' \in Seq(X) /\ Len(frames') = Len(frames) + 1
    BY <2>1, <2>2
  <2> QED BY <1>3, <2>3 DEF X, Published
<1>8. lastSubmit' \in [Rings -> [AllSlots -> 0 .. f]]
  <2>1. lastSubmit \in [Rings -> [AllSlots -> 0 .. f]] /\ f \in 0 .. f
    BY <1>1, <1>3, <1>6 DEF TypeOK
  <2> DEFINE X == 0 .. f
  <2> HIDE DEF X
  <2>2. lastSubmit \in [Rings -> [AllSlots -> X]] /\ f \in X
    BY <2>1 DEF X
  <2>3. lastSubmit' \in [Rings -> [AllSlots -> X]]
    BY <1>2, <1>4, <2>2 DEF Put
  <2> QED BY <2>3 DEF X
<1>9. pending' \subseteq 1 .. f /\ failed' \subseteq 1 .. f
  BY <1>1, <1>4, <1>6 DEF TypeOK
<1>10. mailbox' \in Seq(1 .. f) /\ Len(mailbox') <= Keep
  <2> DEFINE X == 1 .. f
  <2>1. mailbox \in Seq(X) /\ f \in X
    <3> DEFINE Y == 1 .. Published
    <3>1. mailbox \in Seq(Y) /\ Y \subseteq X
      BY <1>1, <1>6 DEF TypeOK
    <3> HIDE DEF X, Y
    <3>2. Len(mailbox) \in Nat /\ mailbox \in [1 .. Len(mailbox) -> Y]
      BY <3>1
    <3>3. mailbox \in [1 .. Len(mailbox) -> X]
      BY <3>1, <3>2
    <3>4. mailbox \in Seq(X)
      BY <3>2, <3>3
    <3> QED BY <1>6, <3>4 DEF X
  <2> HIDE DEF X
  <2>2. mailbox' \in Seq(X) /\ Len(mailbox') <= Keep
    BY <1>4, <2>1, RetainedIs
  <2> QED BY <2>2 DEF X
<1>11. feed' \in Seq(1 .. f) /\ Len(feed') <= FeedCapacity /\ Range(feed') \subseteq Range(feed) \cup {f}
  <2> DEFINE X == 1 .. f
  <2>0. FeedCapacity \in Nat /\ Len(feed) <= FeedCapacity
    BY <1>1 DEF TypeOK, Settings, HoldersAssumption
  <2>1. feed \in Seq(X) /\ f \in X
    <3> DEFINE Y == 1 .. Published
    <3>1. feed \in Seq(Y) /\ Y \subseteq X
      BY <1>1, <1>6 DEF TypeOK
    <3> HIDE DEF X, Y
    <3>2. Len(feed) \in Nat /\ feed \in [1 .. Len(feed) -> Y]
      BY <3>1
    <3>3. feed \in [1 .. Len(feed) -> X]
      BY <3>1, <3>2
    <3>4. feed \in Seq(X)
      BY <3>2, <3>3
    <3> QED BY <1>6, <3>4 DEF X
  <2> HIDE DEF X
  <2>2. feed' \in Seq(X) /\ Len(feed') <= FeedCapacity
    BY <1>4, <2>0, <2>1, SMTT(30)
  <2>3. Range(feed') \subseteq Range(feed) \cup {f}
    BY <1>4, <2>1, RangeAppend
  <2> QED BY <2>2, <2>3 DEF X
<1>12. TypeOK'
  <2>1. /\ uploadDone \in [Rings -> 0 .. f] /\ queue \subseteq 1 .. f /\ cur \in 0 .. f
        /\ seen \in 0 .. f /\ retention \in [Fifs -> 0 .. f]
        /\ inFlight \subseteq [val : Nat, frame : 0 .. f]
    <3> DEFINE X == 0 .. f
    <3>1. 0 .. Published \subseteq X
      BY <1>6
    <3>2. /\ uploadDone \in [Rings -> 0 .. Published] /\ queue \subseteq 1 .. Published
          /\ cur \in 0 .. Published /\ seen \in 0 .. Published
          /\ retention \in [Fifs -> 0 .. Published]
          /\ inFlight \subseteq [val : Nat, frame : 0 .. Published]
      BY <1>1 DEF TypeOK
    <3> HIDE DEF X, Published
    <3>3. /\ uploadDone \in [Rings -> X] /\ cur \in X /\ seen \in X
          /\ retention \in [Fifs -> X] /\ inFlight \subseteq [val : Nat, frame : X]
      BY <3>1, <3>2
    <3> QED BY <1>6, <3>2, <3>3 DEF X
  <2>2. Slots' = Slots /\ cursor \in Slots /\ sync \in BOOLEAN
    BY <1>1, <1>4 DEF Slots, NumSlots, TypeOK
  <2> QED BY <1>1, <1>2, <1>4, <1>7, <1>8, <1>9, <1>10, <1>11, <2>1, <2>2
          DEF TypeOK, airVars, renderVars
<1>13. AirOK'
  <2>1. Shown' = Shown /\ UNCHANGED <<sync, seen, cur, queue>>
    BY <1>4 DEF Shown, airVars, renderVars
  <2>2. f \notin Shown /\ f > cur
    <3>1. Shown \subseteq Held
      BY DEF Shown, Held
    <3>2. cur \in 0 .. Published
      BY <1>1 DEF TypeOK
    <3> QED BY <1>2, <1>3, <3>1, <3>2
  <2>3. Shown' \cap pending' = {}
    BY <1>1, <1>4, <2>1, <2>2 DEF AirOK
  <2>4. sync' => seen' = 0 /\ \A g \in queue' \cup Range(feed') : g > cur'
    BY <1>1, <1>11, <2>1, <2>2 DEF AirOK
  <2> QED BY <1>1, <2>1, <2>3, <2>4 DEF AirOK
<1>14. RenderOK'
  BY <1>1, <1>4, RenderQuiet DEF renderVars
<1> QED BY <1>5, <1>12, <1>13, <1>14 DEF PinInv

\* The source picker starts a ring of its own with nothing in it.
LEMMA ReplaceKeeps ==
    ASSUME Settings, PinInv, Replace
    PROVE  PinInv'
<1>1. TypeOK /\ SlotsOK /\ UploadsOK /\ AirOK /\ RenderOK
  BY DEF PinInv
<1>2. /\ ring \in Rings /\ ring \in Nat /\ Published \in Nat
  BY <1>1, SlotFacts
<1>3. /\ ring < MaxRings /\ sync' \in Modes /\ ring' = ring + 1 /\ cursor' = 0
      /\ filling' = NoSlot /\ mailbox' = << >> /\ feed' = << >>
      /\ queue' = {} /\ cur' = 0 /\ seen' = 0
      /\ UNCHANGED <<frames, staging, lastSubmit, failed, lost, uploadVars, renderVars, gpu>>
  BY DEF Replace
<1>4. Range(<< >>) = {}
  BY DEF Range
<1>5. sync' \in BOOLEAN /\ ring' \in Rings /\ ring' \in Nat /\ ring' >= ring
  BY <1>2, <1>3 DEF Settings, BoundsAssumption, Rings
<1>6. NumSlots' \in Nat \ {0}
  BY <1>3, <1>5 DEF Settings, SlotsAssumption, NumSlots
<1>7. 0 \in Slots'
  <2> DEFINE n == NumSlots'
  <2>1. Slots' = 0 .. n - 1
    BY DEF Slots
  <2>2. n \in Nat \ {0}
    BY <1>6
  <2> HIDE DEF n
  <2> QED BY <2>1, <2>2
<1>8. TypeOK'
  <2>1. Published' = Published /\ NoSlot' = NoSlot
    BY <1>3 DEF Published, NoSlot
  <2>2. /\ mailbox' \in Seq(1 .. Published) /\ Len(mailbox') <= Keep
        /\ feed' \in Seq(1 .. Published) /\ Len(feed') <= FeedCapacity
    BY <1>3 DEF Settings, HoldersAssumption
  <2>3. Cardinality(queue') <= QueueCap /\ queue' \subseteq 1 .. Published
    BY <1>3, FS_EmptySet DEF Settings, HoldersAssumption
  <2> QED BY <1>1, <1>2, <1>3, <1>5, <1>7, <2>1, <2>2, <2>3, SMTT(30) DEF TypeOK, uploadVars, renderVars
<1>9. Held' \subseteq Held /\ Shown' \subseteq Shown
  BY <1>3, <1>4 DEF Held, Shown, renderVars
<1>10. SlotsOK' /\ UploadsOK'
  BY <1>1, <1>3, <1>5, <1>9, ReleaseStep DEF uploadVars
<1>11. AirOK'
  BY <1>1, <1>3, <1>4, <1>9 DEF AirOK, uploadVars
<1>12. RenderOK'
  BY <1>1, <1>3, RenderQuiet DEF renderVars
<1> QED BY <1>8, <1>10, <1>11, <1>12 DEF PinInv

\* The render loop takes the frame of the tick.
LEMMA PickKeeps ==
    ASSUME Settings, PinInv, Pick
    PROVE  PinInv' /\ (cur' # 0 => cur' >= cur /\ cur' >= seen)
<1>1. TypeOK /\ SlotsOK /\ UploadsOK /\ AirOK /\ RenderOK
  BY DEF PinInv
<1>2. Published \in Nat /\ Held \subseteq 1 .. Published /\ Busy \subseteq 1 .. Published
      /\ Range(feed) \subseteq 1 .. Published /\ queue \subseteq 1 .. Published
      /\ \A f \in 1 .. Published : frames[f].ring \in Rings /\ frames[f].slot \in AllSlots
  BY <1>1, SlotFacts, RangeIs DEF TypeOK
<1>3. /\ Take \/ Present
      /\ rpc' = "submit"
      /\ UNCHANGED <<sync, inputVars, uploadVars, mailbox, value, inFlight, retention, gpu>>
  BY DEF Pick
<1>4. /\ cur' \in 0 .. Published /\ seen' \in 0 .. Published
      /\ feed' = feed \/ feed' = << >>
      /\ queue' \subseteq queue \cup Range(feed) /\ Cardinality(queue') <= QueueCap
      /\ cur' \in {cur, 0} \/ (cur' \in Held /\ Uploaded(cur'))
      /\ sync => seen' = 0 /\ (\A f \in queue' : f > cur')
      /\ feed' # << >> => ~sync
      /\ ~sync => cur' \in {0, seen'}
      /\ cur' # 0 => cur' >= cur /\ cur' >= seen
  BY <1>1, <1>3, PickIs
<1>5. Range(<< >>) = {}
  BY DEF Range
<1>6. TypeOK'
  <2>1. Published' = Published /\ Slots' = Slots /\ NoSlot' = NoSlot
    BY <1>3 DEF Published, Slots, NumSlots, NoSlot, inputVars
  <2>2. queue' \subseteq 1 .. Published
    BY <1>2, <1>4
  <2>3. feed' \in Seq(1 .. Published) /\ Len(feed') <= FeedCapacity
    <3> DEFINE X == 1 .. Published
    <3>1. feed \in Seq(X) /\ Len(feed) <= FeedCapacity /\ FeedCapacity \in Nat
      BY <1>1 DEF TypeOK, Settings, HoldersAssumption
    <3> HIDE DEF X
    <3>2. ASSUME feed' = feed PROVE feed' \in Seq(X) /\ Len(feed') <= FeedCapacity
      BY <3>1, <3>2
    <3>3. ASSUME feed' = << >> PROVE feed' \in Seq(X) /\ Len(feed') <= FeedCapacity
      <4>1. << >> \in Seq(X) /\ Len(<< >>) = 0
        OBVIOUS
      <4> QED BY <3>1, <3>3, <4>1
    <3>4. feed' \in Seq(X) /\ Len(feed') <= FeedCapacity
      BY <1>4, <3>2, <3>3
    <3> QED BY <3>4 DEF X
  <2> QED BY <1>1, <1>3, <1>4, <2>1, <2>2, <2>3 DEF TypeOK, inputVars, uploadVars
<1>7. Range(feed') \subseteq Range(feed)
  BY <1>4, <1>5
<1>8. Held' \subseteq Held
  <2> SUFFICES ASSUME NEW x \in Held' PROVE x \in Held
    OBVIOUS
  <2>1. x # 0 /\ (x \in Range(mailbox) \/ x \in Range(feed') \/ x \in queue' \/ x = cur'
                   \/ x \in Range(retention))
    BY <1>3 DEF Held
  <2>2. x \in Range(feed') \/ x \in queue' => x \in Range(feed) \/ x \in queue
    BY <1>4, <1>7
  <2>3. x = cur' => x \in Held
    BY <1>4, <2>1 DEF Held
  <2> QED BY <2>1, <2>2, <2>3 DEF Held
<1>9. SlotsOK' /\ UploadsOK'
  BY <1>1, <1>3, <1>8, ReleaseStep DEF inputVars, uploadVars
<1>10. AirOK'
  <2>1. cur' \in Shown \cup {0} \/ (cur' \in 1 .. Published /\ Uploaded(cur'))
    BY <1>2, <1>4 DEF Shown
  <2>2. cur' \notin pending \/ cur' = 0
    <3>1. CASE cur' \in Shown \cup {0}
      BY <1>1, <3>1 DEF AirOK
    <3>2. CASE cur' \in 1 .. Published /\ Uploaded(cur')
      <4>1. SUFFICES ASSUME cur' \in pending PROVE FALSE
        OBVIOUS
      <4>2. cur' > uploadDone[frames[cur'].ring] /\ uploadDone[frames[cur'].ring] >= cur'
        BY <1>1, <3>2, <4>1 DEF Uploaded, UploadsOK
      <4>3. uploadDone[frames[cur'].ring] \in 0 .. Published /\ cur' \in Nat
        BY <1>1, <1>2, <3>2 DEF TypeOK
      <4> QED BY <1>2, <4>2, <4>3
    <3> QED BY <2>1, <3>1, <3>2
  <2>3. Shown' \subseteq Shown \cup {cur'} /\ 0 \notin Shown'
    BY <1>3 DEF Shown
  <2>4. Shown' \cap pending' = {}
    BY <1>1, <1>3, <2>2, <2>3 DEF AirOK, uploadVars
  <2>5. sync' => seen' = 0 /\ \A f \in queue' \cup Range(feed') : f > cur'
    BY <1>3, <1>4, <1>5
  <2>6. ~sync' => cur' \in {0, seen'}
    BY <1>3, <1>4
  <2> QED BY <2>4, <2>5, <2>6 DEF AirOK
<1>11. RenderOK'
  BY <1>1, <1>3, RenderQuiet
<1> QED BY <1>4, <1>6, <1>9, <1>10, <1>11 DEF PinInv

\* A tick is submitted: the frame that was kept where its frame goes belonged to a
\* tick that is finished.
LEMMA SubmitKeeps ==
    ASSUME Settings, PinInv, Submit
    PROVE  PinInv'
<1>1. TypeOK /\ SlotsOK /\ UploadsOK /\ AirOK /\ RenderOK
  BY DEF PinInv
<1>2. /\ gpu + FramesInFlight > value /\ value' = value + 1
      /\ inFlight' = inFlight \cup {[val |-> value', frame |-> cur]}
      /\ retention' = [retention EXCEPT ![Fif(value')] = cur]
      /\ rpc' = "pick"
      /\ UNCHANGED <<sync, inputVars, uploadVars, mailbox, feed, airVars, gpu>>
  BY DEF Submit
<1>3. /\ FramesInFlight \in Nat \ {0} /\ value \in Nat /\ gpu \in Nat /\ cur \in 0 .. Published
      /\ retention \in [Fifs -> 0 .. Published]
  BY <1>1 DEF Settings, HoldersAssumption, TypeOK
<1>4. value' \in Nat /\ Fif(value') \in Fifs
  BY <1>2, <1>3 DEF Fif, Fifs
<1>5. TypeOK'
  <2>1. Published' = Published /\ Slots' = Slots /\ NoSlot' = NoSlot
    BY <1>2 DEF Published, Slots, NumSlots, NoSlot, inputVars
  <2>2. retention' \in [Fifs -> 0 .. Published]
    BY <1>2, <1>3, <1>4
  <2>3. inFlight' \subseteq [val : Nat, frame : 0 .. Published]
    BY <1>1, <1>2, <1>3, <1>4 DEF TypeOK
  <2> QED BY <1>1, <1>2, <1>4, <2>1, <2>2, <2>3 DEF TypeOK, inputVars, uploadVars, airVars
<1>6. Range(retention') \subseteq Range(retention) \cup {cur}
  <2> SUFFICES ASSUME NEW x \in Range(retention') PROVE x \in Range(retention) \cup {cur}
    OBVIOUS
  <2>1. PICK i \in Fifs : x = retention'[i]
    BY <1>2, <1>3 DEF Range
  <2>2. CASE i = Fif(value')
    BY <1>2, <1>3, <2>1, <2>2
  <2>3. CASE i # Fif(value')
    BY <1>2, <1>3, <2>1, <2>3 DEF Range
  <2> QED BY <2>2, <2>3
<1>7. Held' \subseteq Held /\ Shown' \subseteq Shown
  BY <1>2, <1>6 DEF Held, Shown, airVars
<1>8. SlotsOK' /\ UploadsOK'
  BY <1>1, <1>2, <1>7, ReleaseStep DEF inputVars, uploadVars
<1>9. AirOK'
  BY <1>1, <1>2, <1>7 DEF AirOK, airVars, uploadVars
<1>10. RenderOK'
  <2>1. gpu' = gpu /\ gpu <= value' /\ value' <= gpu + FramesInFlight
    BY <1>1, <1>2, <1>3 DEF RenderOK
  <2>2. ASSUME NEW x \in inFlight'
        PROVE  x.val \in gpu + 1 .. value' /\ retention'[Fif(x.val)] = x.frame
    <3>1. CASE x = [val |-> value', frame |-> cur]
      <4>1. x.val = value' /\ x.frame = cur /\ retention'[Fif(value')] = cur
        BY <1>2, <1>3, <1>4, <3>1
      <4>2. value' \in gpu + 1 .. value'
        BY <1>1, <1>2, <1>3 DEF RenderOK
      <4> QED BY <4>1, <4>2
    <3>2. CASE x \in inFlight
      <4>1. x.val \in gpu + 1 .. value /\ retention[Fif(x.val)] = x.frame
        BY <1>1, <3>2 DEF RenderOK
      <4>2. x.val \in gpu + 1 .. value' /\ x.val # value' /\ x.val \in Nat
        BY <1>2, <1>3, <4>1
      <4>3. /\ x.val \in gpu + 1 .. gpu + FramesInFlight
            /\ value' \in gpu + 1 .. gpu + FramesInFlight
        BY <1>1, <1>2, <1>3, <2>1, <4>1 DEF RenderOK
      <4>4. Fif(x.val) # Fif(value')
        BY <1>3, <4>2, <4>3, FifWindow
      <4>5. Fif(x.val) \in Fifs
        BY <1>3, <4>2 DEF Fif, Fifs
      <4> QED BY <1>2, <1>3, <4>1, <4>2, <4>4, <4>5
    <3> QED BY <1>2, <3>1, <3>2
  <2> QED BY <2>1, <2>2 DEF RenderOK, Fif
<1> QED BY <1>5, <1>8, <1>9, <1>10 DEF PinInv

\* The GPU finishes the oldest tick.
LEMMA FinishKeeps ==
    ASSUME Settings, PinInv, NEW x \in inFlight, RenderFinishes(x)
    PROVE  PinInv'
<1>1. TypeOK /\ SlotsOK /\ UploadsOK /\ AirOK /\ RenderOK
  BY DEF PinInv
<1>2. /\ \A y \in inFlight : x.val <= y.val
      /\ gpu' = x.val /\ inFlight' = inFlight \ {x}
      /\ UNCHANGED <<sync, inputVars, uploadVars, mailbox, feed, airVars, rpc, value, retention>>
  BY DEF RenderFinishes
<1>3. /\ FramesInFlight \in Nat \ {0} /\ value \in Nat /\ gpu \in Nat
      /\ inFlight \subseteq [val : Nat, frame : 0 .. Published]
  BY <1>1 DEF Settings, HoldersAssumption, TypeOK
<1>4. TypeOK'
  <2>1. Published' = Published /\ Slots' = Slots /\ NoSlot' = NoSlot
    BY <1>2 DEF Published, Slots, NumSlots, NoSlot, inputVars
  <2>2. gpu' \in Nat /\ inFlight' \subseteq [val : Nat, frame : 0 .. Published]
    BY <1>2, <1>3
  <2> QED BY <1>1, <1>2, <2>1, <2>2 DEF TypeOK, inputVars, uploadVars, airVars
<1>5. Held' = Held
  BY <1>2 DEF Held, airVars
<1>6. SlotsOK' /\ UploadsOK'
  BY <1>1, <1>2, <1>5, ReleaseStep DEF inputVars, uploadVars
<1>7. AirOK'
  BY <1>1, <1>2, AirQuiet DEF airVars, uploadVars
<1>8. RenderOK'
  <2>1. x.val \in gpu + 1 .. value /\ value <= gpu + FramesInFlight
    BY <1>1 DEF RenderOK
  <2>2. gpu' <= value /\ value <= gpu' + FramesInFlight
    BY <1>2, <1>3, <2>1
  <2>3. ASSUME NEW y \in inFlight, y # x
        PROVE  y.val \in gpu' + 1 .. value /\ retention[Fif(y.val)] = y.frame
    <3>1. y.val \in gpu + 1 .. value /\ retention[Fif(y.val)] = y.frame
      BY <1>1 DEF RenderOK
    <3>2. y.val # x.val
      <4>1. retention[Fif(x.val)] = x.frame
        BY <1>1 DEF RenderOK
      <4>2. y.val = x.val => y.frame = x.frame
        BY <3>1, <4>1
      <4> QED BY <1>3, <2>3, <4>2
    <3>3. x.val <= y.val
      BY <1>2
    <3> QED BY <1>2, <1>3, <2>1, <3>1, <3>2, <3>3
  <2> QED BY <1>2, <2>2, <2>3 DEF RenderOK, Fif
<1> QED BY <1>4, <1>6, <1>7, <1>8 DEF PinInv

------------------------------------------------------------------------------
(* When a frame is dropped *)

\* What is retained when a frame is published, in the order of the mailbox.
LEMMA RetainedOrder ==
    ASSUME Settings, NEW X, NEW m \in Seq(X), NEW f \in X
    PROVE  \A i \in 1 .. Len(Retained(<<f>> \o m)) :
              /\ i = 1 \/ i - 1 \in 1 .. Len(m)
              /\ Retained(<<f>> \o m)[i] = IF i = 1 THEN f ELSE m[i - 1]
<1> DEFINE w == <<f>> \o m
           k == IF Len(w) < Keep THEN Len(w) ELSE Keep
           v == SubSeq(w, 1, k)
<1>1. w \in Seq(X) /\ Len(w) = Len(m) + 1 /\ Len(m) \in Nat
  OBVIOUS
<1>2. \A i \in 1 .. Len(w) : w[i] = IF i = 1 THEN f ELSE m[i - 1]
  OBVIOUS
<1>3. Keep \in Nat
  BY DEF Settings, HoldersAssumption
<1> HIDE DEF w
<1>4. k \in 0 .. Len(w)
  BY <1>1, <1>3
<1> HIDE DEF k
<1>5. Len(v) = k /\ \A i \in 1 .. k : v[i] = w[i]
  BY <1>1, <1>4
<1>6. Retained(w) = v
  BY DEF Retained, k
<1> HIDE DEF v
<1>7. \A i \in 1 .. Len(v) : i \in 1 .. Len(w)
  BY <1>1, <1>4, <1>5
<1>8. \A i \in 1 .. Len(v) : /\ i = 1 \/ i - 1 \in 1 .. Len(m)
                             /\ v[i] = IF i = 1 THEN f ELSE m[i - 1]
  BY <1>1, <1>2, <1>4, <1>5, <1>7
<1> QED BY <1>6, <1>8 DEF w

\* Frames keep their places, and go on in order.
LEMMA PlacesStep ==
    ASSUME Settings, PinInv, PlacesOK, [Next]_vars
    PROVE  PlacesOK'
<1>1. TypeOK /\ SlotsOK
  BY DEF PinInv
<1>2. CASE UNCHANGED <<frames, lastSubmit, mailbox>>
  BY <1>2 DEF PlacesOK, Published, Rings, AllSlots, NoSlot
<1>3. CASE Replace
  <2>1. UNCHANGED <<frames, lastSubmit>> /\ mailbox' = << >>
    BY <1>3 DEF Replace
  <2> QED BY <2>1 DEF PlacesOK, Published, Rings, AllSlots, NoSlot
<1>4. CASE Publish
  <2> DEFINE n == Published + 1
             x == [ring |-> ring, slot |-> filling]
             Y == [ring : Rings, slot : AllSlots]
  <2>1. /\ filling # NoSlot /\ frames' = Append(frames, x)
        /\ lastSubmit' = Put(lastSubmit, ring, filling, n)
        /\ mailbox' = Retained(<<n>> \o mailbox)
    BY <1>4 DEF Publish, Put
  <2>2. /\ ring \in Rings /\ ring \in Nat /\ filling \in AllSlots /\ Published \in Nat
        /\ n \in Nat /\ n # 0
        /\ \A f \in 1 .. Published : frames[f].ring \in Rings /\ frames[f].slot \in AllSlots
    BY <1>1, <2>1, SlotFacts
  <2>3. frames \in Seq(Y) /\ x \in Y
    BY <1>1, <2>2 DEF TypeOK
  <2>4. Published' = n
    <3> HIDE DEF x, Y
    <3> QED BY <2>1, <2>3 DEF Published
  <2>5. frames'[n] = x /\ \A f \in 1 .. Published : frames'[f] = frames[f]
    <3> HIDE DEF x, Y
    <3> QED BY <2>1, <2>3 DEF Published
  <2>6. lastSubmit \in [Rings -> [AllSlots -> 0 .. Published]]
    BY <1>1 DEF TypeOK
  <2>7. mailbox \in Seq(1 .. Published)
    BY <1>1 DEF TypeOK
  <2>8. \A f \in 1 .. Published : frames[f].ring <= ring /\ frames[f].ring \in Nat
    BY <1>1, <2>2 DEF SlotsOK, Rings
  <2> HIDE DEF Published
  <2>9. \A f \in 1 .. n : f = n \/ f \in 1 .. Published
    BY <2>2
  <2> HIDE DEF n
  <2>10. ASSUME NEW f \in 1 .. n, NEW g \in 1 .. n, f < g
         PROVE  frames'[f].ring <= frames'[g].ring
    <3>1. f \in 1 .. Published
      BY <2>9, <2>10, <2>2 DEF n
    <3>2. CASE g = n
      BY <2>5, <2>8, <3>1, <3>2
    <3>3. CASE g \in 1 .. Published
      BY <2>5, <2>10, <3>1, <3>3 DEF PlacesOK
    <3> QED BY <2>9, <3>2, <3>3
  <2>11. ASSUME NEW r \in Rings, NEW s \in AllSlots, lastSubmit'[r][s] # 0
         PROVE  frames'[lastSubmit'[r][s]] = [ring |-> r, slot |-> s]
    <3>1. CASE r = ring /\ s = filling
      <4>1. lastSubmit'[r][s] = n
        BY <2>1, <2>2, <2>6, <3>1 DEF Put
      <4> QED BY <2>5, <3>1, <4>1
    <3>2. CASE ~(r = ring /\ s = filling)
      <4>1. lastSubmit'[r][s] = lastSubmit[r][s]
        BY <2>1, <2>2, <2>6, <3>2 DEF Put
      <4>2. lastSubmit[r][s] \in 1 .. Published
        BY <2>2, <2>6, <2>11, <4>1
      <4> QED BY <2>5, <2>11, <4>1, <4>2 DEF PlacesOK
    <3> QED BY <3>1, <3>2
  <2>12. ASSUME NEW i \in 1 .. Len(mailbox') PROVE mailbox'[i] = (n + 1) - i
    <3> DEFINE X == 1 .. n
    <3>1. mailbox \in Seq(X) /\ n \in X
      <4> DEFINE Z == 1 .. Published
      <4>0. mailbox \in Seq(Z)
        BY <2>7
      <4>1. Z \subseteq X /\ n \in X
        BY <2>2 DEF n
      <4> HIDE DEF X, Z
      <4>2. Len(mailbox) \in Nat /\ mailbox \in [1 .. Len(mailbox) -> Z]
        BY <4>0
      <4>3. mailbox \in [1 .. Len(mailbox) -> X]
        BY <4>1, <4>2
      <4> QED BY <4>1, <4>2, <4>3
    <3> HIDE DEF X
    <3>2. /\ i = 1 \/ i - 1 \in 1 .. Len(mailbox)
          /\ mailbox'[i] = IF i = 1 THEN n ELSE mailbox[i - 1]
      BY <2>1, <2>12, <3>1, RetainedOrder
    <3>3. i = 1 => mailbox'[i] = (n + 1) - i
      BY <2>2, <3>2
    <3>4. i # 1 => mailbox'[i] = (n + 1) - i
      <4>1. i # 1 => mailbox[i - 1] = (Published + 1) - (i - 1)
        BY <3>2 DEF PlacesOK
      <4>2. i \in Int
        OBVIOUS
      <4> QED BY <2>2, <3>2, <4>1, <4>2 DEF n
    <3> QED BY <3>3, <3>4
  <2>13. Rings' = Rings /\ AllSlots' = AllSlots
    BY DEF Rings, AllSlots, NoSlot
  <2> QED BY <2>4, <2>10, <2>11, <2>12, <2>13 DEF PlacesOK
<1>5. Publish \/ Replace \/ UNCHANGED <<frames, lastSubmit, mailbox>>
  BY DEF Next, vars, inputVars, Receive, Drop, CopyFails, NewFormat, Pick, Submit, UploadFinishes,
         RenderFinishes
<1> QED BY <1>2, <1>3, <1>4, <1>5

\* A frame that was uploaded stays uploaded.
LEMMA UploadedStays ==
    ASSUME Settings, PinInv, [Next]_vars, NEW g \in 1 .. Published, Uploaded(g)
    PROVE  Uploaded(g)'
<1>1. TypeOK /\ UploadsOK
  BY DEF PinInv
<1>2. frames[g].ring \in Rings /\ Published \in Nat
  BY <1>1, SlotFacts
<1>3. uploadDone[frames[g].ring] \in Nat
  BY <1>1, <1>2 DEF TypeOK
<1>4. CASE UNCHANGED <<frames, uploadDone>>
  BY <1>4 DEF Uploaded
<1>5. CASE Publish
  <2> DEFINE Y == [ring : Rings, slot : AllSlots]
             x == [ring |-> ring, slot |-> filling]
  <2>1. frames \in Seq(Y) /\ frames' = Append(frames, x) /\ uploadDone' = uploadDone
    BY <1>1, <1>5 DEF TypeOK, Publish
  <2>2. frames'[g] = frames[g]
    <3> HIDE DEF x, Y
    <3> QED BY <2>1 DEF Published
  <2> QED BY <2>1, <2>2 DEF Uploaded
<1>6. ASSUME NEW f \in pending, UploadFinishes(f) PROVE Uploaded(g)'
  <2> DEFINE r == frames[f].ring
  <2>1. frames' = frames /\ uploadDone' = [uploadDone EXCEPT ![r] = f]
    BY <1>6 DEF UploadFinishes, inputVars
  <2>2. f \in 1 .. Published /\ f > uploadDone[r]
    BY <1>1 DEF TypeOK, UploadsOK
  <2>3. uploadDone \in [Rings -> 0 .. Published]
    BY <1>1 DEF TypeOK
  <2>4. uploadDone'[frames[g].ring] >= uploadDone[frames[g].ring]
    <3>1. CASE frames[g].ring = r
      <4>1. uploadDone'[frames[g].ring] = f
        BY <1>2, <2>1, <2>3, <3>1
      <4> QED BY <1>2, <1>3, <2>2, <3>1, <4>1
    <3>2. CASE frames[g].ring # r
      BY <1>2, <1>3, <2>1, <2>3, <3>2
    <3> QED BY <3>1, <3>2
  <2>5. uploadDone'[frames[g].ring] \in Nat
    BY <1>2, <2>1, <2>2, <2>3
  <2> QED BY <1>2, <1>3, <2>1, <2>4, <2>5 DEF Uploaded
<1>7. UNCHANGED <<frames, uploadDone>> \/ Publish \/ \E f \in pending : UploadFinishes(f)
  BY DEF Next, vars, inputVars, uploadVars, Receive, Drop, CopyFails, NewFormat, Replace, Pick,
         Submit, RenderFinishes
<1> QED BY <1>4, <1>5, <1>6, <1>7

\* What goes on air comes from what is coming, and leaves behind what is newer.
LEMMA PickOrder ==
    ASSUME Settings, PinInv, OrderOK, Take \/ Present, UNCHANGED <<sync, mailbox>>
    PROVE  /\ Coming' \subseteq Coming
           /\ cur' \in {cur, 0} \/ (cur' \in Coming /\ Uploaded(cur'))
           /\ \A f \in Coming' : f > cur'
           /\ ~sync => queue' = {} /\ feed' = << >>
<1>1. TypeOK /\ AirOK
  BY DEF PinInv
<1>2. /\ Published \in Nat /\ cur \in 0 .. Published /\ seen \in 0 .. Published
      /\ queue \subseteq 1 .. Published
      /\ Range(mailbox) \subseteq 1 .. Published /\ Range(feed) \subseteq 1 .. Published
  BY <1>1, SlotFacts, RangeIs DEF TypeOK
<1>3. Range(<< >>) = {}
  BY DEF Range
<1>4. /\ queue' \subseteq queue \cup Range(feed)
      /\ sync => \A f \in queue' : f > cur'
  BY <1>1, PickIs
<1> HIDE DEF Published
<1>5. CASE Take
  <2> DEFINE ready == {f \in Newer : Uploaded(f)}
  <2>1. /\ ~sync /\ feed' = feed /\ queue' = queue
        /\ \/ ready # {} /\ cur' = Newest(ready) /\ seen' = cur'
           \/ ready = {} /\ cur' \in {cur, 0} /\ seen' = seen
    BY <1>5 DEF Take
  <2>2. cur \in {0, seen} /\ Coming = Newer /\ Coming' = Newer'
    BY <1>1, <2>1 DEF AirOK, Coming
  <2>3. \A f : f \in Newer <=> f \in Range(mailbox) /\ f > seen
    BY DEF Newer
  <2>4. \A f : f \in Newer' <=> f \in Range(mailbox) /\ f > seen'
    BY DEF Newer
  <2>5. CASE ready # {}
    <3>1. Newest(ready) \in ready
      <4>1. ready \subseteq 0 .. Published
        BY <1>2, <2>3
      <4> HIDE DEF ready
      <4> QED BY <1>2, <2>5, <4>1, NewestIs
    <3>2. cur' \in Newer /\ Uploaded(cur') /\ seen' = cur'
      BY <2>1, <2>5, <3>1
    <3>3. cur' \in 1 .. Published /\ cur' > seen
      BY <1>2, <2>3, <3>2
    <3>4. \A f \in Newer' : f \in Newer /\ f > cur'
      <4> SUFFICES ASSUME NEW f \in Newer' PROVE f \in Newer /\ f > cur'
        OBVIOUS
      <4>1. f \in Range(mailbox) /\ f > cur' /\ f \in 1 .. Published
        BY <1>2, <2>4, <3>2
      <4> QED BY <1>2, <2>3, <3>3, <4>1
    <3> QED BY <2>1, <2>2, <3>2, <3>4 DEF OrderOK
  <2>6. CASE ready = {}
    <3>1. seen' = seen /\ cur' \in {cur, 0}
      BY <2>1, <2>6
    <3>2. Newer' = Newer
      BY <3>1 DEF Newer
    <3>3. \A f \in Newer : f > cur'
      <4> SUFFICES ASSUME NEW f \in Newer PROVE f > cur'
        OBVIOUS
      <4>1. f > seen /\ f \in 1 .. Published
        BY <1>2, <2>3
      <4> QED BY <1>2, <2>2, <3>1, <4>1
    <3> QED BY <2>1, <2>2, <3>1, <3>2, <3>3 DEF OrderOK
  <2> QED BY <2>5, <2>6
<1>6. CASE Present
  <2>1. sync /\ feed' = << >>
    BY <1>6 DEF Present
  <2>2. PICK q \in Drained : \/ \E f \in q : Uploaded(f) /\ cur' = f /\ queue' = {g \in q : g > f}
                             \/ cur' \in {cur, 0} /\ queue' = q
    BY <1>6 DEF Present
  <2>3. q \subseteq queue \cup Range(feed)
    BY <2>2 DEF Drained, Latest
  <2>4. Coming = queue \cup Range(feed) /\ Coming' = queue'
    BY <1>3, <2>1 DEF Coming
  <2> QED BY <1>4, <2>1, <2>2, <2>3, <2>4
<1> QED BY <1>5, <1>6

\* The order is kept.
LEMMA OrderStep ==
    ASSUME Settings, PinInv, OrderOK, [Next]_vars
    PROVE  OrderOK'
<1>1. TypeOK /\ AirOK
  BY DEF PinInv
<1>2. /\ Published \in Nat /\ cur \in 0 .. Published /\ seen \in 0 .. Published
      /\ queue \subseteq 1 .. Published /\ Kept \subseteq 0 .. Published /\ Held \subseteq 1 .. Published
      /\ Range(mailbox) \subseteq 1 .. Published /\ Range(feed) \subseteq 1 .. Published
  <2>1. Kept \subseteq 0 .. Published
    BY <1>1 DEF Kept, Range, TypeOK
  <2> QED BY <1>1, <2>1, SlotFacts, RangeIs DEF TypeOK
<1>3. Shown \subseteq 1 .. Published /\ Coming \subseteq 1 .. Published
  BY <1>2 DEF Shown, Held, Coming, Newer
<1>4. \A g \in Shown : Uploaded(g)'
  BY <1>3, UploadedStays DEF OrderOK
<1>5. Range(<< >>) = {}
  BY DEF Range
<1>6. CASE UNCHANGED <<sync, mailbox, feed, queue, cur, seen, retention>>
  <2>1. Coming' = Coming /\ Kept' = Kept /\ Shown' = Shown
    BY <1>6 DEF Coming, Newer, Kept, Shown
  <2> QED BY <1>4, <1>6, <2>1 DEF OrderOK
<1>7. CASE Publish
  <2> DEFINE n == Published + 1
  <2>1. /\ UNCHANGED <<sync, queue, cur, seen, retention>>
        /\ mailbox' = Retained(<<n>> \o mailbox)
        /\ feed' = IF sync /\ Len(feed) < FeedCapacity THEN Append(feed, n) ELSE feed
    BY <1>7 DEF Publish, airVars, renderVars
  <2>2. mailbox \in Seq(Nat) /\ feed \in Seq(Nat) /\ n \in Nat
    <3>1. mailbox \in Seq(1 .. Published) /\ feed \in Seq(1 .. Published)
      BY <1>1 DEF TypeOK
    <3>2. 1 .. Published \subseteq Nat
      BY <1>2
    <3> DEFINE Y == 1 .. Published
    <3>3. mailbox \in Seq(Y) /\ feed \in Seq(Y) /\ Y \subseteq Nat
      BY <3>1, <3>2
    <3> HIDE DEF Y
    <3>4. /\ Len(mailbox) \in Nat /\ mailbox \in [1 .. Len(mailbox) -> Y]
          /\ Len(feed) \in Nat /\ feed \in [1 .. Len(feed) -> Y]
      BY <3>3
    <3>5. mailbox \in [1 .. Len(mailbox) -> Nat] /\ feed \in [1 .. Len(feed) -> Nat]
      BY <3>3, <3>4
    <3> QED BY <1>2, <3>4, <3>5
  <2>3. Range(mailbox') \subseteq Range(mailbox) \cup {n}
    <3> HIDE DEF n
    <3> QED BY <2>1, <2>2, RetainedIs
  <2>4. Range(feed') \subseteq Range(feed) \cup {n}
    <3> HIDE DEF n
    <3> QED BY <2>1, <2>2, RangeAppend
  <2>5. n \in Nat /\ \A g \in 0 .. Published : n > g
    BY <1>2
  <2> HIDE DEF n
  <2>6. Coming' \subseteq Coming \cup {n} /\ Kept' = Kept /\ Shown' = Shown
    BY <2>1, <2>3, <2>4 DEF Coming, Newer, Kept, Shown
  <2>7. \A f \in Coming', g \in (Kept \cup {cur})' : f > g
    BY <1>2, <2>1, <2>5, <2>6 DEF OrderOK
  <2> QED BY <1>4, <2>1, <2>6, <2>7 DEF OrderOK
<1>8. CASE Replace
  <2>1. /\ mailbox' = << >> /\ feed' = << >> /\ queue' = {} /\ cur' = 0 /\ seen' = 0
        /\ retention' = retention
    BY <1>8 DEF Replace, renderVars
  <2>2. Coming' = {} /\ Kept' = Kept /\ Shown' \subseteq Shown
    BY <1>5, <2>1 DEF Coming, Newer, Kept, Shown
  <2> QED BY <1>4, <2>1, <2>2 DEF OrderOK
<1>9. CASE Pick
  <2>1. (Take \/ Present) /\ UNCHANGED <<sync, mailbox, retention, frames, uploadDone>>
    BY <1>9 DEF Pick, inputVars, uploadVars
  <2>2. /\ Coming' \subseteq Coming
        /\ cur' \in {cur, 0} \/ (cur' \in Coming /\ Uploaded(cur'))
        /\ \A f \in Coming' : f > cur'
        /\ ~sync => queue' = {} /\ feed' = << >>
    BY <2>1, PickOrder
  <2>3. Kept' = Kept /\ Shown' \subseteq Shown \cup {cur'}
    BY <2>1 DEF Kept, Shown
  <2>4. cur' # 0 => \A g \in Kept : g <= cur'
    <3>1. CASE cur' \in {cur, 0}
      BY <3>1 DEF OrderOK
    <3>2. CASE cur' \in Coming
      BY <1>2, <1>3, <3>2 DEF OrderOK
    <3> QED BY <2>2, <3>1, <3>2
  <2>5. \A g \in Shown' : Uploaded(g)'
    <3> SUFFICES ASSUME NEW g, g \in Shown' PROVE Uploaded(g)'
      OBVIOUS
    <3>1. g # 0 /\ (g \in Shown \/ g = cur')
      BY <2>3 DEF Shown
    <3>2. g \in Shown \/ Uploaded(g)
      BY <2>2, <3>1 DEF Shown
    <3>3. Uploaded(g) => Uploaded(g)'
      BY <2>1 DEF Uploaded
    <3> QED BY <1>4, <3>2, <3>3
  <2> QED BY <2>1, <2>2, <2>3, <2>4, <2>5 DEF OrderOK
<1>10. CASE Submit
  <2>1. /\ retention' = [retention EXCEPT ![Fif(value')] = cur]
        /\ UNCHANGED <<sync, mailbox, feed, queue, cur, seen>>
    BY <1>10 DEF Submit, airVars
  <2>2. Kept' \subseteq Kept \cup {cur}
    <3>1. retention \in [Fifs -> 0 .. Published]
      BY <1>1 DEF TypeOK
    <3> SUFFICES ASSUME NEW x \in Kept' PROVE x \in Kept \cup {cur}
      OBVIOUS
    <3>2. PICK i \in Fifs : x = retention'[i]
      BY <2>1, <3>1 DEF Kept, Range
    <3>3. retention'[i] = cur \/ retention'[i] = retention[i]
      BY <2>1, <3>1
    <3> QED BY <3>1, <3>2, <3>3 DEF Kept, Range
  <2>3. Coming' = Coming /\ Shown' \subseteq Shown
    BY <2>1, <2>2 DEF Coming, Newer, Shown, Kept
  <2>4. cur' # 0 => \A g \in Kept' : g <= cur'
    BY <1>2, <2>1, <2>2 DEF OrderOK
  <2> QED BY <1>4, <2>1, <2>2, <2>3, <2>4 DEF OrderOK
<1>11. \/ UNCHANGED <<sync, mailbox, feed, queue, cur, seen, retention>>
       \/ Publish \/ Replace \/ Pick \/ Submit
  BY DEF Next, vars, airVars, renderVars, Receive, Drop, CopyFails, NewFormat, UploadFinishes,
         RenderFinishes
<1> QED BY <1>6, <1>7, <1>8, <1>9, <1>10, <1>11

\* Each slot that is not free has a frame of the ring in use as its last: kept for a
\* tick in flight, newer than all that are, or retained in the mailbox.
LEMMA BusySlots ==
    ASSUME Settings, PinInv, OrderOK, PlacesOK, \A s \in Slots : ~Free(s), NEW s \in Slots,
           NEW f, f = lastSubmit[ring][s]
    PROVE  /\ f \in 1 .. Published /\ frames[f] = [ring |-> ring, slot |-> s]
           /\ \/ f \in Kept
              \/ f > LastKept
              \/ f \in Range(mailbox) /\ f < LastKept
<1>1. TypeOK /\ SlotsOK /\ AirOK
  BY DEF PinInv
<1>2. /\ Published \in Nat /\ Slots \subseteq AllSlots /\ s \in AllSlots /\ ring \in Rings
      /\ ring \in Nat /\ Held \subseteq 1 .. Published
      /\ \A g \in 1 .. Published : frames[g].ring \in Rings
  BY <1>1, SlotFacts
<1>3. lastSubmit \in [Rings -> [AllSlots -> 0 .. Published]]
      /\ uploadDone \in [Rings -> 0 .. Published]
  BY <1>1 DEF TypeOK
<1>4. f \in 0 .. Published /\ uploadDone[ring] \in Nat
  BY <1>2, <1>3
<1>5. Kept \subseteq 0 .. Published /\ Kept # {}
  <2>1. retention \in [Fifs -> 0 .. Published] /\ 0 \in Fifs
    BY <1>1 DEF TypeOK, Settings, HoldersAssumption, Fifs
  <2> QED BY <2>1 DEF Kept, Range
<1>6. LastKept \in Kept /\ \A g \in Kept : g <= LastKept
  BY <1>2, <1>5, NewestIs DEF LastKept, Newest, Kept
<1>7. LastKept \in 0 .. Published
  BY <1>5, <1>6
<1> HIDE DEF Published, LastKept
<1>8. CASE f > uploadDone[ring]
  <2>1. f \in 1 .. Published
    BY <1>4, <1>8
  <2>2. frames[f] = [ring |-> ring, slot |-> s]
    BY <1>2, <2>1 DEF PlacesOK
  <2>3. f > LastKept
    <3>1. CASE LastKept = 0
      BY <2>1, <3>1
    <3>2. CASE LastKept # 0
      <4>1. LastKept \in 1 .. Published /\ uploadDone[frames[LastKept].ring] >= LastKept
        BY <1>6, <1>7, <3>2 DEF OrderOK, Shown, Kept, Uploaded
      <4>2. CASE frames[LastKept].ring = ring
        BY <1>4, <1>8, <2>1, <4>1, <4>2
      <4>3. CASE frames[LastKept].ring # ring
        <5>1. frames[LastKept].ring <= ring /\ frames[LastKept].ring \in Nat
          BY <1>1, <1>2, <4>1 DEF SlotsOK, Rings
        <5>2. frames[f].ring = ring
          BY <2>2
        <5>3. ~(f < LastKept) /\ f # LastKept
          BY <1>2, <2>1, <4>1, <4>3, <5>1, <5>2 DEF PlacesOK
        <5> QED BY <2>1, <4>1, <5>3
      <4> QED BY <4>2, <4>3
    <3> QED BY <3>1, <3>2
  <2> QED BY <2>1, <2>2, <2>3
<1>9. CASE f <= uploadDone[ring]
  <2>1. PICK g \in Held : frames[g] = [ring |-> ring, slot |-> s]
    BY <1>9 DEF Free, Pinned
  <2>2. g \in 1 .. Published /\ lastSubmit[ring][s] = g
    BY <1>1, <1>2, <2>1 DEF SlotsOK, Busy, Entry
  <2>3. f = g
    BY <2>2
  <2>4. /\ f \in 1 .. Published
        /\ f \in Range(mailbox) \/ f \in Range(feed) \/ f \in queue \/ f = cur \/ f \in Kept
    BY <2>1, <2>2, <2>3 DEF Held, Kept
  <2>5. ASSUME f \in Range(feed) \/ f \in queue PROVE f > LastKept
    <3>1. Range(<< >>) = {}
      BY DEF Range
    <3>2. sync
      BY <2>5, <3>1 DEF OrderOK
    <3>3. f \in Coming
      BY <2>5, <3>2 DEF Coming
    <3> QED BY <1>6, <3>3 DEF OrderOK
  <2>6. ASSUME f = cur PROVE f \in Kept \/ f > LastKept
    <3>1. LastKept <= f
      BY <1>6, <2>4, <2>6 DEF OrderOK
    <3> QED BY <1>6, <1>7, <2>4, <3>1
  <2>7. f \in Kept \/ f > LastKept \/ f < LastKept
    BY <1>6, <1>7, <2>4
  <2> QED BY <2>1, <2>3, <2>4, <2>5, <2>6, <2>7
<1> QED BY <1>2, <1>4, <1>8, <1>9

\* At most one frame is kept for each tick in flight.
LEMMA KeptSize ==
    ASSUME Settings, TypeOK
    PROVE  IsFiniteSet(Kept) /\ Cardinality(Kept) \in Nat /\ Cardinality(Kept) <= FramesInFlight
<1>1. FramesInFlight \in Nat \ {0}
  BY DEF Settings, HoldersAssumption
<1>2. IsFiniteSet(Fifs) /\ Cardinality(Fifs) = FramesInFlight
  BY <1>1, FS_Interval DEF Fifs
<1>3. retention \in Surjection(Fifs, Kept)
  <2>1. retention \in [Fifs -> 0 .. Published]
    BY DEF TypeOK
  <2> HIDE DEF Fifs
  <2> QED BY <2>1 DEF Surjection, Kept, Range
<1> QED BY <1>2, <1>3, FS_Surjection, FS_CardinalityType

\* A frame is dropped only when the screen is behind.
LEMMA DropPromise ==
    ASSUME Settings, SlotsEnough, PinInv, OrderOK, PlacesOK
    PROVE  DropMeansBehind
<1> SUFFICES ASSUME \A s \in Slots : ~Free(s)
             PROVE  Cardinality(Behind) >= NumSlots - FramesInFlight
  BY DEF DropMeansBehind
<1>1. TypeOK
  BY DEF PinInv
<1>2. /\ FramesInFlight \in Nat /\ Keep \in Nat \ {0} /\ NumSlots \in Nat \ {0}
      /\ FramesInFlight + Keep <= NumSlots /\ Published \in Nat
  BY <1>1, SlotFacts DEF Settings, HoldersAssumption, SlotsAssumption, SlotsEnough, NumSlots
<1>3. IsFiniteSet(Slots) /\ Cardinality(Slots) = NumSlots
  <2> HIDE DEF NumSlots
  <2> QED BY <1>2, FS_Interval DEF Slots
<1>4. IsFiniteSet(Behind) /\ Cardinality(Behind) \in Nat
  <2>1. IsFiniteSet(1 .. Published)
    BY <1>2, FS_Interval
  <2>2. Behind \subseteq 1 .. Published
    BY DEF Behind
  <2> QED BY <2>1, <2>2, FS_Subset, FS_CardinalityType
<1> DEFINE w == [s \in Slots |-> lastSubmit[ring][s]]
<1>5. ASSUME NEW s \in Slots
      PROVE  /\ w[s] \in 1 .. Published /\ frames[w[s]] = [ring |-> ring, slot |-> s]
             /\ \/ w[s] \in Kept
                \/ w[s] > LastKept
                \/ w[s] \in Range(mailbox) /\ w[s] < LastKept
  <2>1. PICK f : f = w[s]
    OBVIOUS
  <2>2. f = lastSubmit[ring][s]
    BY <2>1
  <2>3. /\ f \in 1 .. Published /\ frames[f] = [ring |-> ring, slot |-> s]
        /\ f \in Kept \/ f > LastKept \/ (f \in Range(mailbox) /\ f < LastKept)
    BY <2>2, BusySlots
  <2> HIDE DEF w
  <2> QED BY <2>1, <2>3
<1>6. \A s, t \in Slots : w[s] = w[t] => s = t
  <2>1. \A s \in Slots : frames[w[s]] = [ring |-> ring, slot |-> s]
    BY <1>5
  <2> HIDE DEF w
  <2>2. ASSUME NEW s \in Slots PROVE frames[w[s]].slot = s
    <3>1. frames[w[s]] = [ring |-> ring, slot |-> s]
      BY <2>1
    <3> QED BY <3>1
  <2> QED BY <2>2
<1>7. CASE \A s \in Slots : w[s] \in Kept \/ w[s] > LastKept
  <2> DEFINE T == Kept \cup Behind
  <2>1. \A s \in Slots : w[s] \in T
    <3> SUFFICES ASSUME NEW s \in Slots PROVE w[s] \in T
      OBVIOUS
    <3>1. w[s] \in 1 .. Published /\ frames[w[s]].ring = ring /\ (w[s] \in Kept \/ w[s] > LastKept)
      <4> HIDE DEF w
      <4>1. frames[w[s]] = [ring |-> ring, slot |-> s]
        BY <1>5
      <4>2. frames[w[s]].ring = ring
        BY <4>1
      <4> QED BY <1>5, <1>7, <4>2
    <3> HIDE DEF w
    <3> QED BY <3>1 DEF Behind
  <2>2. w \in Injection(Slots, T)
    <3>1. w \in [Slots -> T]
      <4> HIDE DEF T
      <4> QED BY <2>1
    <3> HIDE DEF w, T
    <3> QED BY <1>6, <3>1 DEF Injection, IsInjective
  <2>3. /\ IsFiniteSet(T) /\ Cardinality(T) \in Nat
        /\ Cardinality(T) <= Cardinality(Kept) + Cardinality(Behind)
    <3>1. IsFiniteSet(Kept) /\ Cardinality(Kept) \in Nat
      BY <1>1, KeptSize
    <3>2. IsFiniteSet(Kept \cap Behind) /\ Cardinality(Kept \cap Behind) \in Nat
      BY <3>1, FS_Subset, FS_CardinalityType
    <3>3. IsFiniteSet(T)
          /\ Cardinality(T) = Cardinality(Kept) + Cardinality(Behind) - Cardinality(Kept \cap Behind)
      BY <1>4, <3>1, FS_Union
    <3>4. Cardinality(T) \in Nat
      BY <3>3, FS_CardinalityType
    <3>5. Cardinality(T) <= Cardinality(Kept) + Cardinality(Behind)
      <4> DEFINE a == Cardinality(Kept)
                 b == Cardinality(Behind)
                 c == Cardinality(Kept \cap Behind)
      <4>1. a \in Nat /\ b \in Nat /\ c \in Nat /\ Cardinality(T) = (a + b) - c
        BY <1>4, <3>1, <3>2, <3>3
      <4> HIDE DEF a, b, c, T
      <4>2. Cardinality(T) <= a + b
        BY <4>1
      <4> QED BY <4>2 DEF a, b
    <3> QED BY <3>3, <3>4, <3>5
  <2> HIDE DEF T, w
  <2>4. NumSlots <= Cardinality(T)
    BY <1>3, <2>2, <2>3, FS_Injection
  <2>5. Cardinality(Kept) <= FramesInFlight /\ Cardinality(Kept) \in Nat
    BY <1>1, KeptSize
  <2> HIDE DEF NumSlots
  <2> QED BY <1>2, <1>4, <2>3, <2>4, <2>5
<1>8. CASE \E s \in Slots : w[s] \in Range(mailbox) /\ w[s] < LastKept
  <2> DEFINE R == (Published + 1) - Keep .. Published
             T == Kept \cup (R \ {LastKept})
  <2>1. \A f \in Range(mailbox) : f \in R
    <3>1. mailbox \in Seq(1 .. Published) /\ Len(mailbox) <= Keep
      BY <1>1 DEF TypeOK
    <3>2. Len(mailbox) \in Nat
      BY <3>1
    <3> SUFFICES ASSUME NEW f \in Range(mailbox) PROVE f \in R
      OBVIOUS
    <3>3. PICK i \in 1 .. Len(mailbox) : mailbox[i] = f
      BY <3>1, RangeIs
    <3>4. f = (Published + 1) - i /\ i \in 1 .. Keep
      BY <1>2, <3>1, <3>2, <3>3 DEF PlacesOK
    <3> HIDE DEF Published
    <3> QED BY <1>2, <3>4
  <2>2. LastKept \in Kept /\ LastKept \in 0 .. Published
    <3>1. Kept \subseteq 0 .. Published /\ Kept # {}
      <4>1. retention \in [Fifs -> 0 .. Published] /\ 0 \in Fifs
        BY <1>1 DEF TypeOK, Settings, HoldersAssumption, Fifs
      <4> QED BY <4>1 DEF Kept, Range
    <3> QED BY <1>2, <3>1, NewestIs DEF LastKept, Newest, Kept
  <2> HIDE DEF Published, NumSlots, LastKept
  <2>3. LastKept \in R
    <3>1. PICK s \in Slots : w[s] \in Range(mailbox) /\ w[s] < LastKept
      BY <1>8
    <3>2. w[s] \in R
      BY <2>1, <3>1
    <3> HIDE DEF w
    <3> QED BY <1>2, <2>2, <3>1, <3>2
  <2>4. \A s \in Slots : w[s] \in T
    <3> SUFFICES ASSUME NEW s \in Slots PROVE w[s] \in T
      OBVIOUS
    <3>1. /\ w[s] \in 1 .. Published
          /\ \/ w[s] \in Kept
             \/ w[s] > LastKept
             \/ w[s] \in Range(mailbox) /\ w[s] < LastKept
      BY <1>5
    <3> HIDE DEF w
    <3>2. CASE w[s] \in Kept
      BY <3>2
    <3>3. CASE w[s] > LastKept
      <4>1. w[s] \in R /\ w[s] # LastKept
        BY <1>2, <2>2, <2>3, <3>1, <3>3
      <4> QED BY <4>1
    <3>4. CASE w[s] \in Range(mailbox) /\ w[s] < LastKept
      <4>1. w[s] \in R /\ w[s] # LastKept
        BY <2>1, <2>2, <3>1, <3>4
      <4> QED BY <4>1
    <3> QED BY <3>1, <3>2, <3>3, <3>4
  <2>5. w \in Injection(Slots, T)
    <3>1. w \in [Slots -> T]
      <4> HIDE DEF T
      <4> QED BY <2>4
    <3> HIDE DEF w, T
    <3> QED BY <1>6, <3>1 DEF Injection, IsInjective
  <2>6. IsFiniteSet(R) /\ Cardinality(R) = Keep
    BY <1>2, FS_Interval
  <2> DEFINE L == R \ {LastKept}
  <2>7. IsFiniteSet(L) /\ Cardinality(L) = Keep - 1
    <3> HIDE DEF R
    <3> QED BY <2>3, <2>6, FS_RemoveElement
  <2>8. IsFiniteSet(T) /\ Cardinality(T) <= Cardinality(Kept) + Cardinality(L)
    <3> HIDE DEF L
    <3>1. IsFiniteSet(Kept) /\ Cardinality(Kept) \in Nat
      BY <1>1, KeptSize
    <3>2. IsFiniteSet(Kept \cap L) /\ Cardinality(Kept \cap L) \in Nat
      BY <3>1, FS_Subset, FS_CardinalityType
    <3>3. IsFiniteSet(Kept \cup L)
          /\ Cardinality(Kept \cup L) = Cardinality(Kept) + Cardinality(L) - Cardinality(Kept \cap L)
      BY <2>7, <3>1, FS_Union
    <3>4. Cardinality(Kept \cup L) <= Cardinality(Kept) + Cardinality(L)
      BY <1>2, <2>7, <3>1, <3>2, <3>3
    <3> QED BY <3>3, <3>4 DEF L
  <2> HIDE DEF T, w, L
  <2>9. NumSlots <= Cardinality(T) /\ Cardinality(T) \in Nat
    BY <1>3, <2>5, <2>8, FS_Injection, FS_CardinalityType
  <2>10. Cardinality(Kept) <= FramesInFlight /\ Cardinality(Kept) \in Nat
    BY <1>1, KeptSize
  <2>11. FALSE
    BY <1>2, <2>7, <2>8, <2>9, <2>10
  <2> QED BY <2>11
<1> QED BY <1>5, <1>7, <1>8

------------------------------------------------------------------------------
(* The theorems *)

\* At the start nothing is held.
LEMMA PinInit ==
    ASSUME Settings, Init
    PROVE  PinInv
<1>1. /\ sync \in BOOLEAN /\ ring = 1 /\ cursor = 0 /\ filling = NoSlot /\ frames = << >>
      /\ staging = [r \in Rings |-> [s \in AllSlots |-> 0]]
      /\ image = [r \in Rings |-> [s \in AllSlots |-> 0]]
      /\ lastSubmit = [r \in Rings |-> [s \in AllSlots |-> 0]]
      /\ pending = {} /\ uploadDone = [r \in Rings |-> 0] /\ failed = {} /\ lost = 0
      /\ mailbox = << >> /\ feed = << >> /\ queue = {} /\ cur = 0 /\ seen = 0
      /\ rpc = "pick" /\ value = 0 /\ gpu = 0 /\ inFlight = {}
      /\ retention = [f \in Fifs |-> 0]
  BY DEF Init, Settings, BoundsAssumption
<1>2. Published = 0
  BY <1>1 DEF Published
<1>3. 0 \in Slots /\ ring \in Rings
  <2>1. NumSlots \in Nat \ {0}
    BY <1>1 DEF NumSlots, Settings, SlotsAssumption
  <2> HIDE DEF NumSlots
  <2> QED BY <1>1, <2>1 DEF Slots, Rings, Settings, BoundsAssumption
<1>4. TypeOK
  <2>1. /\ Cardinality(queue) <= QueueCap /\ Len(mailbox) <= Keep /\ Len(feed) <= FeedCapacity
    BY <1>1, FS_EmptySet DEF Settings, HoldersAssumption
  <2> QED BY <1>1, <1>2, <1>3, <2>1 DEF TypeOK
<1>5. Held = {} /\ Shown = {} /\ Busy = {}
  <2>1. Range(<< >>) = {}
    BY DEF Range
  <2>2. \A x \in Range(retention) : x = 0
    BY <1>1 DEF Range
  <2> QED BY <1>1, <2>1, <2>2 DEF Held, Shown, Busy
<1>6. SlotsOK /\ UploadsOK
  BY <1>1, <1>2, <1>5 DEF SlotsOK, UploadsOK
<1>7. AirOK
  BY <1>1, <1>5 DEF AirOK, Range
<1>8. RenderOK
  BY <1>1 DEF RenderOK, Settings, HoldersAssumption
<1> QED BY <1>4, <1>6, <1>7, <1>8 DEF PinInv

\* A step that changes nothing.
LEMMA StutterKeeps ==
    ASSUME Settings, PinInv, UNCHANGED vars
    PROVE  PinInv'
<1>1. TypeOK /\ SlotsOK /\ UploadsOK /\ AirOK /\ RenderOK
  BY DEF PinInv
<1>2. UNCHANGED <<sync, inputVars, uploadVars, mailbox, feed, airVars, renderVars, gpu>>
  BY DEF vars
<1>3. Held' = Held
  BY <1>2 DEF Held, airVars, renderVars
<1>4. SlotsOK' /\ UploadsOK'
  BY <1>1, <1>2, <1>3, ReleaseStep DEF inputVars, uploadVars
<1>5. AirOK' /\ RenderOK'
  BY <1>1, <1>2, AirQuiet, RenderQuiet DEF airVars, uploadVars, renderVars
<1>6. Published' = Published /\ Slots' = Slots /\ NoSlot' = NoSlot
  BY <1>2 DEF Published, Slots, NumSlots, NoSlot, inputVars
<1>7. TypeOK'
  BY <1>1, <1>2, <1>6 DEF TypeOK, inputVars, uploadVars, airVars, renderVars
<1> QED BY <1>4, <1>5, <1>7 DEF PinInv

\* Every step keeps the invariant, and the picture does not go back.
LEMMA PinStep ==
    ASSUME Settings, PinInv, [Next]_vars
    PROVE  PinInv' /\ (cur' # 0 => cur' >= cur /\ cur' >= seen)
<1>1. /\ cur \in Nat /\ seen \in Nat /\ (sync => seen = 0) /\ (~sync => cur \in {0, seen})
  BY DEF PinInv, TypeOK, AirOK, Published
<1>2. cur' \in {cur, 0} => (cur' # 0 => cur' >= cur /\ cur' >= seen)
  BY <1>1
<1>3. CASE Receive \/ CopyFails \/ NewFormat \/ \E f \in pending : UploadFinishes(f)
  <2>1. cur' = cur
    BY <1>3 DEF Receive, CopyFails, NewFormat, UploadFinishes, airVars
  <2> QED BY <1>2, <1>3, <2>1, ReceiveSide
<1>4. CASE Publish
  <2>1. cur' = cur
    BY <1>4 DEF Publish, airVars
  <2> QED BY <1>2, <1>4, <2>1, PublishKeeps
<1>5. CASE Replace
  <2>1. cur' = 0
    BY <1>5 DEF Replace
  <2> QED BY <1>2, <1>5, <2>1, ReplaceKeeps
<1>6. CASE Pick
  BY <1>6, PickKeeps
<1>7. CASE Submit
  <2>1. cur' = cur
    BY <1>7 DEF Submit, airVars
  <2> QED BY <1>2, <1>7, <2>1, SubmitKeeps
<1>8. ASSUME NEW x \in inFlight, RenderFinishes(x)
      PROVE  PinInv' /\ (cur' # 0 => cur' >= cur /\ cur' >= seen)
  <2>1. cur' = cur
    BY <1>8 DEF RenderFinishes, airVars
  <2> QED BY <1>2, <1>8, <2>1, FinishKeeps
<1>9. CASE Drop \/ UNCHANGED vars
  <2>1. UNCHANGED vars
    BY <1>9 DEF Drop
  <2>2. cur' = cur
    BY <2>1 DEF vars, airVars
  <2> QED BY <1>2, <2>1, <2>2, StutterKeeps
<1> QED BY <1>3, <1>4, <1>5, <1>6, <1>7, <1>8, <1>9 DEF Next

\* What the invariant says of the pixels.
LEMMA PinPromises ==
    ASSUME Settings, PinInv
    PROVE  TypeOK /\ SampledIntact /\ StagingIntact
<1>1. TypeOK /\ SlotsOK /\ UploadsOK /\ AirOK /\ RenderOK
  BY DEF PinInv
<1>2. StagingIntact
  BY <1>1 DEF StagingIntact, UploadsOK, Entry
<1>3. SampledIntact
  <2> SUFFICES ASSUME NEW x \in inFlight, x.frame # 0
               PROVE  \/ Contents(x.frame) = x.frame
                      \/ x.frame \in failed /\ Contents(x.frame) < x.frame
    BY DEF SampledIntact
  <2> DEFINE f == x.frame
             r == frames[f].ring
             s == frames[f].slot
  <2>1. x.val \in gpu + 1 .. value /\ retention[Fif(x.val)] = f
    BY <1>1 DEF RenderOK
  <2>2. f \in Range(retention)
    <3>1. FramesInFlight \in Nat \ {0} /\ gpu \in Nat /\ value \in Nat
      BY <1>1 DEF Settings, HoldersAssumption, TypeOK
    <3>2. Fif(x.val) \in Fifs
      BY <2>1, <3>1 DEF Fif, Fifs
    <3>3. DOMAIN retention = Fifs
      BY <1>1 DEF TypeOK
    <3> QED BY <2>1, <3>2, <3>3 DEF Range
  <2>3. f \in Held /\ f \in Shown
    BY <2>2 DEF Held, Shown
  <2>4. f \notin pending
    BY <1>1, <2>3 DEF AirOK
  <2>5. f \in 1 .. Published /\ r \in Rings /\ s \in AllSlots
    BY <1>1, <2>3, SlotFacts
  <2> HIDE DEF f, r, s
  <2>6. lastSubmit[r][s] = f
    BY <1>1, <2>3 DEF SlotsOK, Busy, Entry, r, s
  <2>7. image[r][s] <= f /\ image[r][s] \notin failed /\ image[r][s] \in Nat
    BY <1>1, <2>5, <2>6 DEF UploadsOK, TypeOK
  <2>8. f \in failed \/ image[r][s] = f
    BY <1>1, <2>3, <2>4 DEF UploadsOK, Entry, r, s
  <2>9. image[r][s] = f \/ (f \in failed /\ image[r][s] < f)
    BY <2>5, <2>7, <2>8
  <2> QED BY <2>9 DEF Contents, f, r, s
<1> QED BY <1>1, <1>2, <1>3

\* The invariant holds in every reachable state.
THEOREM PinCorrect ==
    ASSUME Settings
    PROVE  Spec => []PinInv
<1>1. Init => PinInv
  BY PinInit
<1>2. PinInv /\ [Next]_vars => PinInv'
  BY PinStep
<1> QED BY <1>1, <1>2, PTL DEF Spec

\* Whatever the GPU may sample is the frame that was composited, or the older
\* picture where its upload failed, and the source of an upload in flight stays.
THEOREM PixelsIntact ==
    ASSUME Settings
    PROVE  Spec => [](TypeOK /\ SampledIntact /\ StagingIntact)
<1>1. PinInv => TypeOK /\ SampledIntact /\ StagingIntact
  BY PinPromises
<1> QED BY <1>1, PinCorrect, PTL

\* The picture never goes back in time.
THEOREM PictureGoesForward ==
    ASSUME Settings
    PROVE  Spec => AirForward
<1>1. PinInv /\ [Next]_vars => [cur' # 0 => cur' >= cur /\ cur' >= seen]_vars
  BY PinStep
<1> QED BY <1>1, PinCorrect, PTL DEF Spec, AirForward

\* The order and the places, at the start.
LEMMA DropInit ==
    ASSUME Settings, Init
    PROVE  OrderOK /\ PlacesOK
<1>1. /\ frames = << >> /\ mailbox = << >> /\ feed = << >> /\ queue = {} /\ cur = 0
      /\ lastSubmit = [r \in Rings |-> [s \in AllSlots |-> 0]]
      /\ retention = [f \in Fifs |-> 0]
  BY DEF Init
<1>2. Range(<< >>) = {} /\ \A x \in Kept : x = 0
  BY <1>1 DEF Range, Kept
<1>3. Coming = {} /\ Shown = {}
  BY <1>1, <1>2 DEF Coming, Newer, Shown, Kept
<1>4. OrderOK
  BY <1>1, <1>3 DEF OrderOK
<1>5. PlacesOK
  BY <1>1 DEF PlacesOK, Published
<1> QED BY <1>4, <1>5

\* A frame is dropped only when the screen is that far behind, for any number of
\* slots that exceeds what is kept and retained.
THEOREM DropsMeanBehind ==
    ASSUME Settings, SlotsEnough
    PROVE  Spec => []DropMeansBehind
<1>1. Init => PinInv /\ OrderOK /\ PlacesOK
  BY PinInit, DropInit
<1>2. PinInv /\ OrderOK /\ PlacesOK /\ [Next]_vars => (PinInv /\ OrderOK /\ PlacesOK)'
  BY PinStep, OrderStep, PlacesStep
<1>3. PinInv /\ OrderOK /\ PlacesOK => DropMeansBehind
  BY DropPromise
<1> QED BY <1>1, <1>2, <1>3, PTL DEF Spec
==============================================================================
