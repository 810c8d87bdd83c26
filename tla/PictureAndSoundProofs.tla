------------------------ MODULE PictureAndSoundProofs ------------------------
(***************************************************************************)
(* What the run picture_and_sound checks on small instances, for every     *)
(* value of the constants.  Each part has an inductive invariant, that of  *)
(* the pins in UploadPinProofs.                                            *)
(*                                                                         *)
(* The synchroniser, for any window, slew, queue and sequence of           *)
(* timestamps: its queue is a contiguous run of arrivals that ends with    *)
(* the newest, so its size says which frames are in it; the wedge is       *)
(* strictly increasing and has, for every frame of the window, an entry as *)
(* late and as small.                                                      *)
(***************************************************************************)
EXTENDS PictureAndSound, FiniteSetTheorems, FunctionTheorems, TLAPS

PinP == INSTANCE UploadPinProofs WITH MaxFail <- 0
FaultP == INSTANCE UploadPinProofs WITH MaxFrames <- FaultFrames, MaxValue <- FaultValue

---------------------------------------------------------------------------
(* The synchroniser.                                                       *)

SyncSettings == Sync!SettingsAssumption /\ Sync!QueueAssumption /\ Sync!BoundsAssumption

Entries == [id : Nat, pts : Int, arr : Nat]
Delays == [id : Nat, delta : Int]
Delay(e) == [id |-> e.id, delta |-> e.arr - e.pts]

Schedulers ==
    [period : Nat, q : SUBSET Entries, wedge : SUBSET Delays, target : Int, applied : Int,
     valid : BOOLEAN, havePrev : BOOLEAN, lastPts : Int, presents : Nat, ctr : Sync!CounterType]

Limit == SyncFrames + Slack

\* The frames a .. b, each once.
Spans(q, a, b) ==
    /\ \A e \in q : e.id \in a .. b
    /\ \A i \in a .. b : \E e \in q : e.id = i
    /\ \A e, f \in q : e.id = f.id => e = f

\* A queue of the last of n frames, all after frame l, within the window R.
QueueOK(q, R, n, l) ==
    /\ q \in SUBSET Entries /\ IsFiniteSet(q) /\ Cardinality(q) <= Limit
    /\ Cardinality(q) <= n
    /\ Spans(q, n - Cardinality(q) + 1, n)
    /\ \A e \in q : e.id > l /\ Delay(e) \in R

\* A wedge over the window R after n frames.
WedgeOK(w, R, n) ==
    /\ w \subseteq R /\ R \in SUBSET Delays
    /\ \A r \in R : r.id \in 1 .. n /\ r.id + Window > n
    /\ \A r, s \in R : r.id = s.id => r = s
    /\ \A u, v \in w : u.id < v.id => u.delta < v.delta
    /\ \A r \in R : \E v \in w : v.id >= r.id /\ v.delta <= r.delta

Types ==
    /\ now \in Nat /\ arrivals \in Nat /\ uploadedTo \in 0 .. arrivals
    /\ fs \in Schedulers /\ fs.period \in Periods \cup {0}
    /\ base \in Sync!CounterType /\ reported \in Sync!CounterType
    /\ presented \subseteq 1 .. last /\ last \in 0 .. arrivals
    /\ flushed \in Nat

\* There is a schedule exactly when there is a scheduler that has seen a frame.
Anchor ==
    /\ fs.period = 0 => fs = Sync!NoSync
    /\ fs.period # 0 => fs.valid
    /\ Sync!AnchorIsWindowMin

Counts ==
    /\ Sync!EveryDropCounted
    /\ reported.slipDrops <= base.slipDrops + fs.ctr.slipDrops
    /\ reported.overflows <= base.overflows + fs.ctr.overflows
    /\ reported.resyncs <= base.resyncs + fs.ctr.resyncs

SyncInv ==
    /\ Types
    /\ QueueOK(fs.q, recent, arrivals, last)
    /\ WedgeOK(fs.wedge, recent, arrivals)
    /\ Anchor
    /\ Counts

------------------------------------------------------------------------------
(* Sets of frames *)

\* The synchroniser counts as the theorems about sets do.
LEMMA SameCount == \A S : Sync!Cardinality(S) = Cardinality(S)
BY DEF Sync!Cardinality, Cardinality

\* A set that is not empty has a member of least rank.
LEMMA LeastRank ==
    ASSUME NEW S, S # {}, NEW rank \in [S -> Nat]
    PROVE  \E x \in S : \A y \in S : rank[x] <= rank[y]
<1> DEFINE Upto == {0 .. rank[x] : x \in S}
           Less == StrictSubsetOrdering(Nat)
<1>1. PICK i \in Upto : \A j \in Upto : ~(<<j, i>> \in Less)
  <2>1. Upto \subseteq FiniteSubsetsOf(Nat) /\ Upto # {}
    <3>1. \A x \in S : 0 .. rank[x] \in SUBSET Nat /\ IsFiniteSet(0 .. rank[x])
      BY FS_Interval
    <3> QED BY <3>1 DEF FiniteSubsetsOf
  <2> HIDE DEF Upto, Less
  <2> QED BY <2>1, FS_StrictSubsetOrderingWellFounded, WFMin DEF Less
<1>2. PICK x \in S : i = 0 .. rank[x]
  BY <1>1
<1>3. ASSUME NEW y \in S, rank[y] < rank[x] PROVE FALSE
  <2>1. /\ 0 .. rank[y] \in SUBSET Nat /\ 0 .. rank[x] \in SUBSET Nat
        /\ 0 .. rank[y] \subseteq 0 .. rank[x]
        /\ rank[x] \in 0 .. rank[x] /\ rank[x] \notin 0 .. rank[y]
    BY <1>3
  <2>2. 0 .. rank[y] \in Upto /\ 0 .. rank[y] # 0 .. rank[x]
    BY <2>1
  <2>3. <<0 .. rank[y], 0 .. rank[x]>> \in Less
    BY <2>1, <2>2, Zenon DEF StrictSubsetOrdering
  <2> QED BY <1>1, <1>2, <2>2, <2>3
<1> QED BY <1>3

\* A set of frames, or of delays, has an oldest.
LEMMA OldestIs ==
    ASSUME NEW S, S # {}, \A e \in S : e.id \in Nat
    PROVE  Sync!Oldest(S) \in S /\ \A e \in S : Sync!Oldest(S).id <= e.id
<1> DEFINE rank == [e \in S |-> e.id]
<1>1. rank \in [S -> Nat]
  OBVIOUS
<1>2. \E x \in S : \A y \in S : rank[x] <= rank[y]
  <2> HIDE DEF rank
  <2> QED BY <1>1, LeastRank
<1>3. \E x \in S : \A y \in S : x.id <= y.id
  BY <1>2
<1> QED BY <1>3 DEF Sync!Oldest

\* A set of frames that have arrived has a newest.
LEMMA NewestIs ==
    ASSUME NEW S, S # {}, NEW n \in Nat, \A e \in S : e.id \in 0 .. n
    PROVE  Sync!Newest(S) \in S /\ \A e \in S : Sync!Newest(S).id >= e.id
<1> DEFINE rank == [e \in S |-> n - e.id]
<1>1. rank \in [S -> Nat]
  OBVIOUS
<1>2. \E x \in S : \A y \in S : rank[x] <= rank[y]
  <2> HIDE DEF rank
  <2> QED BY <1>1, LeastRank
<1>3. \E x \in S : \A y \in S : x.id >= y.id
  BY <1>2
<1> QED BY <1>3 DEF Sync!Newest

\* A contiguous run of frames has as many frames as numbers.
LEMMA SpanSize ==
    ASSUME NEW q, NEW a \in Int, NEW b \in Int, a <= b + 1, Spans(q, a, b)
    PROVE  IsFiniteSet(q) /\ Cardinality(q) = b - a + 1
<1> DEFINE f == [e \in q |-> e.id]
<1>1. f \in [q -> a .. b]
  BY DEF Spans
<1>2. f \in Injection(q, a .. b) /\ f \in Surjection(q, a .. b)
  <2>1. \A x, y \in q : f[x] = f[y] => x = y
    BY DEF Spans
  <2>2. \A i \in a .. b : \E e \in q : f[e] = i
    BY DEF Spans
  <2> HIDE DEF f
  <2> QED BY <1>1, <2>1, <2>2, Fun_IsInj, Fun_IsSurj
<1>3. IsFiniteSet(a .. b) /\ Cardinality(a .. b) = b - a + 1
  BY FS_Interval
<1> HIDE DEF f
<1> QED BY <1>1, <1>2, <1>3, FS_Injection

\* The frames of a queue after and before one of them.
Later(q, o) == {e \in q : e.id > o.id}
Earlier(q, o) == {e \in q : e.id < o.id}

\* Cut at one of its frames, a run leaves two runs.
LEMMA SpanCut ==
    ASSUME NEW q, NEW a \in Int, NEW b \in Int, Spans(q, a, b), NEW o \in q
    PROVE  /\ o.id \in a .. b
           /\ Spans(Later(q, o), o.id + 1, b) /\ Spans(Earlier(q, o), a, o.id - 1)
           /\ o.id = a => q \ {o} = Later(q, o)
BY DEF Spans, Later, Earlier

------------------------------------------------------------------------------
(* push *)

\* The window once a frame is in it.
Moved(R, e) == {r \in R : r.id + Window > e.id} \cup {Delay(e)}

\* The least delay of a window.
LeastDelay(t, R) ==
    t \in Int /\ (\E r \in R : r.delta = t) /\ \A r \in R : t <= r.delta

\* A queue with one more frame, and one without its oldest.
With(q, e) == q \cup {e}
Shorter(q) == q \ {Sync!Oldest(q)}

\* The queue has a limit, and the window is no shorter.
LEMMA LimitIsNat ==
    ASSUME SyncSettings
    PROVE  Window \in Nat \ {0} /\ Limit \in Nat \ {0} /\ Limit <= Window
BY DEF SyncSettings, Sync!SettingsAssumption, Sync!QueueAssumption, Limit

\* The wedge stays a wedge over the window, whatever delay comes in and whatever
\* frames leave, and its oldest entry is the least delay.
LEMMA WedgeStep ==
    ASSUME SyncSettings, NEW w, NEW R, NEW n \in Nat, WedgeOK(w, R, n),
           NEW e \in Entries, e.id = n + 1
    PROVE  /\ WedgeOK(Sync!Wedge(w, n + 1, e.arr - e.pts), Moved(R, e), n + 1)
           /\ LeastDelay(Sync!Oldest(Sync!Wedge(w, n + 1, e.arr - e.pts)).delta, Moved(R, e))
<1> DEFINE delta == e.arr - e.pts
           new == Delay(e)
           R2 == Moved(R, e)
           v == Sync!Wedge(w, n + 1, delta)
<1>0. /\ delta \in Int /\ new = [id |-> n + 1, delta |-> delta]
      /\ R2 = {r \in R : r.id + Window > n + 1} \cup {new}
  BY DEF Entries, Delay, Moved
<1> HIDE DEF delta, new, R2
<1>1. Window \in Nat \ {0}
  BY DEF SyncSettings, Sync!SettingsAssumption
<1>2. /\ w \subseteq R /\ R \in SUBSET Delays
      /\ \A r \in R : r.id \in 1 .. n /\ r.id + Window > n
      /\ \A r, s \in R : r.id = s.id => r = s
      /\ \A x, y \in w : x.id < y.id => x.delta < y.delta
      /\ \A r \in R : \E x \in w : x.id >= r.id /\ x.delta <= r.delta
  BY DEF WedgeOK
<1>3. v = {x \in w : x.id + Window > n + 1 /\ x.delta < delta} \cup {new}
  BY <1>0 DEF Sync!Wedge
<1>4. \A r \in R : r.id \in Nat /\ r.delta \in Int /\ r.id <= n
  BY <1>2 DEF Delays
<1>5. new.id = n + 1 /\ new.delta = delta /\ new \in Delays
  BY <1>0 DEF Delays
<1> HIDE DEF v
<1>6. v \subseteq R2 /\ R2 \in SUBSET Delays
  BY <1>0, <1>2, <1>3, <1>5
<1>7. \A r \in R2 : r.id \in 1 .. n + 1 /\ r.id + Window > n + 1 /\ r.delta \in Int
  BY <1>0, <1>1, <1>4, <1>5, <1>2
<1>8. \A r, s \in R2 : r.id = s.id => r = s
  BY <1>0, <1>2, <1>4, <1>5
<1>9. \A x, y \in v : x.id < y.id => x.delta < y.delta
  BY <1>0, <1>2, <1>3, <1>4, <1>5
<1>10. \A r \in R2 : \E x \in v : x.id >= r.id /\ x.delta <= r.delta
  <2> SUFFICES ASSUME NEW r \in R2 PROVE \E x \in v : x.id >= r.id /\ x.delta <= r.delta
    OBVIOUS
  <2>1. CASE r = new
    BY <1>0, <1>3, <1>5, <2>1
  <2>2. CASE r \in R /\ r.id + Window > n + 1
    <3>0. delta \in Int
      BY <1>0
    <3>1. PICK x \in w : x.id >= r.id /\ x.delta <= r.delta
      BY <1>2, <2>2
    <3>2. x.id \in Nat /\ x.delta \in Int /\ r.id \in Nat /\ r.delta \in Int /\ x.id <= n
      BY <1>2, <1>4, <2>2
    <3>3. CASE x.delta < delta
      <4>1. x \in v
        BY <1>1, <1>3, <2>2, <3>1, <3>2, <3>3
      <4> QED BY <3>1, <4>1
    <3>4. CASE ~(x.delta < delta)
      BY <1>3, <1>5, <3>0, <3>1, <3>2, <3>4
    <3> QED BY <3>3, <3>4
  <2> QED BY <1>0, <2>1, <2>2
<1>11. Sync!Oldest(v) \in v /\ \A x \in v : Sync!Oldest(v).id <= x.id
  <2>1. v # {} /\ \A x \in v : x.id \in Nat
    BY <1>3, <1>6, <1>7
  <2> QED BY <2>1, OldestIs
<1>12. \A r \in R2 : Sync!Oldest(v).delta <= r.delta
  <2> SUFFICES ASSUME NEW r \in R2 PROVE Sync!Oldest(v).delta <= r.delta
    OBVIOUS
  <2>1. PICK x \in v : x.id >= r.id /\ x.delta <= r.delta
    BY <1>10
  <2>2. /\ x \in R2 /\ Sync!Oldest(v) \in R2
        /\ x.delta \in Int /\ r.delta \in Int /\ Sync!Oldest(v).delta \in Int
        /\ x.id \in Int /\ Sync!Oldest(v).id \in Int
    BY <1>6, <1>7, <1>11
  <2>3. CASE Sync!Oldest(v).id = x.id
    BY <1>8, <2>1, <2>2, <2>3
  <2>4. CASE Sync!Oldest(v).id < x.id
    <3>1. Sync!Oldest(v).delta < x.delta
      BY <1>9, <1>11, <2>4
    <3> QED BY <2>1, <2>2, <3>1
  <2>5. Sync!Oldest(v).id <= x.id
    BY <1>11
  <2> QED BY <2>2, <2>3, <2>4, <2>5
<1>13. Sync!Oldest(v) \in R2 /\ Sync!Oldest(v).delta \in Int
  BY <1>6, <1>7, <1>11
<1>14. WedgeOK(v, R2, n + 1)
  BY <1>6, <1>7, <1>8, <1>9, <1>10 DEF WedgeOK
<1>15. LeastDelay(Sync!Oldest(v).delta, R2)
  BY <1>12, <1>13 DEF LeastDelay
<1> QED BY <1>14, <1>15 DEF v, delta, R2

\* With the new frame the queue is the run up to it; when it is too long it loses
\* the oldest.  What is queued is never older than the window: that is why its
\* limit must not exceed the window.
LEMMA EnqueueStep ==
    ASSUME SyncSettings, NEW q, NEW R, NEW n \in Nat, NEW l \in 0 .. n, QueueOK(q, R, n, l),
           NEW e \in Entries, e.id = n + 1
    PROVE  /\ Cardinality(With(q, e)) = Cardinality(q) + 1
           /\ Cardinality(With(q, e)) <= Limit => QueueOK(With(q, e), Moved(R, e), n + 1, l)
           /\ Cardinality(With(q, e)) > Limit =>
                 /\ QueueOK(Shorter(With(q, e)), Moved(R, e), n + 1, l)
                 /\ Cardinality(Shorter(With(q, e))) = Cardinality(q)
<1> DEFINE c == Cardinality(q)
           p == q \cup {e}
           o == Sync!Oldest(p)
           R2 == Moved(R, e)
<1>0. R2 = {r \in R : r.id + Window > n + 1} \cup {Delay(e)}
  BY DEF Moved
<1> HIDE DEF R2
<1>1. /\ q \in SUBSET Entries /\ IsFiniteSet(q) /\ c <= Limit /\ c <= n
      /\ Spans(q, n - c + 1, n)
      /\ \A f \in q : f.id > l /\ Delay(f) \in R
  BY DEF QueueOK
<1>2. c \in Nat /\ \A f \in q : f.id \in Nat /\ f.id <= n /\ f.id >= n - c + 1
  BY <1>1, FS_CardinalityType DEF Entries, Spans
<1>3. e \notin q
  BY <1>2
<1>4. IsFiniteSet(p) /\ Cardinality(p) = c + 1
  BY <1>1, <1>3, FS_AddElement
<1>5. Window \in Nat \ {0} /\ Limit \in Nat \ {0} /\ Limit <= Window
  BY LimitIsNat
<1> HIDE DEF c
<1>6. Spans(p, n - c + 1, n + 1)
  BY <1>1, <1>2 DEF Spans
<1>7. \A f \in p : f.id > l
  BY <1>1, <1>2
<1>8. \A f \in p : f.id > n - Limit + 1 => Delay(f) \in R2
  <2> SUFFICES ASSUME NEW f \in q, f.id > n - Limit + 1 PROVE Delay(f) \in R2
    BY <1>0
  <2>1. Delay(f) \in R /\ Delay(f).id = f.id
    BY <1>1 DEF Delay
  <2>2. f.id + Window > n + 1
    BY <1>2, <1>5
  <2> QED BY <1>0, <2>1, <2>2
<1>9. ASSUME Cardinality(p) <= Limit
      PROVE  QueueOK(p, R2, n + 1, l)
  <2>1. n + 1 - (c + 1) + 1 = n - c + 1 /\ c + 1 <= n + 1
    BY <1>1, <1>2
  <2>2. \A f \in p : f.id > n - Limit + 1
    BY <1>2, <1>4, <1>5, <1>9
  <2>3. \A f \in p : f.id > l /\ Delay(f) \in R2
    BY <1>7, <1>8, <2>2
  <2>4. p \in SUBSET Entries
    BY <1>1
  <2> HIDE DEF o, p
  <2>5. (n + 1) - Cardinality(p) + 1 = n - c + 1 /\ Cardinality(p) <= n + 1
    BY <1>4, <2>1, <1>2
  <2>6. Spans(p, (n + 1) - Cardinality(p) + 1, n + 1)
    BY <1>6, <2>5
  <2> QED BY <1>4, <1>9, <2>3, <2>4, <2>5, <2>6 DEF QueueOK
<1>10. ASSUME Cardinality(p) > Limit
       PROVE  QueueOK(p \ {o}, R2, n + 1, l) /\ Cardinality(p \ {o}) = c
  <2>1. p # {} /\ \A f \in p : f.id \in Nat
    BY <1>2
  <2>2. o \in p /\ \A f \in p : o.id <= f.id
    <3> HIDE DEF p
    <3> QED BY <2>1, OldestIs
  <2>3. c = Limit
    BY <1>1, <1>2, <1>4, <1>5, <1>10
  <2> HIDE DEF o, p
  <2>4. n - c + 1 \in n - c + 1 .. n + 1
    BY <1>2
  <2>5. PICK f \in p : f.id = n - c + 1
    BY <1>6, <2>4 DEF Spans
  <2>6. o.id = n - c + 1
    <3>1. o.id >= n - c + 1 /\ o.id \in Int
      BY <1>6, <2>1, <2>2 DEF Spans
    <3>2. o.id <= n - c + 1
      BY <2>2, <2>5
    <3> QED BY <1>2, <3>1, <3>2
  <2>7. IsFiniteSet(p \ {o}) /\ Cardinality(p \ {o}) = c
    <3>1. IsFiniteSet(p \ {o}) /\ Cardinality(p \ {o}) = Cardinality(p) - 1
      BY <1>4, <2>2, FS_RemoveElement
    <3> QED BY <1>2, <1>4, <3>1
  <2>8. Spans(p \ {o}, n + 1 - c + 1, n + 1)
    <3> DEFINE a == n - c + 1
    <3>1. a \in Int /\ n + 1 \in Int /\ a + 1 = n + 1 - c + 1
      BY <1>2
    <3>2. Spans(p, a, n + 1) /\ a \in a .. n + 1 /\ o.id = a
      BY <1>6, <2>4, <2>6
    <3> HIDE DEF a
    <3>3. p \ {o} = Later(p, o) /\ Spans(Later(p, o), a + 1, n + 1)
      BY <2>2, <3>1, <3>2, SpanCut
    <3> QED BY <3>1, <3>3
  <2>9. \A g \in p \ {o} : g.id > l /\ Delay(g) \in R2
    <3>1. \A g \in p \ {o} : g.id >= n + 1 - c + 1 /\ g.id \in Int
      BY <2>8, <2>1 DEF Spans
    <3>2. \A g \in p \ {o} : g.id > n - Limit + 1
      BY <1>2, <2>3, <3>1
    <3> QED BY <1>7, <1>8, <3>2
  <2>10. p \ {o} \in SUBSET Entries
    BY <1>1 DEF p
  <2> QED BY <1>1, <1>2, <2>7, <2>8, <2>9, <2>10 DEF QueueOK
<1> QED BY <1>4, <1>9, <1>10 DEF c, R2, With, Shorter

\* Taking a frame leaves the run after it; what is not left was taken or is older.
LEMMA TakeStep ==
    ASSUME SyncSettings, NEW q, NEW R, NEW n \in Nat, NEW l \in 0 .. n, QueueOK(q, R, n, l),
           NEW take \in q
    PROVE  /\ take.id \in l + 1 .. n
           /\ QueueOK(Later(q, take), R, n, take.id)
           /\ Cardinality(Earlier(q, take)) \in Nat /\ Cardinality(Later(q, take)) \in Nat
           /\ Cardinality(q) = Cardinality(Later(q, take)) + 1 + Cardinality(Earlier(q, take))
<1> DEFINE c == Cardinality(q)
           i == take.id
<1>1. /\ q \in SUBSET Entries /\ IsFiniteSet(q) /\ c <= Limit /\ c <= n
      /\ Spans(q, n - c + 1, n)
      /\ \A f \in q : f.id > l /\ Delay(f) \in R
  BY DEF QueueOK
<1>2. c \in Nat
  BY <1>1, FS_CardinalityType
<1> HIDE DEF c
<1>3. n - c + 1 \in Int /\ n \in Int
  BY <1>2
<1>4. /\ i \in n - c + 1 .. n
      /\ Spans(Later(q, take), i + 1, n) /\ Spans(Earlier(q, take), n - c + 1, i - 1)
  BY <1>1, <1>3, SpanCut
<1>5. i \in Nat /\ i > l
  BY <1>1 DEF Entries
<1> HIDE DEF i
<1>6. IsFiniteSet(Later(q, take)) /\ Cardinality(Later(q, take)) = n - i
  <2>1. i + 1 <= n + 1 /\ i + 1 \in Int /\ n \in Int
    BY <1>4, <1>5
  <2>2. IsFiniteSet(Later(q, take)) /\ Cardinality(Later(q, take)) = n - (i + 1) + 1
    BY <1>4, <2>1, SpanSize
  <2> QED BY <1>5, <2>2
<1>7. Cardinality(Earlier(q, take)) = i - 1 - (n - c + 1) + 1
  <2>1. n - c + 1 <= i - 1 + 1 /\ i - 1 \in Int
    BY <1>2, <1>4, <1>5
  <2> QED BY <1>3, <1>4, <2>1, SpanSize
<1>8. QueueOK(Later(q, take), R, n, i)
  <2> DEFINE p == Later(q, take)
  <2>1. p \in SUBSET Entries /\ \A e \in p : e.id > i /\ Delay(e) \in R
    BY <1>1 DEF Later, i
  <2> HIDE DEF p
  <2>2. n - Cardinality(p) + 1 = i + 1 /\ Cardinality(p) <= n /\ Cardinality(p) <= c
    BY <1>2, <1>4, <1>5, <1>6 DEF p
  <2>3. Cardinality(p) <= Limit
    BY <1>1, <1>2, <1>5, <1>6, <2>2, LimitIsNat DEF p
  <2>4. Spans(p, n - Cardinality(p) + 1, n)
    BY <1>4, <2>2 DEF p
  <2>5. IsFiniteSet(p)
    BY <1>6 DEF p
  <2>6. QueueOK(p, R, n, i)
    BY <2>1, <2>2, <2>3, <2>4, <2>5, Zenon DEF QueueOK
  <2> QED BY <2>6 DEF p
<1>9. i \in l + 1 .. n
  BY <1>4, <1>5
<1>10. n - i \in Nat /\ i - 1 - (n - c + 1) + 1 \in Nat
       /\ c = n - i + 1 + (i - 1 - (n - c + 1) + 1)
  BY <1>2, <1>4, <1>5
<1> QED BY <1>6, <1>7, <1>8, <1>9, <1>10 DEF c, i

\* A scheduler that has seen nothing since it was reset.
LEMMA NothingYet ==
    ASSUME SyncSettings, NEW n \in Nat, NEW l \in 0 .. n
    PROVE  QueueOK({}, {}, n, l) /\ WedgeOK({}, {}, n)
<1>1. IsFiniteSet({}) /\ Cardinality({}) = 0 /\ 0 <= Limit
  BY FS_EmptySet, LimitIsNat
<1>2. Spans({}, n - 0 + 1, n)
  BY DEF Spans
<1> QED BY <1>1, <1>2 DEF QueueOK, WedgeOK

\* The fields of a scheduler that is made, and of one that is resynced.
LEMMA FreshIs ==
    ASSUME NEW p \in Nat
    PROVE  /\ Sync!Fresh(p) \in Schedulers /\ Sync!Fresh(p).period = p /\ Sync!Fresh(p).q = {}
           /\ Sync!Fresh(p).wedge = {} /\ Sync!Fresh(p).valid = FALSE /\ Sync!Fresh(p).havePrev = FALSE
           /\ Sync!Fresh(p).ctr = Sync!Zero /\ Sync!Fresh(p).applied = 0 /\ Sync!Fresh(p).target = 0
BY DEF Sync!Fresh, Schedulers, Sync!Zero, Sync!CounterType

\* A scheduler after a resync: empty, and the resync is counted.
LEMMA ResyncedIs ==
    ASSUME NEW s \in Schedulers
    PROVE  /\ Sync!Resynced(s) \in Schedulers /\ Sync!Resynced(s).period = s.period
           /\ Sync!Resynced(s).q = {} /\ Sync!Resynced(s).wedge = {} /\ Sync!Resynced(s).valid = FALSE
           /\ Sync!Resynced(s).ctr.slipDrops = s.ctr.slipDrops
           /\ Sync!Resynced(s).ctr.overflows = s.ctr.overflows
           /\ Sync!Resynced(s).ctr.resyncs = s.ctr.resyncs + 1
<1>1. s.ctr \in Sync!CounterType
  BY DEF Schedulers
<1>2. [s.ctr EXCEPT !.resyncs = @ + 1] \in Sync!CounterType
  BY <1>1 DEF Sync!CounterType
<1>3. Sync!Resynced(s).ctr = [s.ctr EXCEPT !.resyncs = @ + 1]
  BY DEF Sync!Resynced, Schedulers
<1> QED BY <1>1, <1>2, <1>3 DEF Sync!Resynced, Schedulers, Sync!CounterType

\* What a new frame does to the queue.
LEMMA EnqueuedIs ==
    ASSUME NEW s \in Schedulers, NEW e \in Entries
    PROVE  /\ Sync!Enqueued(s, e) \in Schedulers
           /\ Cardinality(With(s.q, e)) <= Limit =>
                 /\ Sync!Enqueued(s, e).q = With(s.q, e)
                 /\ Sync!Enqueued(s, e).ctr.overflows = s.ctr.overflows
           /\ ~(Cardinality(With(s.q, e)) <= Limit) =>
                 /\ Sync!Enqueued(s, e).q = Shorter(With(s.q, e))
                 /\ Sync!Enqueued(s, e).ctr.overflows = s.ctr.overflows + 1
           /\ Sync!Enqueued(s, e).ctr.slipDrops = s.ctr.slipDrops
           /\ Sync!Enqueued(s, e).ctr.resyncs = s.ctr.resyncs
           /\ Sync!Enqueued(s, e).wedge = s.wedge /\ Sync!Enqueued(s, e).target = s.target
           /\ Sync!Enqueued(s, e).valid = s.valid /\ Sync!Enqueued(s, e).applied = s.applied
           /\ Sync!Enqueued(s, e).period = s.period /\ Sync!Enqueued(s, e).presents = s.presents
<1> USE DEF With, Shorter
<1> DEFINE q == s.q \cup {e}
<1>1. s.ctr \in Sync!CounterType /\ q \in SUBSET Entries
  BY DEF Schedulers
<1>2. CASE Cardinality(q) <= Limit
  <2>1. Sync!Enqueued(s, e) = [s EXCEPT !.q = q]
    BY <1>2, SameCount DEF Sync!Enqueued, Limit
  <2> HIDE DEF q
  <2> QED BY <1>1, <1>2, <2>1 DEF Schedulers, Sync!CounterType, q
<1>3. CASE ~(Cardinality(q) <= Limit)
  <2> DEFINE ctr == [s.ctr EXCEPT !.overflows = @ + 1]
  <2>1. Sync!Enqueued(s, e) = [s EXCEPT !.q = q \ {Sync!Oldest(q)}, !.ctr = ctr]
    BY <1>3, SameCount DEF Sync!Enqueued, Limit, Schedulers
  <2>2. ctr \in Sync!CounterType /\ ctr.overflows = s.ctr.overflows + 1
        /\ ctr.slipDrops = s.ctr.slipDrops /\ ctr.resyncs = s.ctr.resyncs
    BY <1>1 DEF Sync!CounterType
  <2> HIDE DEF ctr
  <2> QED BY <1>1, <1>3, <2>1, <2>2 DEF Schedulers
<1> QED BY <1>2, <1>3

\* What a frame makes of the scheduler s: r, over the window M, after n frames.
TakesIn(s, r, M, n, l) ==
    /\ r \in Schedulers /\ r.valid = TRUE
    /\ r.period = s.period /\ r.presents = s.presents
    /\ QueueOK(r.q, M, n, l) /\ WedgeOK(r.wedge, M, n)
    /\ LeastDelay(r.target, M)
    /\ s.valid => r.applied = s.applied
    /\ r.ctr.slipDrops = s.ctr.slipDrops /\ r.ctr.resyncs = s.ctr.resyncs
    /\ r.ctr.overflows \in s.ctr.overflows .. s.ctr.overflows + 1
    /\ Cardinality(r.q) + r.ctr.overflows = Cardinality(s.q) + 1 + s.ctr.overflows

\* A frame is queued and measured: queue and wedge stay what they are, the anchor
\* is the least delay of the window, and a frame that finds no room is counted.
LEMMA PushedIs ==
    ASSUME SyncSettings, NEW s \in Schedulers, NEW R, NEW n \in Nat, NEW l \in 0 .. n,
           QueueOK(s.q, R, n, l), WedgeOK(s.wedge, R, n),
           NEW e \in Entries, e.id = n + 1
    PROVE  TakesIn(s, Sync!Pushed(s, e), Moved(R, e), n + 1, l)
<1> DEFINE r == Sync!Pushed(s, e)
           R2 == Moved(R, e)
           stamped == [s EXCEPT !.lastPts = e.pts, !.havePrev = TRUE]
           delta == e.arr - e.pts
           a == Sync!Anchored(stamped, e.id, delta)
           w == Sync!Wedge(s.wedge, n + 1, delta)
           q == With(s.q, e)
<1>1. e.pts \in Int /\ e.arr \in Nat /\ delta \in Int
  BY DEF Entries
<1>2. /\ stamped \in Schedulers /\ stamped.wedge = s.wedge /\ stamped.valid = s.valid
      /\ stamped.applied = s.applied /\ stamped.q = s.q /\ stamped.period = s.period
      /\ stamped.presents = s.presents /\ stamped.ctr = s.ctr
  BY <1>1 DEF Schedulers
<1>3. Delay(e) = [id |-> n + 1, delta |-> delta]
  BY DEF Delay
<1>4. r = Sync!Enqueued(a, e)
  BY DEF Sync!Pushed
<1> HIDE DEF stamped, delta, r
<1>5. WedgeOK(w, R2, n + 1) /\ LeastDelay(Sync!Oldest(w).delta, R2) /\ Sync!Oldest(w).delta \in Int
  <2>1. /\ WedgeOK(Sync!Wedge(s.wedge, n + 1, e.arr - e.pts), Moved(R, e), n + 1)
        /\ LeastDelay(Sync!Oldest(Sync!Wedge(s.wedge, n + 1, e.arr - e.pts)).delta, Moved(R, e))
    BY WedgeStep
  <2> QED BY <2>1 DEF LeastDelay, delta
<1>6. w \subseteq Delays /\ w = Sync!Wedge(stamped.wedge, e.id, delta)
  BY <1>2, <1>5 DEF WedgeOK
<1> HIDE DEF w
<1>7. /\ a \in Schedulers
      /\ a.wedge = w /\ a.target = Sync!Oldest(w).delta /\ a.valid = TRUE
      /\ a.applied = IF s.valid THEN s.applied ELSE Sync!Oldest(w).delta
      /\ a.q = s.q /\ a.period = s.period /\ a.presents = s.presents /\ a.ctr = s.ctr
  <2> DEFINE t == Sync!Oldest(w).delta
  <2>1. a = [stamped EXCEPT !.wedge = w, !.target = t, !.valid = TRUE,
                            !.applied = IF stamped.valid THEN @ ELSE t]
    BY <1>6 DEF Sync!Anchored
  <2>2. /\ stamped.applied \in Int /\ t \in Int /\ w \subseteq Delays
        /\ (IF stamped.valid THEN stamped.applied ELSE t) \in Int
    BY <1>2, <1>5, <1>6 DEF Schedulers
  <2> HIDE DEF a, t
  <2>3. /\ a \in Schedulers
        /\ a.wedge = w /\ a.target = t /\ a.valid = TRUE
        /\ a.applied = IF stamped.valid THEN stamped.applied ELSE t
        /\ a.q = stamped.q /\ a.period = stamped.period /\ a.presents = stamped.presents
        /\ a.ctr = stamped.ctr
    BY <1>2, <2>1, <2>2 DEF Schedulers
  <2> QED BY <1>2, <2>3 DEF t
<1> HIDE DEF a
<1>9. /\ Cardinality(q) = Cardinality(s.q) + 1
      /\ Cardinality(q) <= Limit => QueueOK(q, R2, n + 1, l)
      /\ Cardinality(q) > Limit => /\ QueueOK(Shorter(q), R2, n + 1, l)
                                   /\ Cardinality(Shorter(q)) = Cardinality(s.q)
  BY EnqueueStep
<1>10. /\ r \in Schedulers
       /\ Cardinality(q) <= Limit => r.q = q /\ r.ctr.overflows = a.ctr.overflows
       /\ ~(Cardinality(q) <= Limit) => /\ r.q = Shorter(q)
                                        /\ r.ctr.overflows = a.ctr.overflows + 1
       /\ r.ctr.slipDrops = a.ctr.slipDrops /\ r.ctr.resyncs = a.ctr.resyncs
       /\ r.wedge = a.wedge /\ r.target = a.target /\ r.valid = a.valid
       /\ r.applied = a.applied /\ r.period = a.period /\ r.presents = a.presents
  BY <1>4, <1>7, EnqueuedIs
<1> HIDE DEF q
<1>11. s.ctr.overflows \in Nat /\ Cardinality(s.q) \in Nat /\ Limit \in Nat
  BY LimitIsNat, FS_CardinalityType DEF Schedulers, Sync!CounterType, QueueOK
<1>12. /\ QueueOK(r.q, R2, n + 1, l)
       /\ Cardinality(r.q) + r.ctr.overflows = Cardinality(s.q) + 1 + s.ctr.overflows
       /\ r.ctr.overflows \in s.ctr.overflows .. s.ctr.overflows + 1
  <2>1. CASE Cardinality(q) <= Limit
    BY <1>7, <1>9, <1>10, <1>11, <2>1
  <2>2. CASE Cardinality(q) > Limit
    <3>1. ~(Cardinality(q) <= Limit)
      BY <1>9, <1>11, <2>2
    <3> QED BY <1>7, <1>9, <1>10, <1>11, <2>2, <3>1
  <2> QED BY <1>9, <1>11, <2>1, <2>2
<1>13. TakesIn(s, r, R2, n + 1, l)
  BY <1>5, <1>7, <1>10, <1>12 DEF TakesIn
<1> QED BY <1>13 DEF r

------------------------------------------------------------------------------
(* Counters *)

\* Adding counters.
LEMMA SumIs ==
    ASSUME NEW a \in Sync!CounterType, NEW b \in Sync!CounterType
    PROVE  /\ Sync!Sum2(a, b) \in Sync!CounterType
           /\ Sync!Sum2(a, b).slipDrops = a.slipDrops + b.slipDrops
           /\ Sync!Sum2(a, b).overflows = a.overflows + b.overflows
           /\ Sync!Sum2(a, b).resyncs = a.resyncs + b.resyncs
<1>1. DOMAIN Sync!Zero = {"slipDrops", "overflows", "resyncs"}
  BY DEF Sync!Zero
<1>2. /\ a["slipDrops"] + b["slipDrops"] \in Nat /\ a["overflows"] + b["overflows"] \in Nat
      /\ a["resyncs"] + b["resyncs"] \in Nat
  BY DEF Sync!CounterType
<1> QED BY <1>1, <1>2 DEF Sync!Sum2, Sync!CounterType

\* What has been presented can be counted.
LEMMA PresentedFinite ==
    ASSUME Types
    PROVE  IsFiniteSet(presented) /\ Cardinality(presented) \in Nat
<1>1. presented \subseteq 1 .. last /\ 1 \in Int /\ last \in Int
  BY DEF Types
<1>2. IsFiniteSet(1 .. last)
  BY <1>1, FS_Interval
<1> QED BY <1>1, <1>2, FS_Subset, FS_CardinalityType

\* The counts as sums.
LEMMA CountedIs ==
    ASSUME Types
    PROVE  /\ Sync!EveryDropCounted <=>
                arrivals = Cardinality(fs.q) + Cardinality(presented) + flushed
                             + (base.slipDrops + fs.ctr.slipDrops)
                             + (base.overflows + fs.ctr.overflows)
           /\ Sync!Folded \in Sync!CounterType
           /\ Sync!Folded.slipDrops = base.slipDrops + fs.ctr.slipDrops
           /\ Sync!Folded.overflows = base.overflows + fs.ctr.overflows
           /\ Sync!Folded.resyncs = base.resyncs + fs.ctr.resyncs
<1>1. base \in Sync!CounterType /\ fs.ctr \in Sync!CounterType
  BY DEF Types, Schedulers
<1> QED BY <1>1, SumIs, SameCount DEF Sync!EveryDropCounted, Sync!Folded

CountsAreSums ==
    Sync!EveryDropCounted <=>
        arrivals = Cardinality(fs.q) + Cardinality(presented) + flushed
                     + (base.slipDrops + fs.ctr.slipDrops)
                     + (base.overflows + fs.ctr.overflows)

\* The counts of the next state are sums as well.
LEMMA CountedNext == Types' => CountsAreSums'
<1>1. Types => CountsAreSums
  BY CountedIs DEF CountsAreSums
<1> QED BY <1>1, PTL

------------------------------------------------------------------------------
(* The steps *)

\* A locked schedule is not stepped, the frame on air is not followed by an older
\* one, and no statistic goes back.
Steady ==
    /\ fs.presents >= LockPresents /\ fs'.ctr.resyncs = fs.ctr.resyncs
          /\ fs'.period = fs.period
       => fs'.applied - fs.applied \in -Slew .. Slew
    /\ last' # last => last' > last
    /\ \A c \in DOMAIN Sync!Zero : reported'[c] >= reported[c]

\* A frame is pushed: the scheduler it meets is the one in use, the one in use
\* after a resync, or a new one, and the queue of the old one is accounted for.
LEMMA PushStep ==
    ASSUME SyncSettings, SyncInv, NEW p \in Periods, NEW pts \in Int, NEW arr \in Nat,
           NEW jump \in BOOLEAN, Sync!Push(p, pts, arr, jump)
    PROVE  SyncInv' /\ Steady
<1> DEFINE s == Sync!Scheduler(p)
           cut == Sync!Discontinuous(s, pts, jump)
           e == [id |-> arrivals + 1, pts |-> pts, arr |-> arr]
           s0 == IF cut THEN Sync!Resynced(s) ELSE s
           R0 == IF cut \/ Sync!Renewed(p) THEN {} ELSE recent
           gone == IF cut \/ Sync!Renewed(p) THEN Cardinality(fs.q) ELSE 0
<1>1. /\ Types /\ QueueOK(fs.q, recent, arrivals, last) /\ WedgeOK(fs.wedge, recent, arrivals)
      /\ Anchor /\ Counts
  BY DEF SyncInv
<1>2. p \in Nat /\ p # 0 /\ Slew \in Nat
  BY DEF SyncSettings, Sync!SettingsAssumption
<1>3. /\ fs \in Schedulers /\ fs.ctr \in Sync!CounterType /\ arrivals \in Nat /\ last \in 0 .. arrivals
      /\ base \in Sync!CounterType /\ flushed \in Nat
  BY <1>1 DEF Types, Schedulers
<1>4. Cardinality(fs.q) \in Nat /\ Cardinality(presented) \in Nat
  BY <1>1, PresentedFinite, FS_CardinalityType DEF QueueOK
<1>5. /\ arrivals' = arrivals + 1
      /\ fs' = Sync!Pushed(s0, e)
      /\ base' = IF Sync!Renewed(p) THEN Sync!Folded ELSE base
      /\ flushed' = flushed + gone
      /\ UNCHANGED <<now, uploadedTo, reported, presented, last>>
  BY SameCount DEF Sync!Push
<1>6. recent' = Moved(R0, e)
  BY DEF Sync!Push, Moved, Delay
<1>7. e \in Entries /\ e.id = arrivals + 1
  BY <1>3 DEF Entries
\* The scheduler that takes the frame.
<1>8. /\ s0 \in Schedulers /\ s0.period = p
      /\ QueueOK(s0.q, R0, arrivals, last) /\ WedgeOK(s0.wedge, R0, arrivals)
      /\ Cardinality(s0.q) + gone = Cardinality(fs.q)
      /\ base'.slipDrops + s0.ctr.slipDrops = base.slipDrops + fs.ctr.slipDrops
      /\ base'.overflows + s0.ctr.overflows = base.overflows + fs.ctr.overflows
      /\ base'.resyncs + s0.ctr.resyncs >= base.resyncs + fs.ctr.resyncs
      /\ base' \in Sync!CounterType /\ s0.ctr \in Sync!CounterType /\ gone \in Nat
      /\ s0.ctr.resyncs = fs.ctr.resyncs /\ fs.period = p =>
           s0.valid /\ s0.applied = fs.applied
  <2>1. QueueOK({}, {}, arrivals, last) /\ WedgeOK({}, {}, arrivals) /\ Cardinality({}) = 0
    BY <1>3, NothingYet, FS_EmptySet
  <2>2. /\ Sync!Folded \in Sync!CounterType
        /\ Sync!Folded.slipDrops = base.slipDrops + fs.ctr.slipDrops
        /\ Sync!Folded.overflows = base.overflows + fs.ctr.overflows
        /\ Sync!Folded.resyncs = base.resyncs + fs.ctr.resyncs
    BY <1>1, CountedIs
  <2>3. /\ fs.ctr.slipDrops \in Nat /\ fs.ctr.overflows \in Nat /\ fs.ctr.resyncs \in Nat
        /\ base.slipDrops \in Nat /\ base.overflows \in Nat /\ base.resyncs \in Nat
    BY <1>3 DEF Sync!CounterType
  <2>4. CASE Sync!Renewed(p)
    <3>1. /\ Sync!Fresh(p) \in Schedulers /\ Sync!Fresh(p).period = p /\ Sync!Fresh(p).q = {}
          /\ Sync!Fresh(p).wedge = {} /\ Sync!Fresh(p).valid = FALSE /\ Sync!Fresh(p).havePrev = FALSE
          /\ Sync!Fresh(p).ctr = Sync!Zero
      BY <1>2, FreshIs
    <3>2. s0 = Sync!Fresh(p) /\ R0 = {} /\ gone = Cardinality(fs.q) /\ base' = Sync!Folded
      BY <1>5, <2>4, <3>1 DEF Sync!Scheduler, Sync!Discontinuous
    <3>3. Sync!Zero \in Sync!CounterType /\ Sync!Zero.slipDrops = 0 /\ Sync!Zero.overflows = 0 /\ Sync!Zero.resyncs = 0
      BY DEF Sync!Zero, Sync!CounterType
    <3>4. fs.period # p
      BY <2>4 DEF Sync!Renewed
    <3> HIDE DEF s0, R0, gone
    <3>5. /\ s0 \in Schedulers /\ s0.period = p /\ s0.q = {} /\ s0.wedge = {} /\ s0.ctr = Sync!Zero
      BY <3>1, <3>2
    <3>6. QueueOK(s0.q, R0, arrivals, last) /\ WedgeOK(s0.wedge, R0, arrivals)
      BY <2>1, <3>2, <3>5
    <3>7. Cardinality(s0.q) = 0 /\ Cardinality(s0.q) + gone = Cardinality(fs.q) /\ gone \in Nat
      BY <1>4, <2>1, <3>2, <3>5
    <3>8. /\ base'.slipDrops + s0.ctr.slipDrops = base.slipDrops + fs.ctr.slipDrops
          /\ base'.overflows + s0.ctr.overflows = base.overflows + fs.ctr.overflows
          /\ base'.resyncs + s0.ctr.resyncs >= base.resyncs + fs.ctr.resyncs
          /\ base' \in Sync!CounterType /\ s0.ctr \in Sync!CounterType
      BY <2>2, <2>3, <3>2, <3>3, <3>5
    <3> QED BY <3>4, <3>5, <3>6, <3>7, <3>8
  <2>5. CASE ~Sync!Renewed(p) /\ cut
    <3>1. s0 = Sync!Resynced(fs) /\ R0 = {} /\ gone = Cardinality(fs.q) /\ base' = base
      BY <1>5, <2>5 DEF Sync!Scheduler
    <3>2. /\ Sync!Resynced(fs) \in Schedulers /\ Sync!Resynced(fs).period = fs.period
          /\ Sync!Resynced(fs).q = {} /\ Sync!Resynced(fs).wedge = {}
          /\ Sync!Resynced(fs).ctr.slipDrops = fs.ctr.slipDrops
          /\ Sync!Resynced(fs).ctr.overflows = fs.ctr.overflows
          /\ Sync!Resynced(fs).ctr.resyncs = fs.ctr.resyncs + 1
      BY <1>3, ResyncedIs
    <3>3. Sync!Resynced(fs).ctr \in Sync!CounterType
      BY <3>2 DEF Schedulers
    <3>4. fs.period = p
      BY <2>5 DEF Sync!Renewed
    <3> HIDE DEF s0, R0, gone
    <3> QED BY <1>3, <1>4, <2>1, <2>3, <3>1, <3>2, <3>3, <3>4
  <2>6. CASE ~Sync!Renewed(p) /\ ~cut
    <3>1. s0 = fs /\ R0 = recent /\ gone = 0 /\ base' = base
      BY <1>5, <2>6 DEF Sync!Scheduler
    <3>2. fs.period = p /\ fs.valid
      BY <1>1, <1>2, <2>6 DEF Sync!Renewed, Anchor
    <3> HIDE DEF s0, R0, gone
    <3> QED BY <1>1, <1>3, <1>4, <2>3, <3>1, <3>2
  <2> QED BY <2>4, <2>5, <2>6
<1> HIDE DEF s, cut, s0, R0, gone, e
\* The scheduler with the frame in it.
<1>9. TakesIn(s0, fs', recent', arrivals + 1, last)
  <2>1. TakesIn(s0, Sync!Pushed(s0, e), Moved(R0, e), arrivals + 1, last)
    BY <1>3, <1>7, <1>8, PushedIs
  <2> QED BY <1>5, <1>6, <2>1
<1>10. Types'
  BY <1>1, <1>2, <1>3, <1>5, <1>8, <1>9 DEF Types, TakesIn
<1>11. QueueOK(fs.q, recent, arrivals, last)' /\ WedgeOK(fs.wedge, recent, arrivals)'
  BY <1>5, <1>9 DEF TakesIn, QueueOK, WedgeOK, Spans
<1>12. Anchor'
  BY <1>2, <1>8, <1>9 DEF TakesIn, Anchor, Sync!AnchorIsWindowMin, LeastDelay
<1>13. Counts'
  <2>1. /\ Cardinality(s0.q) \in Nat /\ Cardinality(fs'.q) \in Nat
        /\ s0.ctr.overflows \in Nat /\ s0.ctr.slipDrops \in Nat /\ s0.ctr.resyncs \in Nat
        /\ fs'.ctr.overflows \in Nat
        /\ base'.slipDrops \in Nat /\ base'.overflows \in Nat /\ base'.resyncs \in Nat
    <3>1. IsFiniteSet(s0.q) /\ IsFiniteSet(fs'.q)
      BY <1>8, <1>9 DEF TakesIn, QueueOK
    <3>2. Cardinality(s0.q) \in Nat /\ Cardinality(fs'.q) \in Nat
      BY <3>1, FS_CardinalityType
    <3>3. fs'.ctr \in Sync!CounterType
      BY <1>9 DEF TakesIn, Schedulers
    <3> QED BY <1>8, <3>2, <3>3 DEF Sync!CounterType
  <2>2. /\ fs.ctr.slipDrops \in Nat /\ fs.ctr.overflows \in Nat /\ fs.ctr.resyncs \in Nat
        /\ base.slipDrops \in Nat /\ base.overflows \in Nat /\ base.resyncs \in Nat
        /\ reported.slipDrops \in Nat /\ reported.overflows \in Nat /\ reported.resyncs \in Nat
    BY <1>1, <1>3 DEF Sync!CounterType, Types
  <2>3. arrivals = Cardinality(fs.q) + Cardinality(presented) + flushed
                     + (base.slipDrops + fs.ctr.slipDrops)
                     + (base.overflows + fs.ctr.overflows)
    BY <1>1, CountedIs DEF Counts
  <2>4. arrivals' = Cardinality(fs'.q) + Cardinality(presented') + flushed'
                     + (base'.slipDrops + fs'.ctr.slipDrops)
                     + (base'.overflows + fs'.ctr.overflows)
    <3> DEFINE c == Cardinality(fs.q)
               c0 == Cardinality(s0.q)
               c1 == Cardinality(fs'.q)
               shown == Cardinality(presented)
               x == base.slipDrops + fs.ctr.slipDrops
               y == base.overflows + fs.ctr.overflows
               slip == s0.ctr.slipDrops
               over == s0.ctr.overflows
               over1 == fs'.ctr.overflows
               bs == base'.slipDrops
               bo == base'.overflows
    <3>1. /\ c \in Nat /\ c0 \in Nat /\ c1 \in Nat /\ shown \in Nat /\ x \in Nat /\ y \in Nat
          /\ flushed \in Nat /\ arrivals \in Nat /\ gone \in Nat
          /\ slip \in Nat /\ over \in Nat /\ over1 \in Nat /\ bs \in Nat /\ bo \in Nat
      BY <1>3, <1>4, <1>8, <2>1, <2>2
    <3>2. /\ arrivals = c + shown + flushed + x + y /\ c0 + gone = c
          /\ c1 + over1 = c0 + 1 + over /\ bs + slip = x /\ bo + over = y
          /\ fs'.ctr.slipDrops = slip
      BY <1>8, <1>9, <2>3 DEF TakesIn
    <3>3. /\ arrivals' = arrivals + 1 /\ flushed' = flushed + gone
          /\ Cardinality(presented') = shown
      BY <1>5
    <3> HIDE DEF c, c0, c1, shown, x, y, slip, over, over1, bs, bo
    <3>4. arrivals + 1 = c1 + shown + (flushed + gone) + (bs + slip) + (bo + over1)
      BY <3>1, <3>2
    <3> QED BY <3>2, <3>3, <3>4 DEF c1, over1, bs, bo
  <2>5. Sync!EveryDropCounted'
    BY <1>10, <2>4, CountedNext DEF CountsAreSums
  <2>6. /\ reported'.slipDrops <= base'.slipDrops + fs'.ctr.slipDrops
        /\ reported'.overflows <= base'.overflows + fs'.ctr.overflows
        /\ reported'.resyncs <= base'.resyncs + fs'.ctr.resyncs
    BY <1>1, <1>5, <1>8, <1>9, <2>1, <2>2 DEF TakesIn, Counts
  <2> QED BY <2>5, <2>6 DEF Counts
<1>14. Steady
  <2>1. ASSUME fs'.ctr.resyncs = fs.ctr.resyncs, fs'.period = fs.period
        PROVE  fs'.applied - fs.applied \in -Slew .. Slew
    <3>1. fs'.applied = fs.applied
      BY <1>8, <1>9, <2>1 DEF TakesIn
    <3>2. fs.applied \in Int
      BY <1>3 DEF Schedulers
    <3> QED BY <1>2, <3>1, <3>2
  <2>2. \A c \in DOMAIN Sync!Zero : reported[c] \in Nat
    BY <1>1 DEF Types, Sync!CounterType, Sync!Zero
  <2> QED BY <1>5, <2>1, <2>2 DEF Steady
<1> QED BY <1>10, <1>11, <1>12, <1>13, <1>14 DEF SyncInv

\* Only the clock or the timeline of the uploads moves.
LEMMA IdleStep ==
    ASSUME SyncSettings, SyncInv, now' \in Nat, uploadedTo' \in 0 .. arrivals,
           UNCHANGED <<arrivals, fs, base, reported, presented, last, recent, flushed>>
    PROVE  SyncInv' /\ Steady
<1>1. Types'
  BY DEF SyncInv, Types
<1>2. QueueOK(fs.q, recent, arrivals, last)' /\ WedgeOK(fs.wedge, recent, arrivals)'
  BY DEF SyncInv, QueueOK, WedgeOK, Spans
<1>3. Anchor'
  BY DEF SyncInv, Anchor, Sync!AnchorIsWindowMin
<1>4. Counts'
  BY DEF SyncInv, Counts, Sync!EveryDropCounted, Sync!Folded
<1>5. Slew \in Nat /\ fs.applied \in Int /\ \A c \in DOMAIN Sync!Zero : reported[c] \in Nat
  BY DEF SyncSettings, Sync!SettingsAssumption, SyncInv, Types, Schedulers, Sync!CounterType, Sync!Zero
<1>6. Steady
  BY <1>5 DEF Steady
<1> QED BY <1>1, <1>2, <1>3, <1>4, <1>6 DEF SyncInv

\* The source goes, and the scheduler with it: its counters are folded and its
\* queue is flushed.
LEMMA ReplaceStep ==
    ASSUME SyncSettings, SyncInv, Sync!Replace
    PROVE  SyncInv' /\ Steady
<1>1. /\ Types /\ QueueOK(fs.q, recent, arrivals, last) /\ Anchor /\ Counts
      /\ fs \in Schedulers /\ fs.ctr \in Sync!CounterType /\ arrivals \in Nat
      /\ last \in 0 .. arrivals /\ base \in Sync!CounterType /\ flushed \in Nat
      /\ reported \in Sync!CounterType
  BY DEF SyncInv, Types, Schedulers
<1>2. /\ Sync!Folded \in Sync!CounterType
      /\ Sync!Folded.slipDrops = base.slipDrops + fs.ctr.slipDrops
      /\ Sync!Folded.overflows = base.overflows + fs.ctr.overflows
      /\ Sync!Folded.resyncs = base.resyncs + fs.ctr.resyncs
  BY <1>1, CountedIs
<1>3. /\ Sync!NoSync \in Schedulers /\ Sync!NoSync.period = 0 /\ Sync!NoSync.q = {} /\ Sync!NoSync.wedge = {}
      /\ Sync!NoSync.valid = FALSE /\ Sync!NoSync.ctr = Sync!Zero
  BY FreshIs DEF Sync!NoSync
<1>4. Sync!Zero \in Sync!CounterType /\ Sync!Zero.slipDrops = 0 /\ Sync!Zero.overflows = 0 /\ Sync!Zero.resyncs = 0
  BY DEF Sync!Zero, Sync!CounterType
<1>5. /\ base' = Sync!Folded /\ fs' = Sync!NoSync /\ recent' = {}
      /\ flushed' = flushed + Cardinality(fs.q)
      /\ UNCHANGED <<now, arrivals, uploadedTo, reported, presented, last>>
  BY SameCount DEF Sync!Replace
<1>6. IsFiniteSet(fs.q) /\ Cardinality(fs.q) \in Nat /\ Cardinality(presented) \in Nat
  BY <1>1, PresentedFinite, FS_CardinalityType DEF QueueOK
<1>7. Types'
  BY <1>1, <1>2, <1>3, <1>5, <1>6 DEF Types
<1>8. QueueOK(fs.q, recent, arrivals, last)' /\ WedgeOK(fs.wedge, recent, arrivals)'
  <2>1. QueueOK({}, {}, arrivals, last) /\ WedgeOK({}, {}, arrivals)
    BY <1>1, NothingYet
  <2>2. fs'.q = {} /\ fs'.wedge = {}
    BY <1>3, <1>5
  <2> QED BY <1>5, <2>1, <2>2 DEF QueueOK, WedgeOK, Spans
<1>9. Anchor'
  BY <1>3, <1>5 DEF Anchor, Sync!AnchorIsWindowMin
<1>10. Counts'
  <2>1. arrivals = Cardinality(fs.q) + Cardinality(presented) + flushed
                     + (base.slipDrops + fs.ctr.slipDrops)
                     + (base.overflows + fs.ctr.overflows)
    BY <1>1, CountedIs DEF Counts
  <2>2. Cardinality({}) = 0
    BY FS_EmptySet
  <2>3. arrivals' = Cardinality(fs'.q) + Cardinality(presented') + flushed'
                     + (base'.slipDrops + fs'.ctr.slipDrops)
                     + (base'.overflows + fs'.ctr.overflows)
    <3> DEFINE c == Cardinality(fs.q)
               shown == Cardinality(presented)
               x == base.slipDrops + fs.ctr.slipDrops
               y == base.overflows + fs.ctr.overflows
    <3>1. c \in Nat /\ shown \in Nat /\ x \in Nat /\ y \in Nat /\ flushed \in Nat
      BY <1>1, <1>6 DEF Sync!CounterType
    <3>2. /\ Cardinality(fs'.q) = 0 /\ Cardinality(presented') = shown
          /\ flushed' = flushed + c /\ arrivals' = arrivals
          /\ base'.slipDrops = x /\ base'.overflows = y
          /\ fs'.ctr.slipDrops = 0 /\ fs'.ctr.overflows = 0
      BY <1>2, <1>3, <1>4, <1>5, <2>2
    <3>3. arrivals = c + shown + flushed + x + y
      BY <2>1
    <3> HIDE DEF c, shown, x, y
    <3>4. arrivals = 0 + shown + (flushed + c) + (x + 0) + (y + 0)
      BY <3>1, <3>3
    <3> QED BY <3>2, <3>4
  <2>4. Sync!EveryDropCounted'
    BY <1>7, <2>3, CountedNext DEF CountsAreSums
  <2>5. /\ reported'.slipDrops <= base'.slipDrops + fs'.ctr.slipDrops
        /\ reported'.overflows <= base'.overflows + fs'.ctr.overflows
        /\ reported'.resyncs <= base'.resyncs + fs'.ctr.resyncs
    BY <1>1, <1>2, <1>3, <1>4, <1>5 DEF Counts, Sync!CounterType
  <2> QED BY <2>4, <2>5 DEF Counts
<1>11. Steady
  <2>1. ASSUME fs'.period = fs.period PROVE fs' = fs
    BY <1>1, <1>3, <1>5, <2>1 DEF Anchor
  <2>2. Slew \in Nat /\ fs.applied \in Int /\ \A c \in DOMAIN Sync!Zero : reported[c] \in Nat
    BY <1>1 DEF SyncSettings, Sync!SettingsAssumption, Schedulers, Sync!CounterType, Sync!Zero
  <2> QED BY <1>5, <2>1, <2>2 DEF Steady
<1> QED BY <1>7, <1>8, <1>9, <1>10, <1>11 DEF SyncInv

------------------------------------------------------------------------------
(* present *)

\* The anchor moves, and nothing else of the scheduler; once locked, by at most
\* Slew.
LEMMA SlewedIs ==
    ASSUME SyncSettings, NEW s \in Schedulers
    PROVE  /\ Sync!Slewed(s) \in Schedulers
           /\ Sync!Slewed(s).q = s.q /\ Sync!Slewed(s).wedge = s.wedge /\ Sync!Slewed(s).target = s.target
           /\ Sync!Slewed(s).valid = s.valid /\ Sync!Slewed(s).period = s.period
           /\ Sync!Slewed(s).presents = s.presents /\ Sync!Slewed(s).ctr = s.ctr
           /\ s.presents >= LockPresents => Sync!Slewed(s).applied - s.applied \in -Slew .. Slew
<1>1. /\ Slew \in Nat /\ LockPresents \in Nat /\ s.target \in Int /\ s.applied \in Int
      /\ s.presents \in Nat /\ s.valid \in BOOLEAN
  BY DEF SyncSettings, Sync!SettingsAssumption, Schedulers
<1>2. CASE ~s.valid
  <2>1. Sync!Slewed(s) = s
    BY <1>2 DEF Sync!Slewed
  <2> QED BY <1>1, <2>1
<1>3. CASE s.valid /\ s.presents < LockPresents
  <2>1. Sync!Slewed(s) = [s EXCEPT !.applied = s.target]
    BY <1>3 DEF Sync!Slewed
  <2>2. ~(s.presents >= LockPresents)
    BY <1>1, <1>3
  <2> QED BY <1>1, <2>1, <2>2 DEF Schedulers
<1>4. CASE s.valid /\ ~(s.presents < LockPresents)
  <2> DEFINE d == Sync!Clamp(s.target - s.applied, Slew)
             a == s.applied + d
  <2>1. Sync!Slewed(s) = [s EXCEPT !.applied = a]
    BY <1>4 DEF Sync!Slewed, Schedulers
  <2>2. d \in -Slew .. Slew
    BY <1>1 DEF Sync!Clamp
  <2> HIDE DEF d
  <2>3. a \in Int /\ a - s.applied \in -Slew .. Slew
    BY <1>1, <2>2
  <2> HIDE DEF a
  <2> QED BY <1>1, <2>1, <2>3 DEF Schedulers
<1> QED BY <1>2, <1>3, <1>4

\* The scheduler r that shows the frame take of s.
Shows(s, r, take) ==
    /\ r \in Schedulers /\ r.q = Later(s.q, take)
    /\ r.wedge = s.wedge /\ r.target = s.target /\ r.applied = s.applied
    /\ r.valid = s.valid /\ r.period = s.period
    /\ r.ctr.slipDrops = s.ctr.slipDrops + Cardinality(Earlier(s.q, take))
    /\ r.ctr.overflows = s.ctr.overflows /\ r.ctr.resyncs = s.ctr.resyncs

\* A frame goes on air and the older ones are counted as drops.
LEMMA ShownIs ==
    ASSUME NEW s \in Schedulers, NEW take, Cardinality(Earlier(s.q, take)) \in Nat
    PROVE  Shows(s, [s EXCEPT !.q = Sync!After(s, take), !.presents = @ + 1,
                       !.ctr.slipDrops = @ + Cardinality({f \in s.q : f.id < take.id})], take)
<1> DEFINE k == Cardinality(Earlier(s.q, take))
           q == Later(s.q, take)
           ctr == [s.ctr EXCEPT !.slipDrops = @ + k]
           n == s.presents + 1
           r == [s EXCEPT !.q = q, !.presents = n, !.ctr = ctr]
<1>1. Sync!After(s, take) = q /\ Cardinality({f \in s.q : f.id < take.id}) = k /\ q \in SUBSET Entries
  BY DEF Sync!After, Later, Earlier, Schedulers
<1>2. [s EXCEPT !.q = Sync!After(s, take), !.presents = @ + 1,
         !.ctr.slipDrops = @ + Cardinality({f \in s.q : f.id < take.id})] = r
  BY <1>1 DEF Schedulers
<1>3. ctr \in Sync!CounterType /\ ctr.slipDrops = s.ctr.slipDrops + k
      /\ ctr.overflows = s.ctr.overflows /\ ctr.resyncs = s.ctr.resyncs
  BY DEF Schedulers, Sync!CounterType
<1>4. n \in Nat
  BY DEF Schedulers
<1> HIDE DEF k, q, ctr, n
<1>5. /\ r \in Schedulers /\ r.q = q /\ r.ctr = ctr
      /\ r.wedge = s.wedge /\ r.target = s.target /\ r.applied = s.applied
      /\ r.valid = s.valid /\ r.period = s.period
  BY <1>1, <1>3, <1>4 DEF Schedulers
<1> HIDE DEF r
<1>6. Shows(s, r, take)
  BY <1>3, <1>5 DEF Shows, q, k
<1> QED BY <1>2, <1>6

\* Two triples of counters: none has gone down.
NoLess(a, b) ==
    a.slipDrops >= b.slipDrops /\ a.overflows >= b.overflows /\ a.resyncs >= b.resyncs

\* A tick with a scheduler: its anchor moves, and it shows the newest frame that
\* is due and uploaded, if there is one.
LEMMA PresentStep ==
    ASSUME SyncSettings, SyncInv, NEW e \in 1 .. MaxElapsed, Sync!Tick(e), fs # Sync!NoSync
    PROVE  SyncInv' /\ Steady
<1> DEFINE s == Sync!Slewed(fs)
           ready == {f \in Sync!Due(s, now + e) : f.id <= uploadedTo}
           take == Sync!Newest(ready)
<1>1. /\ Types /\ QueueOK(fs.q, recent, arrivals, last) /\ WedgeOK(fs.wedge, recent, arrivals)
      /\ Anchor /\ Counts
      /\ fs \in Schedulers /\ fs.ctr \in Sync!CounterType /\ arrivals \in Nat
      /\ last \in 0 .. arrivals /\ base \in Sync!CounterType /\ flushed \in Nat
      /\ reported \in Sync!CounterType /\ now \in Nat
  BY DEF SyncInv, Types, Schedulers
<1>2. /\ s \in Schedulers
      /\ s.q = fs.q /\ s.wedge = fs.wedge /\ s.target = fs.target
      /\ s.valid = fs.valid /\ s.period = fs.period
      /\ s.presents = fs.presents /\ s.ctr = fs.ctr
      /\ fs.presents >= LockPresents => s.applied - fs.applied \in -Slew .. Slew
  BY <1>1, SlewedIs
<1>3. /\ now' = now + e
      /\ fs' = IF ready = {} THEN s
               ELSE [s EXCEPT !.q = Sync!After(s, take), !.presents = @ + 1,
                       !.ctr.slipDrops = @ + Cardinality({f \in s.q : f.id < take.id})]
      /\ presented' = IF ready = {} THEN presented ELSE presented \cup {take.id}
      /\ last' = IF ready = {} THEN last ELSE take.id
      /\ reported' = Sync!Sum2(base, fs'.ctr)
      /\ UNCHANGED <<arrivals, uploadedTo, base, recent, flushed>>
  BY SameCount DEF Sync!Tick
<1>4. now' \in Nat
  BY <1>1, <1>3 DEF SyncSettings, Sync!BoundsAssumption
<1>5. /\ ready \subseteq fs.q /\ fs.q \in SUBSET Entries
  BY <1>1, <1>2 DEF Sync!Due, QueueOK
<1>6. IsFiniteSet(fs.q) /\ Cardinality(fs.q) \in Nat
      /\ IsFiniteSet(presented) /\ Cardinality(presented) \in Nat
  BY <1>1, PresentedFinite, FS_CardinalityType DEF QueueOK
\* What the two outcomes have in common.
<1>7. /\ fs' \in Schedulers
      /\ fs'.wedge = fs.wedge /\ fs'.target = fs.target /\ fs'.valid = fs.valid
      /\ fs'.period = fs.period /\ fs'.applied = s.applied
      /\ fs'.ctr.overflows = fs.ctr.overflows /\ fs'.ctr.resyncs = fs.ctr.resyncs
      /\ QueueOK(fs'.q, recent, arrivals, last')
      /\ presented' \subseteq 1 .. last' /\ last' \in last .. arrivals
      /\ Cardinality(fs'.q) \in Nat /\ fs'.ctr.slipDrops >= fs.ctr.slipDrops
      /\ Cardinality(fs'.q) + Cardinality(presented') + fs'.ctr.slipDrops
           = Cardinality(fs.q) + Cardinality(presented) + fs.ctr.slipDrops
  <2>1. CASE ready = {}
    <3>1. fs' = s /\ presented' = presented /\ last' = last
      BY <1>3, <2>1
    <3>2. presented \subseteq 1 .. last /\ fs.ctr.slipDrops \in Nat
      BY <1>1 DEF Types, Sync!CounterType
    <3> HIDE DEF s
    <3>3. last' \in last .. arrivals
      BY <1>1, <3>1
    <3> QED BY <1>1, <1>2, <1>6, <3>1, <3>2, <3>3
  <2>2. CASE ready # {}
    <3>1. take \in ready
      <4>1. \A f \in ready : f.id \in 0 .. arrivals
        BY <1>1, <1>5 DEF QueueOK, Spans, Entries
      <4> HIDE DEF ready
      <4> QED BY <1>1, <2>2, <4>1, NewestIs
    <3>2. fs' = [s EXCEPT !.q = Sync!After(s, take), !.presents = @ + 1,
                   !.ctr.slipDrops = @ + Cardinality({f \in s.q : f.id < take.id})]
      BY <1>3, <2>2
    <3>3. presented' = presented \cup {take.id} /\ last' = take.id
      BY <1>3, <2>2
    <3>4. take \in fs.q
      BY <1>5, <3>1
    <3> HIDE DEF s, ready, take
    <3>5. /\ take.id \in last + 1 .. arrivals
          /\ QueueOK(Later(fs.q, take), recent, arrivals, take.id)
          /\ Cardinality(Earlier(fs.q, take)) \in Nat /\ Cardinality(Later(fs.q, take)) \in Nat
          /\ Cardinality(fs.q) = Cardinality(Later(fs.q, take)) + 1 + Cardinality(Earlier(fs.q, take))
      BY <1>1, <3>4, TakeStep
    <3>6. Shows(s, fs', take)
      BY <1>2, <3>2, <3>5, ShownIs
    <3>7. /\ fs' \in Schedulers /\ fs'.q = Later(fs.q, take)
          /\ fs'.wedge = fs.wedge /\ fs'.target = fs.target /\ fs'.valid = fs.valid
          /\ fs'.period = fs.period /\ fs'.applied = s.applied
          /\ fs'.ctr.overflows = fs.ctr.overflows /\ fs'.ctr.resyncs = fs.ctr.resyncs
          /\ fs'.ctr.slipDrops = fs.ctr.slipDrops + Cardinality(Earlier(fs.q, take))
      BY <1>2, <3>6 DEF Shows
    <3>8. Cardinality(presented') = Cardinality(presented) + 1
      <4>1. presented \subseteq 1 .. last
        BY <1>1 DEF Types
      <4>2. take.id \notin presented
        BY <1>1, <3>5, <4>1
      <4> QED BY <1>6, <3>3, <4>2, FS_AddElement
    <3>9. presented' \subseteq 1 .. last' /\ last' \in last .. arrivals
      <4>1. presented \subseteq 1 .. last
        BY <1>1 DEF Types
      <4>2. take.id \in Nat /\ take.id > last /\ take.id <= arrivals /\ last \in Nat
        BY <1>1, <3>5
      <4>3. \A i \in presented : i \in 1 .. take.id
        BY <4>1, <4>2
      <4>4. take.id \in 1 .. take.id
        BY <4>2
      <4>5. last' \in last .. arrivals
        BY <1>1, <3>3, <4>2
      <4> QED BY <3>3, <4>3, <4>4, <4>5
    <3>10. /\ fs'.ctr.slipDrops >= fs.ctr.slipDrops
           /\ Cardinality(fs'.q) + Cardinality(presented') + fs'.ctr.slipDrops
                = Cardinality(fs.q) + Cardinality(presented) + fs.ctr.slipDrops
      <4> DEFINE c == Cardinality(fs.q)
                 k == Cardinality(Earlier(fs.q, take))
                 m == Cardinality(Later(fs.q, take))
                 shown == Cardinality(presented)
                 slip == fs.ctr.slipDrops
      <4>1. c \in Nat /\ k \in Nat /\ m \in Nat /\ shown \in Nat /\ slip \in Nat
        BY <1>1, <1>6, <3>5 DEF Sync!CounterType
      <4>2. c = m + 1 + k
        BY <3>5
      <4>3. Cardinality(fs'.q) = m /\ fs'.ctr.slipDrops = slip + k
            /\ Cardinality(presented') = shown + 1
        BY <3>7, <3>8
      <4> HIDE DEF c, k, m, shown, slip
      <4>4. m + (shown + 1) + (slip + k) = c + shown + slip /\ slip + k >= slip
        BY <4>1, <4>2
      <4> QED BY <4>3, <4>4 DEF c, shown, slip
    <3> QED BY <3>3, <3>5, <3>7, <3>9, <3>10
  <2> QED BY <2>1, <2>2
<1> HIDE DEF s, ready, take
<1>8. fs'.ctr \in Sync!CounterType /\ last' \in 0 .. arrivals
  BY <1>1, <1>7 DEF Schedulers
<1>9. /\ reported' \in Sync!CounterType
      /\ reported'.slipDrops = base.slipDrops + fs'.ctr.slipDrops
      /\ reported'.overflows = base.overflows + fs'.ctr.overflows
      /\ reported'.resyncs = base.resyncs + fs'.ctr.resyncs
  BY <1>1, <1>3, <1>8, SumIs
<1>10. Types'
  BY <1>1, <1>3, <1>4, <1>7, <1>8, <1>9 DEF Types
<1>11. QueueOK(fs.q, recent, arrivals, last)' /\ WedgeOK(fs.wedge, recent, arrivals)'
  <2>1. fs'.wedge = fs.wedge /\ UNCHANGED <<recent, arrivals>>
    BY <1>3, <1>7
  <2>2. WedgeOK(fs.wedge, recent, arrivals)'
    BY <1>1, <2>1 DEF WedgeOK
  <2> QED BY <1>7, <2>1, <2>2 DEF QueueOK, Spans
<1>12. Anchor'
  <2>1. fs.period # 0 /\ fs.valid
    BY <1>1 DEF Anchor
  <2> QED BY <1>1, <1>3, <1>7, <2>1 DEF Anchor, Sync!AnchorIsWindowMin
<1>13. Counts'
  <2>1. arrivals = Cardinality(fs.q) + Cardinality(presented) + flushed
                     + (base.slipDrops + fs.ctr.slipDrops)
                     + (base.overflows + fs.ctr.overflows)
    BY <1>1, CountedIs DEF Counts
  <2>2. Cardinality(presented') \in Nat
    <3>1. IsFiniteSet(1 .. last')
      BY <1>8, FS_Interval
    <3> QED BY <1>7, <3>1, FS_Subset, FS_CardinalityType
  <2>3. arrivals' = Cardinality(fs'.q) + Cardinality(presented') + flushed'
                     + (base'.slipDrops + fs'.ctr.slipDrops)
                     + (base'.overflows + fs'.ctr.overflows)
    <3> DEFINE c == Cardinality(fs.q)
               c1 == Cardinality(fs'.q)
               shown == Cardinality(presented)
               shown1 == Cardinality(presented')
               slip == fs.ctr.slipDrops
               slip1 == fs'.ctr.slipDrops
               b == base.slipDrops
               y == base.overflows + fs.ctr.overflows
    <3>1. /\ c \in Nat /\ c1 \in Nat /\ shown \in Nat /\ shown1 \in Nat
          /\ slip \in Nat /\ slip1 \in Nat /\ b \in Nat /\ y \in Nat /\ flushed \in Nat
      BY <1>1, <1>6, <1>7, <1>8, <2>2 DEF Sync!CounterType
    <3>2. /\ arrivals = c + shown + flushed + (b + slip) + y
          /\ c1 + shown1 + slip1 = c + shown + slip
      BY <1>7, <2>1
    <3>3. arrivals' = arrivals /\ flushed' = flushed /\ base' = base
          /\ fs'.ctr.overflows = fs.ctr.overflows
      BY <1>3, <1>7
    <3> HIDE DEF c, c1, shown, shown1, slip, slip1, b, y
    <3>4. arrivals = c1 + shown1 + flushed + (b + slip1) + y
      BY <3>1, <3>2
    <3> QED BY <3>3, <3>4 DEF c1, shown1, slip1, b, y
  <2>4. Sync!EveryDropCounted'
    BY <1>10, <2>3, CountedNext DEF CountsAreSums
  <2>5. /\ reported'.slipDrops <= base'.slipDrops + fs'.ctr.slipDrops
        /\ reported'.overflows <= base'.overflows + fs'.ctr.overflows
        /\ reported'.resyncs <= base'.resyncs + fs'.ctr.resyncs
    BY <1>3, <1>9 DEF Sync!CounterType
  <2> QED BY <2>4, <2>5 DEF Counts
<1>14. Steady
  <2>1. NoLess(reported', reported)
    BY <1>1, <1>7, <1>8, <1>9 DEF Counts, Sync!CounterType, NoLess
  <2>2. \A c \in DOMAIN Sync!Zero : reported'[c] >= reported[c]
    BY <2>1 DEF NoLess, Sync!Zero
  <2>3. last' # last => last' > last
    BY <1>1, <1>7
  <2>4. fs.presents >= LockPresents => fs'.applied - fs.applied \in -Slew .. Slew
    BY <1>2, <1>7
  <2> QED BY <2>2, <2>3, <2>4 DEF Steady
<1> QED BY <1>10, <1>11, <1>12, <1>13, <1>14 DEF SyncInv

------------------------------------------------------------------------------
(* The theorems *)

\* At the start there is no scheduler.
LEMMA SyncInit ==
    ASSUME SyncSettings, Sync!Init
    PROVE  SyncInv
<1>1. /\ Sync!NoSync \in Schedulers /\ Sync!NoSync.period = 0 /\ Sync!NoSync.q = {} /\ Sync!NoSync.wedge = {}
      /\ Sync!NoSync.valid = FALSE /\ Sync!NoSync.ctr = Sync!Zero
  BY FreshIs DEF Sync!NoSync
<1>2. Sync!Zero \in Sync!CounterType /\ Sync!Zero.slipDrops = 0 /\ Sync!Zero.overflows = 0 /\ Sync!Zero.resyncs = 0
  BY DEF Sync!Zero, Sync!CounterType
<1>3. QueueOK({}, {}, 0, 0) /\ WedgeOK({}, {}, 0)
  BY NothingYet
<1>4. Types
  BY <1>1, <1>2 DEF Sync!Init, Types
<1>5. Anchor
  BY <1>1 DEF Sync!Init, Anchor, Sync!AnchorIsWindowMin
<1>6. Counts
  <2>1. Cardinality({}) = 0
    BY FS_EmptySet
  <2>2. arrivals = Cardinality(fs.q) + Cardinality(presented) + flushed
                     + (base.slipDrops + fs.ctr.slipDrops)
                     + (base.overflows + fs.ctr.overflows)
    BY <1>1, <1>2, <2>1 DEF Sync!Init
  <2>3. Sync!EveryDropCounted
    BY <1>4, <2>2, CountedIs
  <2> QED BY <1>1, <1>2, <2>3 DEF Sync!Init, Counts
<1> QED BY <1>1, <1>3, <1>4, <1>5, <1>6 DEF Sync!Init, SyncInv

\* Every step keeps the invariant, and is steady.
LEMMA SyncStep ==
    ASSUME SyncSettings, SyncInv, [Sync!Next]_(Sync!vars)
    PROVE  SyncInv' /\ Steady
<1>1. /\ now \in Nat /\ arrivals \in Nat /\ uploadedTo \in 0 .. arrivals /\ fs.lastPts \in Int
  BY DEF SyncInv, Types, Schedulers
<1>2. ASSUME NEW p \in Periods, NEW d \in Steps, NEW arr \in now .. now + MaxLate,
             NEW jump \in BOOLEAN, Sync!Push(p, fs.lastPts + d, arr, jump)
      PROVE  SyncInv' /\ Steady
  <2> DEFINE pts == fs.lastPts + d
  <2>1. pts \in Int /\ arr \in Nat
    BY <1>1 DEF SyncSettings, Sync!SettingsAssumption, Sync!BoundsAssumption
  <2>2. Sync!Push(p, pts, arr, jump)
    BY <1>2
  <2> HIDE DEF pts
  <2> QED BY <2>1, <2>2, PushStep
<1>3. CASE Sync!Upload
  <2>1. /\ now' \in Nat /\ uploadedTo' \in 0 .. arrivals
        /\ UNCHANGED <<arrivals, fs, base, reported, presented, last, recent, flushed>>
    BY <1>1, <1>3 DEF Sync!Upload
  <2> QED BY <2>1, IdleStep
<1>4. ASSUME NEW e \in 1 .. MaxElapsed, Sync!Tick(e)
      PROVE  SyncInv' /\ Steady
  <2>1. CASE fs = Sync!NoSync
    <3>1. /\ now' \in Nat /\ uploadedTo' \in 0 .. arrivals
          /\ UNCHANGED <<arrivals, fs, base, reported, presented, last, recent, flushed>>
      BY <1>1, <1>4, <2>1 DEF Sync!Tick, SyncSettings, Sync!BoundsAssumption
    <3> QED BY <3>1, IdleStep
  <2>2. CASE fs # Sync!NoSync
    BY <1>4, <2>2, PresentStep
  <2> QED BY <2>1, <2>2
<1>5. CASE Sync!Replace
  BY <1>5, ReplaceStep
<1>6. CASE UNCHANGED Sync!vars
  <2>1. /\ now' \in Nat /\ uploadedTo' \in 0 .. arrivals
        /\ UNCHANGED <<arrivals, fs, base, reported, presented, last, recent, flushed>>
    BY <1>1, <1>6 DEF Sync!vars
  <2> QED BY <2>1, IdleStep
<1> QED BY <1>2, <1>3, <1>4, <1>5, <1>6 DEF Sync!Next

\* The synchroniser keeps its invariant in every reachable state.
THEOREM SyncCorrect ==
    ASSUME SyncSettings
    PROVE  Sync!Spec => []SyncInv
<1>1. Sync!Init => SyncInv
  BY SyncInit
<1>2. SyncInv /\ [Sync!Next]_(Sync!vars) => SyncInv'
  BY SyncStep
<1> QED BY <1>1, <1>2, PTL DEF Sync!Spec

\* Nothing but a counted resync steps a locked schedule, frames go on air in the
\* order of their arrival, and the statistics on display count on.
THEOREM SyncSteps ==
    ASSUME SyncSettings
    PROVE  Sync!Spec => Sync!OnlyResyncsStep /\ Sync!PresentsInOrder /\ Sync!StatisticsCountOn
<1>1. SyncInv /\ [Sync!Next]_(Sync!vars) =>
        /\ [/\ fs.presents >= LockPresents
            /\ fs'.ctr.resyncs = fs.ctr.resyncs /\ fs'.period = fs.period
            => fs'.applied - fs.applied \in -Slew .. Slew]_(Sync!vars)
        /\ [last' # last => last' > last]_(Sync!vars)
        /\ [\A c \in DOMAIN Sync!Zero : reported'[c] >= reported[c]]_(Sync!vars)
  BY SyncStep DEF Steady
<1> QED BY <1>1, SyncCorrect, PTL DEF Sync!Spec, Sync!OnlyResyncsStep, Sync!PresentsInOrder, Sync!StatisticsCountOn

\* No queued frame is older than the window, so none is due later than its own
\* arrival and the target delay ask for; and the rest of what the synchroniser
\* promises of a state.
LEMMA SyncPromises ==
    ASSUME SyncSettings, SyncInv
    PROVE  Sync!TypeOK /\ Sync!AnchorIsWindowMin /\ Sync!NoFrameOverdelayed /\ Sync!EveryDropCounted
<1>1. /\ Types /\ QueueOK(fs.q, recent, arrivals, last) /\ WedgeOK(fs.wedge, recent, arrivals)
      /\ Anchor /\ Counts /\ fs \in Schedulers /\ arrivals \in Nat /\ last \in 0 .. arrivals
  BY DEF SyncInv, Types
<1>2. Sync!TypeOK
  <2>1. fs.q \subseteq [id : 1 .. arrivals, pts : Int, arr : Nat]
    BY <1>1 DEF QueueOK, Spans, Entries
  <2>2. fs.wedge \subseteq [id : 1 .. arrivals, delta : Int]
    BY <1>1 DEF WedgeOK, Delays
  <2>3. presented \subseteq 1 .. arrivals
    BY <1>1 DEF Types
  <2> QED BY <1>1, <2>1, <2>2, <2>3, SameCount DEF Sync!TypeOK, Types, Schedulers, QueueOK, Limit
<1>3. Sync!NoFrameOverdelayed
  <2> SUFFICES ASSUME fs.applied <= fs.target, NEW e \in fs.q
               PROVE  e.pts + Sync!Lag(fs) <= e.arr + SyncFrames * fs.period
    BY DEF Sync!NoFrameOverdelayed
  <2>1. e \in Entries /\ Delay(e) \in recent
    BY <1>1 DEF QueueOK
  <2>2. fs # Sync!NoSync
    BY FreshIs DEF Sync!NoSync
  <2>3. fs.target <= Delay(e).delta
    BY <1>1, <2>1, <2>2 DEF Anchor, Sync!AnchorIsWindowMin
  <2>4. /\ e.pts \in Int /\ e.arr \in Int /\ Delay(e).delta = e.arr - e.pts
        /\ fs.applied \in Int /\ fs.target \in Int
    BY <1>1, <2>1 DEF Entries, Delay, Schedulers
  <2> DEFINE k == SyncFrames * fs.period
  <2>5. k \in Int
    BY <1>1 DEF SyncSettings, Sync!SettingsAssumption, Schedulers
  <2>6. Sync!Lag(fs) = fs.applied + k
    BY DEF Sync!Lag
  <2> HIDE DEF k
  <2>7. e.pts + (fs.applied + k) <= e.arr + k
    BY <2>3, <2>4, <2>5
  <2> QED BY <2>6, <2>7 DEF k
<1> QED BY <1>1, <1>2, <1>3 DEF Anchor, Counts

\* Every value of the synchroniser has its type, and its queue its limit.
THEOREM SyncTypeCorrect ==
    ASSUME SyncSettings
    PROVE  Sync!Spec => []Sync!TypeOK
<1>1. SyncInv => Sync!TypeOK
  BY SyncPromises
<1> QED BY <1>1, SyncCorrect, PTL

\* Whatever order delays come in and leave the window, and whatever resets: the
\* anchor is the least of them.
THEOREM AnchorCorrect ==
    ASSUME SyncSettings
    PROVE  Sync!Spec => []Sync!AnchorIsWindowMin
<1>1. SyncInv => Sync!AnchorIsWindowMin
  BY SyncPromises
<1> QED BY <1>1, SyncCorrect, PTL

\* No frame waits longer than the target delay after its arrival, once the anchor
\* has come down to the window.
THEOREM NoneOverdelayed ==
    ASSUME SyncSettings
    PROVE  Sync!Spec => []Sync!NoFrameOverdelayed
<1>1. SyncInv => Sync!NoFrameOverdelayed
  BY SyncPromises
<1> QED BY <1>1, SyncCorrect, PTL

\* The counters account for every frame, over every scheduler there has been.
THEOREM DropsCounted ==
    ASSUME SyncSettings
    PROVE  Sync!Spec => []Sync!EveryDropCounted
<1>1. SyncInv => Sync!EveryDropCounted
  BY SyncPromises
<1> QED BY <1>1, SyncCorrect, PTL

---------------------------------------------------------------------------
(* The parts.                                                              *)

\* A lane that plays, and whose sender has kept its cadence since it was armed, has
\* what the sender may hold back: fill and backlog together are the prefill.
LaneInv ==
  /\ Lane!TypeOK
  /\ ~gap
  /\ ~broken /\ ~holding => sending /\ fill + backlog >= Prefill
  /\ mixer = "arm" => fill >= looked

\* What the mixer has read of a tick was on air since the chunk began.
MixInv ==
  /\ Mix!TypeOK
  /\ {key.src} \subseteq Sources \cup {Mix!None}
  /\ chunk # "mix" => /\ snap \in Mix!Mixes
                      /\ Mix!OnBuses(snap) \subseteq maybe
                      /\ surely \subseteq Mix!OnBuses(snap)
                      /\ {key.src} \ {Mix!None} \subseteq maybe
  /\ chunk = "dsk" => {dskSnap.src} \ {Mix!None} \subseteq maybe
  /\ chunk = "process" => {snapDsk.src} \ {Mix!None} \subseteq maybe

\* The part that moves has the invariant of its module.
PathInv ==
  /\ part \in {"sync", "pin", "fault", "lane", "mix"}
  /\ part = "sync" => SyncInv
  /\ part = "pin" => PinP!PinInv /\ PinP!OrderOK /\ PinP!PlacesOK
  /\ part = "fault" => FaultP!PinInv /\ FaultP!OrderOK /\ FaultP!PlacesOK
  /\ part = "lane" => LaneInv
  /\ part = "mix" => MixInv

---------------------------------------------------------------------------
(* The constants are as each part asks.                                    *)

\* The settings of the four parts.
LEMMA PathSettings ==
  /\ SyncSettings /\ PinP!Settings /\ FaultP!Settings
  /\ PinP!SlotsEnough /\ FaultP!SlotsEnough
  /\ Lane!LaneAssumption /\ Lane!CadenceAssumption /\ Mix!MixAssumption
<1>1. SyncSettings
  BY PathAssumption DEF SyncSettings
<1>2. PinP!Settings
  BY PathAssumption DEF PinP!Settings, PinP!SlotsAssumption, PinP!HoldersAssumption,
     PinP!BoundsAssumption, Pin!SlotsAssumption, Pin!HoldersAssumption, Pin!BoundsAssumption
<1>3. FaultP!Settings
  BY PathAssumption DEF FaultP!Settings, FaultP!SlotsAssumption, FaultP!HoldersAssumption,
     FaultP!BoundsAssumption, Pin!SlotsAssumption, Pin!HoldersAssumption,
     Fault!BoundsAssumption
<1>4. PinP!SlotsEnough /\ FaultP!SlotsEnough
  BY PathAssumption DEF Pin!SlotsEnough, PinP!SlotsEnough, FaultP!SlotsEnough
<1> QED BY <1>1, <1>2, <1>3, <1>4, PathAssumption

---------------------------------------------------------------------------
(* A lane.                                                                 *)

\* A step of the lane: delivery only moves chunks from the backlog to the ring, or
\* fills it, and both trims leave the prefill.
LEMMA LaneStep ==
  ASSUME LaneInv, Lane!Next
  PROVE  LaneInv'
<1>1. /\ Prefill \in Nat /\ MaxFill \in Nat /\ RingSize \in Nat /\ Hold \in Nat /\ MaxStalls \in Nat
      /\ 0 < Prefill /\ Prefill < MaxFill /\ MaxFill < RingSize /\ Hold <= Prefill
  BY PathSettings DEF Lane!LaneAssumption, Lane!CadenceAssumption
<1>2. /\ fill \in 0 .. RingSize /\ looked \in 0 .. RingSize /\ backlog \in 0 .. Hold
      /\ sending \in BOOLEAN /\ broken \in BOOLEAN /\ holding \in BOOLEAN /\ synced \in BOOLEAN
      /\ gap \in BOOLEAN /\ mixer \in {"trim", "arm", "read"} /\ stalls \in 0 .. MaxStalls
  BY DEF LaneInv, Lane!TypeOK
<1> USE DEF LaneInv, Lane!TypeOK
<1>3. CASE Lane!Deliver
  BY <1>1, <1>2, <1>3 DEF Lane!Deliver, Lane!Least
<1>4. CASE Lane!Drift
  BY <1>1, <1>2, <1>4 DEF Lane!Drift, Lane!Least, Lane!sender
<1>5. CASE Lane!Stall
  <2>1. /\ sending' = FALSE /\ broken' = TRUE /\ gap' = gap /\ holding' = holding
        /\ synced' = synced
    BY <1>5 DEF Lane!Stall
  <2>2. /\ {sending, broken, holding, synced, gap}' \subseteq BOOLEAN /\ ~gap'
        /\ ~broken' /\ ~holding' => sending' /\ (fill + backlog >= Prefill)'
    BY <1>2, <2>1, Zenon
  <2>3. /\ {fill, looked}' \subseteq 0 .. RingSize /\ backlog' \in 0 .. Hold
        /\ mixer' \in {"trim", "arm", "read"} /\ stalls' \in 0 .. MaxStalls
        /\ mixer' = "arm" => fill' >= looked'
    BY <1>1, <1>2, <1>5 DEF Lane!Stall
  <2> QED BY <2>2, <2>3
<1>6. CASE Lane!Connect
  BY <1>1, <1>2, <1>6 DEF Lane!Connect, Lane!Least
<1>7. CASE Lane!Trim
  BY <1>1, <1>2, <1>7 DEF Lane!Trim, Lane!TrimTo, Lane!sender
<1>8. CASE Lane!Arm
  <2>1. /\ mixer' = "read" /\ sending' = sending /\ backlog' = backlog /\ stalls' = stalls
        /\ looked' = looked /\ synced' = synced /\ gap' = gap /\ fill >= looked
    BY <1>8 DEF Lane!Arm, Lane!sender
  <2>2. CASE holding /\ looked >= Prefill
    <3>1. holding' = FALSE /\ broken' = ~sending
      BY <1>8, <2>2 DEF Lane!Arm, Lane!Armed
    <3>2. fill' \in 0 .. RingSize /\ fill' >= Prefill
      BY <1>1, <1>2, <1>8, <2>1, <2>2 DEF Lane!Arm, Lane!Armed
    <3>3. backlog' = backlog
      BY <2>1
    <3>5. fill' + backlog' >= Prefill
      <4>1. \A a, b \in Nat : a >= Prefill => a + b >= Prefill
        BY <1>1
      <4> QED BY <1>2, <3>2, <3>3, <4>1
    <3>4. {sending, broken, holding, synced, gap}' \subseteq BOOLEAN /\ ~gap' /\ (~broken' => sending')
      BY <1>2, <2>1, <3>1
    <3> QED BY <1>2, <2>1, <3>2, <3>4, <3>5
  <2>3. CASE ~(holding /\ looked >= Prefill)
    BY <1>2, <1>8, <2>1, <2>3 DEF Lane!Arm, Lane!Armed
  <2> QED BY <2>2, <2>3
<1>9. CASE Lane!Read
  <2>1. /\ mixer' = "trim" /\ sending' = sending /\ stalls' = stalls /\ broken' = broken
        /\ looked' = looked /\ synced' = synced
    BY <1>9 DEF Lane!Read
  <2>2. backlog' \in 0 .. Hold /\ (sending => backlog' = backlog + 1 /\ backlog < Hold)
    BY <1>1, <1>2, <1>9 DEF Lane!Read
  <2>3. CASE holding
    <3>1. fill' = fill /\ holding' = holding /\ gap' = gap
      BY <1>9, <2>3 DEF Lane!Read
    <3> QED BY <1>2, <2>1, <2>2, <2>3, <3>1
  <2>4. CASE ~holding /\ fill >= 1
    <3>1. fill' = fill - 1 /\ holding' = holding /\ gap' = gap
      BY <1>9, <2>4 DEF Lane!Read
    <3>2. ~broken => sending /\ fill' + backlog' >= Prefill
      BY <1>1, <1>2, <2>2, <2>4, <3>1
    <3>3. fill' \in 0 .. RingSize
      BY <1>1, <1>2, <2>4, <3>1
    <3> QED BY <1>2, <2>1, <2>2, <3>1, <3>2, <3>3
  <2>5. CASE ~holding /\ ~(fill >= 1)
    <3>1. fill' = 0 /\ holding' = TRUE /\ gap' = (gap \/ ~broken)
      BY <1>9, <2>5 DEF Lane!Read
    <3>2. broken
      BY <1>1, <1>2, <2>2, <2>5
    <3>3. ~gap' /\ gap' \in BOOLEAN
      BY <3>1, <3>2
    <3>4. fill' \in 0 .. RingSize
      BY <1>1, <3>1
    <3> QED BY <1>2, <2>1, <2>2, <3>1, <3>3, <3>4
  <2> QED BY <2>3, <2>4, <2>5
<1> QED BY <1>3, <1>4, <1>5, <1>6, <1>7, <1>8, <1>9 DEF Lane!Next

---------------------------------------------------------------------------
(* The mixer.                                                              *)

\* A step of the render thread or of the mixer, whatever order they come in, and
\* what it says of a chunk mixed without a solo.
LEMMA MixStep ==
  ASSUME MixInv, Mix!Next
  PROVE  /\ MixInv'
         /\ Mix!Process({}) =>
              \A s \in Sources : (bus'[s] > 0 => s \in maybe) /\ (s \in surely => bus'[s] > 0)
<1>1. /\ Sources \subseteq Nat /\ Full \in Nat \ {0, 1} /\ Mix!None = -1 /\ Mix!None \notin Sources
  BY PathSettings DEF Mix!MixAssumption, Mix!None
<1>2. /\ mixSnap \in Mix!Mixes /\ snap \in Mix!Mixes \cup {Mix!NoMix}
      /\ dskSnap \in Mix!Keys /\ snapDsk \in Mix!Keys /\ key \in Mix!Keys
      /\ tick \in {"tick", "dsk"} /\ chunk \in {"mix", "dsk", "process"}
      /\ bus \in [Sources -> 0 .. Full] /\ maybe \subseteq Sources /\ surely \subseteq Sources
  BY DEF MixInv, Mix!TypeOK
<1>3. \A m \in Mix!Mixes : Mix!OnBuses(m) \subseteq Sources
  BY DEF Mix!Mixes, Mix!OnBuses
<1>4. \A k \in Mix!Keys : {k.src} \ {Mix!None} \subseteq Sources
  BY DEF Mix!Keys, Mix!NoKey
<1>5. Mix!NoKey \in Mix!Keys /\ Mix!NoMix \in Mix!Mixes \cup {Mix!NoMix}
  BY DEF Mix!Keys
<1>6. ASSUME Mix!PublishMix PROVE MixInv'
  BY <1>1, <1>2, <1>3, <1>4, <1>6 DEF Mix!PublishMix, MixInv, Mix!TypeOK, Mix!OnAir
<1>7. ASSUME Mix!PublishDsk PROVE MixInv'
  BY <1>1, <1>2, <1>7 DEF Mix!PublishDsk, MixInv, Mix!TypeOK
<1>8. ASSUME Mix!ReadMix PROVE MixInv'
  BY <1>1, <1>2, <1>3, <1>4, <1>8 DEF Mix!ReadMix, MixInv, Mix!TypeOK, Mix!OnAir, Mix!render
<1>9. ASSUME Mix!ReadDsk PROVE MixInv'
  BY <1>1, <1>2, <1>9 DEF Mix!ReadDsk, MixInv, Mix!TypeOK, Mix!render
<1>10. ASSUME NEW solo, chunk = "process", NEW s \in Sources
       PROVE  Mix!Level(s, solo) \in 0 .. Full
  <2> DEFINE sh == Mix!Share(s, snap)
             ri == Mix!Rides(s, snapDsk)
  <2>1. snap \in Mix!Mixes /\ snap.alpha \in 0 .. Full - 1
    BY <1>10 DEF MixInv, Mix!Mixes
  <2>2. sh \in 0 .. Full
    BY <1>1, <2>1 DEF Mix!Share
  <2>3. ri \in 0 .. Full
    BY <1>1, <1>2 DEF Mix!Rides, Mix!Keys, Mix!NoKey
  <2> HIDE DEF sh, ri
  <2>4. Mix!Louder(sh, ri) \in 0 .. Full
    BY <1>1, <2>2, <2>3 DEF Mix!Louder
  <2> QED BY <1>1, <2>4 DEF Mix!Level, sh, ri
<1>11. ASSUME NEW solo \in SUBSET Sources, Mix!Process(solo) PROVE MixInv'
  <2>1. bus' = [s \in Sources |-> Mix!Level(s, solo)] /\ chunk = "process"
    BY <1>11 DEF Mix!Process
  <2>2. bus' \in [Sources -> 0 .. Full]
    BY <1>10, <2>1
  <2> QED BY <1>1, <1>2, <1>5, <1>11, <2>2 DEF Mix!Process, MixInv, Mix!TypeOK, Mix!render
<1>12. ASSUME Mix!Process({}), NEW s \in Sources
       PROVE  (bus'[s] > 0 => s \in maybe) /\ (s \in surely => bus'[s] > 0)
  <2> DEFINE sh == Mix!Share(s, snap)
             ri == Mix!Rides(s, snapDsk)
  <2>1. chunk = "process" /\ bus'[s] = Mix!Louder(sh, ri)
    BY <1>12 DEF Mix!Process, Mix!Level
  <2>2. /\ snap \in Mix!Mixes /\ snap.alpha \in 0 .. Full - 1
        /\ Mix!OnBuses(snap) \subseteq maybe /\ surely \subseteq Mix!OnBuses(snap)
        /\ {snapDsk.src} \ {Mix!None} \subseteq maybe
    BY <2>1 DEF MixInv, Mix!Mixes
  <2>3. sh \in 0 .. Full /\ (sh > 0 <=> s \in Mix!OnBuses(snap))
    BY <1>1, <2>2 DEF Mix!Share, Mix!OnBuses
  <2>4. ri \in 0 .. Full /\ (ri > 0 => s = snapDsk.src)
    BY <1>1, <1>2 DEF Mix!Rides, Mix!Keys, Mix!NoKey
  <2>5. s # Mix!None
    BY <1>1
  <2> HIDE DEF sh, ri
  <2>6. Mix!Louder(sh, ri) > 0 <=> sh > 0 \/ ri > 0
    BY <1>1, <2>3, <2>4 DEF Mix!Louder
  <2> QED BY <2>1, <2>2, <2>3, <2>4, <2>5, <2>6
<1> QED BY <1>6, <1>7, <1>8, <1>9, <1>11, <1>12 DEF Mix!Next

---------------------------------------------------------------------------
(* The proofs of the parts speak of their own copies of the definitions.   *)

\* The rings and pins of PinP and FaultP are those of the run,
LEMMA SamePinInit == Pin!Init => PinP!Init /\ FaultP!Init
BY DEF Pin!Rings, PinP!Rings, FaultP!Rings, Pin!NumSlots, PinP!NumSlots, FaultP!NumSlots,
   Pin!Slots, PinP!Slots, FaultP!Slots, Pin!NoSlot, PinP!NoSlot, FaultP!NoSlot, Pin!AllSlots,
   PinP!AllSlots, FaultP!AllSlots, Pin!Fifs, PinP!Fifs, FaultP!Fifs, Pin!Init, PinP!Init,
   FaultP!Init

\* with their steps,
LEMMA SamePinNext == (Pin!Next => PinP!Next) /\ (Fault!Next => FaultP!Next)
BY DEF Pin!Rings, PinP!Rings, Fault!Rings, FaultP!Rings, Pin!NumSlots, PinP!NumSlots,
   Fault!NumSlots, FaultP!NumSlots, Pin!Slots, PinP!Slots, Fault!Slots, FaultP!Slots,
   Pin!NoSlot, PinP!NoSlot, Fault!NoSlot, FaultP!NoSlot, Pin!AllSlots, PinP!AllSlots,
   Fault!AllSlots, FaultP!AllSlots, Pin!Fifs, PinP!Fifs, Fault!Fifs, FaultP!Fifs, Pin!Fif,
   PinP!Fif, Fault!Fif, FaultP!Fif, Pin!Published, PinP!Published, Fault!Published,
   FaultP!Published, Pin!Held, PinP!Held, Fault!Held, FaultP!Held, Pin!Pinned, PinP!Pinned,
   Fault!Pinned, FaultP!Pinned, Pin!Free, PinP!Free, Fault!Free, FaultP!Free, Pin!Offset,
   PinP!Offset, Fault!Offset, FaultP!Offset, Pin!Acquired, PinP!Acquired, Fault!Acquired,
   FaultP!Acquired, Pin!Receive, PinP!Receive, Fault!Receive, FaultP!Receive, Pin!Drop,
   PinP!Drop, Fault!Drop, FaultP!Drop, Pin!CopyFails, PinP!CopyFails, Fault!CopyFails,
   FaultP!CopyFails, Pin!NewFormat, PinP!NewFormat, Fault!NewFormat, FaultP!NewFormat,
   Pin!Retained, PinP!Retained, Fault!Retained, FaultP!Retained, Pin!Publish, PinP!Publish,
   Fault!Publish, FaultP!Publish, Pin!UploadFinishes, PinP!UploadFinishes, Fault!UploadFinishes,
   FaultP!UploadFinishes, Pin!Uploaded, PinP!Uploaded, Fault!Uploaded, FaultP!Uploaded,
   Pin!Newest, PinP!Newest, Fault!Newest, FaultP!Newest, Pin!Newer, PinP!Newer, Fault!Newer,
   FaultP!Newer, Pin!Replace, PinP!Replace, Fault!Replace, FaultP!Replace, Pin!Take, PinP!Take,
   Fault!Take, FaultP!Take, Pin!Latest, PinP!Latest, Fault!Latest, FaultP!Latest, Pin!Drained,
   PinP!Drained, Fault!Drained, FaultP!Drained, Pin!Present, PinP!Present, Fault!Present,
   FaultP!Present, Pin!Pick, PinP!Pick, Fault!Pick, FaultP!Pick, Pin!Submit, PinP!Submit,
   Fault!Submit, FaultP!Submit, Pin!RenderFinishes, PinP!RenderFinishes, Fault!RenderFinishes,
   FaultP!RenderFinishes, Pin!Next, PinP!Next, Fault!Next, FaultP!Next, Pin!Cardinality,
   PinP!Cardinality, Fault!Cardinality, FaultP!Cardinality, Pin!Range, PinP!Range, Fault!Range,
   FaultP!Range, Pin!inputVars, PinP!inputVars, Fault!inputVars, FaultP!inputVars,
   Pin!uploadVars, PinP!uploadVars, Fault!uploadVars, FaultP!uploadVars, Pin!airVars,
   PinP!airVars, Fault!airVars, FaultP!airVars, Pin!renderVars, PinP!renderVars,
   Fault!renderVars, FaultP!renderVars, Pin!vars, PinP!vars, Fault!vars, FaultP!vars

\* and what they promise of the pixels
LEMMA SamePinPromises ==
  /\ PinP!TypeOK \/ FaultP!TypeOK => Pin!TypeOK
  /\ PinP!SampledIntact \/ FaultP!SampledIntact => Pin!SampledIntact
  /\ PinP!StagingIntact \/ FaultP!StagingIntact => Pin!StagingIntact
BY DEF Pin!Rings, PinP!Rings, FaultP!Rings, Pin!NumSlots, PinP!NumSlots, FaultP!NumSlots,
   Pin!Slots, PinP!Slots, FaultP!Slots, Pin!NoSlot, PinP!NoSlot, FaultP!NoSlot, Pin!AllSlots,
   PinP!AllSlots, FaultP!AllSlots, Pin!Fifs, PinP!Fifs, FaultP!Fifs, Pin!Published,
   PinP!Published, FaultP!Published, Pin!TypeOK, PinP!TypeOK, FaultP!TypeOK, Pin!Contents,
   PinP!Contents, FaultP!Contents, Pin!SampledIntact, PinP!SampledIntact, FaultP!SampledIntact,
   Pin!StagingIntact, PinP!StagingIntact, FaultP!StagingIntact, Pin!Cardinality,
   PinP!Cardinality, FaultP!Cardinality

\* and of dropped frames.
LEMMA SameDrop == PinP!DropMeansBehind \/ FaultP!DropMeansBehind => Pin!DropMeansBehind
BY DEF Pin!Rings, PinP!Rings, FaultP!Rings, Pin!NumSlots, PinP!NumSlots, FaultP!NumSlots,
   Pin!Slots, PinP!Slots, FaultP!Slots, Pin!NoSlot, PinP!NoSlot, FaultP!NoSlot, Pin!AllSlots,
   PinP!AllSlots, FaultP!AllSlots, Pin!Fifs, PinP!Fifs, FaultP!Fifs, Pin!Published,
   PinP!Published, FaultP!Published, Pin!Held, PinP!Held, FaultP!Held, Pin!Pinned, PinP!Pinned,
   FaultP!Pinned, Pin!Free, PinP!Free, FaultP!Free, Pin!LastKept, PinP!LastKept,
   FaultP!LastKept, Pin!Behind, PinP!Behind, FaultP!Behind, Pin!DropMeansBehind,
   PinP!DropMeansBehind, FaultP!DropMeansBehind, Pin!Cardinality, PinP!Cardinality,
   FaultP!Cardinality, Pin!Range, PinP!Range, FaultP!Range

---------------------------------------------------------------------------
(* The whole.                                                              *)

\* Each part starts with its invariant.
LEMMA PathStarts == PathInit => PathInv
<1> SUFFICES ASSUME PathInit PROVE PathInv
  OBVIOUS
<1>1. SyncInv
  <2>1. Sync!Init
    BY DEF PathInit
  <2> QED BY <2>1, PathSettings, SyncInit
<1>2. /\ PinP!PinInv /\ PinP!OrderOK /\ PinP!PlacesOK
      /\ FaultP!PinInv /\ FaultP!OrderOK /\ FaultP!PlacesOK
  <2>1. PinP!Init /\ FaultP!Init
    BY SamePinInit DEF PathInit
  <2> QED BY <2>1, PathSettings, PinP!PinInit, FaultP!PinInit, PinP!DropInit, FaultP!DropInit
<1>3. LaneInv
  <2>1. /\ sending = FALSE /\ broken = TRUE /\ holding = TRUE /\ synced \in BOOLEAN /\ gap = FALSE
        /\ fill = 0 /\ looked = 0 /\ backlog = 0 /\ stalls = 0 /\ mixer = "trim"
    BY DEF PathInit, Lane!Init
  <2>2. /\ {fill, looked} \subseteq 0 .. RingSize /\ backlog \in 0 .. Hold
        /\ stalls \in 0 .. MaxStalls /\ mixer \in {"trim", "arm", "read"} /\ mixer # "arm"
    BY <2>1, PathSettings DEF Lane!LaneAssumption
  <2>3. {sending, broken, holding, synced, gap} \subseteq BOOLEAN /\ ~gap /\ broken
    BY <2>1, Zenon
  <2> QED BY <2>2, <2>3 DEF LaneInv, Lane!TypeOK
<1>4. MixInv
  BY PathSettings DEF PathInit, Mix!Init, MixInv, Mix!TypeOK, Mix!Keys, Mix!NoKey, Mix!Mixes,
     Mix!MixAssumption
<1> QED BY <1>1, <1>2, <1>3, <1>4 DEF PathInv, PathInit

\* A step moves one part, and keeps its invariant; the parts that do not move keep
\* all that their steps could disturb.
LEMMA PathStep ==
  ASSUME PathInv, [PathNext]_pathVars
  PROVE  PathInv'
<1>1. CASE UNCHANGED pathVars
  <2>1. part' = part /\ UNCHANGED syncVars /\ UNCHANGED pinVars /\ UNCHANGED laneVars
        /\ UNCHANGED mixVars
    BY <1>1 DEF pathVars
  <2>2. part = "sync" => SyncInv'
    <3>1. UNCHANGED Sync!vars
      BY <2>1 DEF syncVars, Sync!vars
    <3> QED BY <3>1, PathSettings, SyncStep DEF PathInv
  <2>3. part = "pin" => (PinP!PinInv /\ PinP!OrderOK /\ PinP!PlacesOK)'
    <3>1. UNCHANGED PinP!vars
      BY <2>1 DEF pinVars, PinP!vars, PinP!inputVars, PinP!uploadVars, PinP!airVars, PinP!renderVars
    <3> QED BY <3>1, PathSettings, PinP!PinStep, PinP!OrderStep, PinP!PlacesStep
       DEF PathInv
  <2>4. part = "fault" => (FaultP!PinInv /\ FaultP!OrderOK /\ FaultP!PlacesOK)'
    <3>1. UNCHANGED FaultP!vars
      BY <2>1 DEF pinVars, FaultP!vars, FaultP!inputVars, FaultP!uploadVars, FaultP!airVars,
         FaultP!renderVars
    <3> QED BY <3>1, PathSettings, FaultP!PinStep, FaultP!OrderStep, FaultP!PlacesStep
       DEF PathInv
  <2>5. part = "lane" => LaneInv'
    BY <2>1 DEF PathInv, laneVars, LaneInv, Lane!TypeOK
  <2>6. part = "mix" => MixInv'
    BY <2>1 DEF PathInv, mixVars, MixInv, Mix!TypeOK
  <2> QED BY <2>1, <2>2, <2>3, <2>4, <2>5, <2>6 DEF PathInv
<1>2. CASE PathNext
  <2>1. part' = part
    BY <1>2 DEF PathNext
  <2>2. part = "sync" => SyncInv'
    BY <1>2, PathSettings, SyncStep DEF PathInv, PathNext
  <2>3. part = "pin" => (PinP!PinInv /\ PinP!OrderOK /\ PinP!PlacesOK)'
    BY <1>2, SamePinNext, PathSettings, PinP!PinStep, PinP!OrderStep, PinP!PlacesStep
       DEF PathInv, PathNext
  <2>4. part = "fault" => (FaultP!PinInv /\ FaultP!OrderOK /\ FaultP!PlacesOK)'
    BY <1>2, SamePinNext, PathSettings, FaultP!PinStep, FaultP!OrderStep, FaultP!PlacesStep
       DEF PathInv, PathNext
  <2>5. part = "lane" => LaneInv'
    BY <1>2, LaneStep DEF PathInv, PathNext
  <2>6. part = "mix" => MixInv'
    BY <1>2, MixStep DEF PathInv, PathNext
  <2> QED BY <2>1, <2>2, <2>3, <2>4, <2>5, <2>6 DEF PathInv
<1> QED BY <1>1, <1>2

\* The invariant of the whole, by parts.
THEOREM PathCorrect == PathSpec => []PathInv
<1>1. PathInv /\ [PathNext]_pathVars => PathInv'
  BY PathStep
<1> QED BY <1>1, PathStarts, PTL DEF PathSpec

---------------------------------------------------------------------------
(* What the run picture_and_sound checks, for every value of the constants *)

\* Every part keeps the types of its variables (Engine, SyncScheduler, UploadRing,
\* AudioEngine).
THEOREM PathTypesKept == PathSpec => []PathTypes
<1>1. part = "sync" /\ SyncInv => Sync!TypeOK
  BY PathSettings, SyncPromises
<1>2. PinP!PinInv \/ FaultP!PinInv => Pin!TypeOK
  BY PathSettings, PinP!PinPromises, FaultP!PinPromises, SamePinPromises
<1>3. PathInv => PathTypes
  BY <1>1, <1>2 DEF PathInv, PathTypes, LaneInv, MixInv
<1> QED BY <1>3, PathCorrect, PTL

\* The anchor is the least delay of the window, whatever delays enter and leave it,
\* and no frame waits longer than was asked for (SyncScheduler::push, present).
THEOREM ScheduleIsSound == PathSpec => []ScheduleSound
<1>1. PathInv => ScheduleSound
  BY PathSettings, SyncPromises DEF PathInv, ScheduleSound
<1> QED BY <1>1, PathCorrect, PTL

\* The GPU samples the frame that was composited and no upload is written over, for
\* any number of slots, of retained publishes and of ticks in flight.
THEOREM PixelsAreKept == PathSpec => []PixelsStay
<1>1. PathInv => PixelsStay
  BY PathSettings, PinP!PinPromises, FaultP!PinPromises, SamePinPromises
     DEF PathInv, PixelsStay
<1> QED BY <1>1, PathCorrect, PTL

\* A frame is dropped only when the screen is that far behind, for any number of slots
\* that leaves one over what is drawn and what is retained.
THEOREM DropsMeanBehind == PathSpec => []DropMeansBehind
<1>1. PathInv => DropMeansBehind
  BY PathSettings, PinP!DropPromise, FaultP!DropPromise, SameDrop DEF PathInv, DropMeansBehind
<1> QED BY <1>1, PathCorrect, PTL

\* What a step does to the synchroniser is what SyncStep says of it, or nothing.
LEMMA SyncMoves ==
  ASSUME PathInv, [PathNext]_pathVars
  PROVE  \/ part = "sync" /\ SyncInv /\ Steady
         \/ UNCHANGED Sync!vars
<1>1. CASE part = "sync" /\ Sync!Next
  BY <1>1, PathSettings, SyncStep DEF PathInv
<1>2. CASE UNCHANGED syncVars
  BY <1>2 DEF syncVars, Sync!vars
<1> QED BY <1>1, <1>2 DEF PathNext, pathVars

\* Nothing but a counted resync steps a locked schedule (SyncScheduler).
THEOREM OnlyResyncsStepIt == PathSpec => OnlyResyncsStep
<1>1. PathInv /\ [PathNext]_pathVars =>
        [/\ fs.presents >= LockPresents
         /\ fs'.ctr.resyncs = fs.ctr.resyncs /\ fs'.period = fs.period
         => fs'.applied - fs.applied \in -Slew .. Slew]_(Sync!vars)
  BY SyncMoves DEF Steady
<1> QED BY <1>1, PathCorrect, PTL DEF PathSpec, OnlyResyncsStep, Sync!OnlyResyncsStep

\* Every frame is queued, presented or counted as dropped, and the counts on display
\* go on through resyncs and changes of source (Engine's syncBase).
THEOREM StatisticsAreRight == PathSpec => StatisticsRight
<1>1. PathInv => (part = "sync" => Sync!EveryDropCounted)
  BY PathSettings, SyncPromises DEF PathInv
<1>2. PathInv /\ [PathNext]_pathVars =>
        [\A c \in DOMAIN Sync!Zero : reported'[c] >= reported[c]]_(Sync!vars)
  BY SyncMoves DEF Steady, Sync!Zero, Sync!Zero
<1> QED BY <1>1, <1>2, PathCorrect, PTL DEF PathSpec, StatisticsRight, Sync!StatisticsCountOn

\* The picture never goes back in time, with frame sync or without it.
THEOREM PictureGoesForward == PathSpec => PictureForward
<1>1. PathInv /\ [PathNext]_pathVars => [last' # last => last' > last]_(Sync!vars)
  BY SyncMoves DEF Steady
<1>2. PathInv /\ [PathNext]_pathVars => [cur' # 0 => cur' >= cur /\ cur' >= seen]_(Pin!vars)
  <2> SUFFICES ASSUME PathInv, [PathNext]_pathVars
               PROVE  (cur' # 0 => cur' >= cur /\ cur' >= seen) \/ UNCHANGED Pin!vars
    OBVIOUS
  <2>1. CASE part = "pin" /\ Pin!Next
    BY <2>1, SamePinNext, PathSettings, PinP!PinStep DEF PathInv
  <2>2. CASE part = "fault" /\ Fault!Next
    BY <2>2, SamePinNext, PathSettings, FaultP!PinStep DEF PathInv
  <2>3. CASE UNCHANGED pinVars
    BY <2>3 DEF pinVars, Pin!vars, Pin!inputVars, Pin!uploadVars, Pin!airVars, Pin!renderVars
  <2> QED BY <2>1, <2>2, <2>3 DEF PathNext, pathVars
<1> QED BY <1>1, <1>2, PathCorrect, PTL
    DEF PathSpec, PictureForward, Sync!PresentsInOrder, Pin!AirForward

\* A lane whose sender keeps its cadence never runs dry, and what is heard was on air
\* while the chunk was prepared, whatever tick falls between the mixer's two reads
\* (AudioEngine, MixerCore).
THEOREM AudioFollowsVideo == PathSpec => AudioFollows
<1>1. PathInv => (part = "lane" => Lane!NoGapOnCadence)
  BY DEF PathInv, LaneInv, Lane!NoGapOnCadence
<1>2. PathInv /\ [PathNext]_pathVars =>
        [Mix!Process({}) =>
           \A s \in Sources : /\ bus'[s] > 0 => s \in maybe
                              /\ s \in surely => bus'[s] > 0]_(Mix!vars)
  <2> SUFFICES ASSUME PathInv, [PathNext]_pathVars, Mix!Process({})
               PROVE  \/ \A s \in Sources : /\ bus'[s] > 0 => s \in maybe
                                            /\ s \in surely => bus'[s] > 0
                      \/ UNCHANGED Mix!vars
    OBVIOUS
  <2>1. CASE part = "mix" /\ Mix!Next
    BY <2>1, MixStep DEF PathInv
  <2>2. CASE UNCHANGED mixVars
    BY <2>2 DEF mixVars, Mix!vars, Mix!render
  <2> QED BY <2>1, <2>2 DEF PathNext, pathVars
<1> QED BY <1>1, <1>2, PathCorrect, PTL DEF PathSpec, AudioFollows, Mix!HeardIsOnAir
=============================================================================
