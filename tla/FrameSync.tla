------------------------------- MODULE FrameSync -------------------------------
(***************************************************************************)
(* The frame synchronizer of one input and the part of the render loop     *)
(* that owns it: it maps a source's timestamps onto the tick grid through  *)
(* an anchor, the least delay of the last Window frames, and presents the  *)
(* newest frame that is due and uploaded.                                  *)
(*                                                                         *)
(* A frame is the number of its arrival.  Arrivals and presentations both  *)
(* have that order, so the two deques (queued frames, wedge of the sliding *)
(* minimum) are the sets of their entries: popping at an end is a          *)
(* condition on the entries.  One unit of time is one tick of the show.    *)
(* The delay averages, the repeat statistics (starves, waits, lateUploads) *)
(* and the clock domain flag do not influence the schedule and are left    *)
(* out.                                                                    *)
(***************************************************************************)
EXTENDS Integers, FiniteSets

CONSTANTS
    Window,        \* kWindow
    Slew,          \* kSlewPerTickNs
    PtsGap,        \* kPtsGapNs
    LockPresents,  \* kLockPresents
    SyncFrames,    \* Config::syncFrames
    Slack,         \* queued frames beyond syncFrames: 4 in push
    Periods,       \* frame periods of the formats the source can switch between
    Steps,         \* bound: distance of a timestamp to the one before
    MaxLate,       \* bound: ticks a frame can arrive after the tick it is drained in
    MaxElapsed,    \* bound: ticks from one rendered tick to the next
    MaxArrivals,   \* bound: frames
    MaxNow         \* bound: ticks

SettingsAssumption ==
    /\ Window \in Nat \ {0} /\ Slack \in Nat \ {0} /\ SyncFrames \in Nat
    /\ Slew \in Nat /\ PtsGap \in Nat /\ LockPresents \in Nat
    /\ Periods \subseteq Nat \ {0} /\ Steps \subseteq Int

\* 4 + 4 <= 128: the queue is shorter than the window.
QueueAssumption == SyncFrames + Slack <= Window

BoundsAssumption == MaxElapsed \in Nat /\ MaxLate \in Nat /\ MaxArrivals \in Nat /\ MaxNow \in Nat

VARIABLES
    now,          \* time of the last tick
    arrivals,     \* frames pushed so far
    uploadedTo,   \* frames up to this one have been uploaded: one timeline
    fs,           \* the scheduler; period 0: there is none
    base,         \* syncBase: counters of the schedulers before it
    reported,     \* the statistics on display
    presented,    \* history: the frames presented, in any order
    last,         \* history: the last frame presented, or 0
    recent,       \* history: the last Window frames since the anchor was reset
    flushed       \* history: frames discarded with a queue that was cleared

vars == <<now, arrivals, uploadedTo, fs, base, reported, presented, last, recent, flushed>>

Zero == [slipDrops |-> 0, overflows |-> 0, resyncs |-> 0]
Sum2(a, b) == [c \in DOMAIN Zero |-> a[c] + b[c]]

\* A scheduler as constructed, or none.
Fresh(p) == [period |-> p, q |-> {}, wedge |-> {}, target |-> 0, applied |-> 0,
             valid |-> FALSE, havePrev |-> FALSE, lastPts |-> 0, presents |-> 0, ctr |-> Zero]
NoSync == Fresh(0)

Init ==
    /\ now = 0 /\ arrivals = 0 /\ uploadedTo = 0
    /\ fs = NoSync
    /\ base = Zero /\ reported = Zero
    /\ presented = {} /\ last = 0 /\ recent = {} /\ flushed = 0

------------------------------------------------------------------------------
(* push *)

Oldest(entries) == CHOOSE e \in entries : \A f \in entries : e.id <= f.id
Newest(entries) == CHOOSE e \in entries : \A f \in entries : e.id >= f.id

\* A gap in the sequence numbers, or timestamps that stand still, go back or jump.
Discontinuous(s, pts, seqGap) ==
    s.havePrev /\ (seqGap \/ pts - s.lastPts <= 0 \/ pts - s.lastPts > PtsGap)

Resynced(s) == [s EXCEPT !.q = {}, !.wedge = {}, !.valid = FALSE, !.presents = 0,
                         !.ctr.resyncs = @ + 1]

\* Faulty variant: nothing expires.
WedgeForever(wedge, id, delta) ==
    {w \in wedge : w.delta < delta} \cup {[id |-> id, delta |-> delta]}

\* The wedge: front entries out of the window and back entries that are not
\* below the new one leave it.
Wedge(wedge, id, delta) ==
    {w \in wedge : w.id + Window > id /\ w.delta < delta} \cup {[id |-> id, delta |-> delta]}

Anchored(s, id, delta) ==
    LET w == Wedge(s.wedge, id, delta)
        t == Oldest(w).delta
    IN  [s EXCEPT !.wedge = w, !.target = t, !.valid = TRUE,
                  !.applied = IF s.valid THEN @ ELSE t]

\* Faulty variant: the queue has no limit.
EnqueuedAlways(s, e) == [s EXCEPT !.q = @ \cup {e}]

\* The oldest frame gives way to the new one when the queue is full.
Enqueued(s, e) ==
    LET q == s.q \cup {e}
    IN  IF Cardinality(q) <= SyncFrames + Slack THEN [s EXCEPT !.q = q]
        ELSE [s EXCEPT !.q = q \ {Oldest(q)}, !.ctr.overflows = @ + 1]

Pushed(s, e) ==
    Enqueued(Anchored([s EXCEPT !.lastPts = e.pts, !.havePrev = TRUE], e.id, e.arr - e.pts), e)

\* A scheduler for a new frame period, or for the first frame.
Renewed(p) == fs.period # p
Scheduler(p) == IF Renewed(p) THEN Fresh(p) ELSE fs

\* Faulty variant: the counters of the old scheduler are lost.
FoldedAway == base

\* The counters of a scheduler that is thrown away go to the base.
Folded == Sum2(base, fs.ctr)

\* One sample of the feed: a frame of period p stamped pts that arrived at arr.
Push(p, pts, arr, seqGap) ==
    LET s == Scheduler(p)
        cut == Discontinuous(s, pts, seqGap)
        id == arrivals + 1
    IN  /\ arrivals < MaxArrivals
        /\ arrivals' = id
        /\ fs' = Pushed(IF cut THEN Resynced(s) ELSE s, [id |-> id, pts |-> pts, arr |-> arr])
        /\ base' = IF Renewed(p) THEN Folded ELSE base
        /\ recent' = {r \in (IF cut \/ Renewed(p) THEN {} ELSE recent) : r.id + Window > id}
                       \cup {[id |-> id, delta |-> arr - pts]}
        /\ flushed' = flushed + (IF cut \/ Renewed(p) THEN Cardinality(fs.q) ELSE 0)
        /\ UNCHANGED <<now, uploadedTo, reported, presented, last>>

\* A transfer queue finishes an upload.
Upload ==
    /\ uploadedTo < arrivals
    /\ uploadedTo' = uploadedTo + 1
    /\ UNCHANGED <<now, arrivals, fs, base, reported, presented, last, recent, flushed>>

------------------------------------------------------------------------------
(* present *)

Clamp(x, limit) == IF x > limit THEN limit ELSE IF x < -limit THEN -limit ELSE x

\* Faulty variant: the anchor follows the window at once.
Unslewed(s) == [s EXCEPT !.applied = s.target]

\* The anchor jumps to the minimum until the schedule is locked and moves by at
\* most Slew a tick from then on.
Slewed(s) ==
    IF ~s.valid THEN s
    ELSE IF s.presents < LockPresents THEN [s EXCEPT !.applied = s.target]
    ELSE [s EXCEPT !.applied = @ + Clamp(s.target - @, Slew)]

Lag(s) == s.applied + SyncFrames * s.period
Due(s, t) == {e \in s.q : e.pts + Lag(s) <= t}

\* The frame taken and the older ones leave the queue.
After(s, take) == {e \in s.q : e.id > take.id}

\* Ticks e later: present the newest due frame that is uploaded, if there is one.
Tick(e) ==
    LET t == now + e
        s == Slewed(fs)
        ready == {f \in Due(s, t) : f.id <= uploadedTo}
        take == Newest(ready)
    IN  /\ t <= MaxNow
        /\ now' = t
        /\ IF fs = NoSync
             THEN UNCHANGED <<fs, reported, presented, last>>
             ELSE /\ fs' = IF ready = {} THEN s
                           ELSE [s EXCEPT !.q = After(s, take), !.presents = @ + 1,
                                   !.ctr.slipDrops =
                                       @ + Cardinality({f \in s.q : f.id < take.id})]
                  /\ presented' = IF ready = {} THEN presented ELSE presented \cup {take.id}
                  /\ last' = IF ready = {} THEN last ELSE take.id
                  /\ reported' = Sum2(base, fs'.ctr)
        /\ UNCHANGED <<arrivals, uploadedTo, base, recent, flushed>>

\* The source picker swaps the input: the scheduler goes with the old source.
Replace ==
    /\ base' = Folded
    /\ fs' = NoSync
    /\ recent' = {}
    /\ flushed' = flushed + Cardinality(fs.q)
    /\ UNCHANGED <<now, arrivals, uploadedTo, reported, presented, last>>

Next ==
    \/ \E p \in Periods, d \in Steps, arr \in now .. now + MaxLate, gap \in BOOLEAN :
          Push(p, fs.lastPts + d, arr, gap)
    \/ Upload
    \/ \E e \in 1 .. MaxElapsed : Tick(e)
    \/ Replace

Spec == Init /\ [][Next]_vars

------------------------------------------------------------------------------
(* Properties *)

CounterType == [slipDrops : Nat, overflows : Nat, resyncs : Nat]

TypeOK ==
    /\ now \in Nat /\ arrivals \in Nat /\ uploadedTo \in 0 .. arrivals
    /\ fs.period \in Periods \cup {0}
    /\ fs.q \subseteq [id : 1 .. arrivals, pts : Int, arr : Nat]
    /\ fs.wedge \subseteq [id : 1 .. arrivals, delta : Int]
    /\ Cardinality(fs.q) <= SyncFrames + Slack
    /\ fs.target \in Int /\ fs.applied \in Int /\ fs.lastPts \in Int
    /\ fs.valid \in BOOLEAN /\ fs.havePrev \in BOOLEAN /\ fs.presents \in Nat
    /\ fs.ctr \in CounterType /\ base \in CounterType /\ reported \in CounterType
    /\ presented \subseteq 1 .. arrivals /\ last \in 0 .. arrivals

\* The anchor the schedule is heading for is the least delay of the frames of
\* the window, whatever order delays come in and leave it, and whatever resets.
AnchorIsWindowMin ==
    fs.valid => /\ \E r \in recent : r.delta = fs.target
                /\ \A r \in recent : fs.target <= r.delta

\* No frame waits more than the target delay of SyncFrames periods after it
\* arrived, once the applied anchor has come down to the window: a queued frame
\* is never older than the window it is measured against.
NoFrameOverdelayed ==
    fs.applied <= fs.target =>
        \A e \in fs.q : e.pts + Lag(fs) <= e.arr + SyncFrames * fs.period

\* Frames go on air in the order of their arrival, each at most once, through
\* late uploads, drops, resyncs and changes of source.
PresentsInOrder == [][last' # last => last' > last]_vars

\* "Counted, deterministic repeats/drops": a frame that arrived is queued, was
\* presented, or is counted as dropped, if its queue was not cleared.
EveryDropCounted ==
    arrivals = Cardinality(fs.q) + Cardinality(presented) + flushed
                 + Folded.slipDrops + Folded.overflows

\* Nothing but a counted resync steps a locked schedule: however the delays of
\* the window move, it goes after them by at most Slew a tick.
OnlyResyncsStep ==
    [][ /\ fs.presents >= LockPresents
        /\ fs'.ctr.resyncs = fs.ctr.resyncs /\ fs'.period = fs.period
        => fs'.applied - fs.applied \in -Slew .. Slew ]_vars

\* The statistics an operator sees count on through resyncs, changes of format
\* and changes of source.
StatisticsCountOn ==
    [][ \A c \in DOMAIN Zero : reported'[c] >= reported[c] ]_vars

==============================================================================
