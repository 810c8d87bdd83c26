------------------------------- MODULE AudioMix -------------------------------
(***************************************************************************)
(* Audio follows video: on every tick the render thread publishes what is  *)
(* on the buses and what the keyers show in two atomic words               *)
(* (AudioEngine::publishMix, publishDsk), and the mixer reads the two words *)
(* once per chunk, in that order and on a clock of its own, and decides    *)
(* what is heard (MixerCore::process).  Levels are 0 .. Full, the faders   *)
(* and the master's dip, limiter and delay are left out: they apply to     *)
(* whatever is heard.                                                      *)
(***************************************************************************)
EXTENDS Integers

CONSTANTS Sources, Full

MixAssumption == Sources \subseteq Nat /\ Full \in Nat \ {0, 1}

None == -1   \* a keyer that does not follow, or is dark

\* The two words: alpha reaches Full only as the landed state, which is 0.
Mixes == [pgm : Sources, pvw : Sources, alpha : 0 .. Full - 1]
NoMix == [pgm |-> None, pvw |-> None, alpha |-> 0]
NoKey == [src |-> None, gain |-> 0]
Keys  == [src : Sources, gain : 1 .. Full] \cup {NoKey}

VARIABLES mixSnap, dskSnap,   \* the published words
          job,                \* the render thread: "tick", or "dsk" with the
          key,                \* keyer levels of this tick still to publish
          step,               \* the mixer: "mix", "dsk", "process"
          snap, snapDsk,      \* what it has read
          bus,                \* the level each source is mixed at
          maybe,              \* sources that were on air since the chunk began
          surely              \* sources that were on the buses all of that time

render == <<mixSnap, dskSnap, job, key>>
vars == <<render, step, snap, snapDsk, bus, maybe, surely>>

OnBuses(m) == {m.pgm} \cup (IF m.alpha > 0 THEN {m.pvw} ELSE {})
OnAir(m, k) == OnBuses(m) \cup ({k.src} \ {None})

Init ==
  /\ mixSnap \in [pgm : Sources, pvw : Sources, alpha : {0}]
  /\ dskSnap = NoKey
  /\ job = "tick" /\ key = dskSnap
  /\ step = "mix" /\ snap = NoMix /\ snapDsk = dskSnap
  /\ bus = [s \in Sources |-> 0]
  /\ maybe = {} /\ surely = {}

---------------------------------------------------------------------------
(* A tick of the render thread.                                            *)
PublishMix ==
  /\ job = "tick" /\ job' = "dsk"
  /\ mixSnap' \in Mixes /\ key' \in Keys
  /\ maybe' = IF step = "mix" THEN {} ELSE maybe \cup OnAir(mixSnap', key')
  /\ surely' = surely \cap OnBuses(mixSnap')
  /\ UNCHANGED <<dskSnap, step, snap, snapDsk, bus>>

PublishDsk ==
  /\ job = "dsk" /\ job' = "tick"
  /\ dskSnap' = key
  /\ UNCHANGED <<mixSnap, key, step, snap, snapDsk, bus, maybe, surely>>

---------------------------------------------------------------------------
(* A chunk of the mixer.                                                   *)
ReadMix ==
  /\ step = "mix" /\ step' = "dsk"
  /\ snap' = mixSnap
  /\ maybe' = OnAir(mixSnap, dskSnap) \cup OnAir(mixSnap, key)
  /\ surely' = OnBuses(mixSnap)
  /\ UNCHANGED <<render, snapDsk, bus>>

ReadDsk ==
  /\ step = "dsk" /\ step' = "process"
  /\ snapDsk' = dskSnap
  /\ UNCHANGED <<render, snap, bus, maybe, surely>>

\* Faulty variant: the fade is applied the wrong way round.
ShareSwapped(s, m) ==
  IF s = m.pgm /\ s = m.pvw THEN Full
  ELSE IF s = m.pgm THEN m.alpha
  ELSE IF s = m.pvw THEN Full - m.alpha ELSE 0

\* A source's share of the crossfade.
Share(s, m) ==
  IF s = m.pgm /\ s = m.pvw THEN Full
  ELSE IF s = m.pgm THEN Full - m.alpha
  ELSE IF s = m.pvw THEN m.alpha ELSE 0

\* A keyer rides on top of it.
Rides(s, k) == IF s = k.src THEN k.gain ELSE 0

Louder(a, b) == IF a < b THEN b ELSE a

Level(s, solo) ==
  IF solo # {} THEN (IF s \in solo THEN Full ELSE 0)
  ELSE Louder(Share(s, snap), Rides(s, snapDsk))

\* The chunk is mixed with the solo flags of that moment; what was read is gone.
Process(solo) ==
  /\ step = "process" /\ step' = "mix"
  /\ bus' = [s \in Sources |-> Level(s, solo)]
  /\ snap' = NoMix /\ snapDsk' = NoKey /\ maybe' = {} /\ surely' = {}
  /\ UNCHANGED render

Next == PublishMix \/ PublishDsk \/ ReadMix \/ ReadDsk \/ (\E solo \in SUBSET Sources : Process(solo))

Spec == Init /\ [][Next]_vars

---------------------------------------------------------------------------
TypeOK ==
  /\ mixSnap \in Mixes /\ snap \in Mixes \cup {NoMix} /\ {dskSnap, snapDsk, key} \subseteq Keys
  /\ job \in {"tick", "dsk"} /\ step \in {"mix", "dsk", "process"}
  /\ bus \in [Sources -> 0 .. Full]
  /\ maybe \subseteq Sources /\ surely \subseteq Sources

\* Whatever tick falls between the mixer's two reads: with no solo, only a source
\* that was on air while the chunk was prepared is heard, and one that was on the
\* program or coming in all of that time is (AudioEngine::run, unpack, unpackDsk,
\* MixerCore::process).  A source that goes from a keyer to the program in one
\* tick may be silent for a chunk.
HeardIsOnAir ==
  [][ Process({}) =>
        \A s \in Sources : /\ bus'[s] > 0 => s \in maybe
                           /\ s \in surely => bus'[s] > 0 ]_vars
=============================================================================
