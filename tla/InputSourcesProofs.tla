-------------------------- MODULE InputSourcesProofs --------------------------
(***************************************************************************)
(* What the run input_sources checks on small instances, for every value   *)
(* of the constants: any playlist, any modes, any number of slots, sources *)
(* and operations.  Each part has an inductive invariant of its own.       *)
(***************************************************************************)
EXTENDS InputSources, SequenceTheorems, TLAPS

---------------------------------------------------------------------------
(* The decode thread of a media file.                                      *)

Onscreen == {"read", "trim", "pace", "publish"}

\* While it plays, the clock of a clip runs no faster than its playing time; the age
\* noted at a pause does not either, and is what the clock goes on from.
ClockInv ==
  /\ was => ~paused
  /\ ~was /\ ~paused => pausedAge = -1
  /\ pc \in Onscreen \cup {"ready"} => ~paused
  /\ first >= 0 /\ ~cued =>
       /\ ~paused => age <= ran
       /\ paused => pausedAge \in 0 .. ran

\* The file open is the item the list is at, and a frame that passed the trims is
\* between those of that item.
FileInv ==
  /\ file # 0 => file = index + 1
  /\ pc \in Onscreen => file # 0
  /\ pc \in {"pace", "publish"} =>
       /\ first >= 0
       /\ frame >= Items[file].in
       /\ Items[file].out > 0 => frame < Items[file].out

MediaInv ==
  /\ TypeOK
  /\ pc = "select" => media /\ picked >= 0
  /\ media => FileInv /\ ClockInv
  /\ PlaysTheClip

Speeds == 250 .. 4000
Clips == [len : Nat, in : Nat, out : Nat, speed : Speeds, ok : BOOLEAN]

\* The constants of the media part.
LEMMA MediaSettings ==
  /\ Len(Items) \in Nat \ {0}
  /\ MaxAge \in Nat /\ MaxOps \in Nat /\ MaxFaults \in Nat
  /\ \A i \in 0 .. Len(Items) - 1 : Item(i) = Items[i + 1] /\ Item(i) \in Clips
<1>1. Items \in Seq(Clips) /\ Items # << >> /\ {MaxAge, MaxOps, MaxFaults} \subseteq Nat
  BY SourcesAssumption DEF MediaAssumption, Clips, Speeds
<1>2. Len(Items) \in Nat \ {0}
  BY <1>1
<1>3. ASSUME NEW i \in 0 .. Len(Items) - 1
      PROVE  Item(i) = Items[i + 1] /\ Item(i) \in Clips
  <2>1. i + 1 \in 1 .. Len(Items)
    BY <1>2
  <2>2. Items[i + 1] \in Clips
    BY <1>1, <2>1, ElementOfSeq, Zenon
  <2> QED BY <2>2 DEF Item
<1> QED BY <1>1, <1>2, <1>3

\* The numbers of a clip, each in the range its option takes.
LEMMA ClipNumbers ==
  ASSUME NEW c \in Clips
  PROVE  c.in \in Nat /\ c.out \in Nat /\ c.speed \in Speeds
BY DEF Clips

\* A duration at a clip's speed is a number.
LEMMA WallIsInt ==
  ASSUME NEW s \in Speeds, NEW t \in Int, NEW item, item.speed = s
  PROVE  Wall(item, t) \in Int
<1>1. s \in Nat /\ s # 0
  BY DEF Speeds
<1> QED BY <1>1 DEF Wall

\* A step to an item of the list.
LEMMA SteppedIs ==
  ASSUME TypeOK, NEW d \in {-1, 1}
  PROVE  Stepped(d) \in 0 .. Len(Items) - 1
<1>1. Len(Items) \in Nat \ {0}
  BY MediaSettings
<1>2. \A n \in Nat \ {0}, a \in Nat : a % n \in 0 .. n - 1
  OBVIOUS
<1>3. (IF select >= 0 THEN select ELSE index) \in 0 .. Len(Items) - 1
  BY <1>1 DEF TypeOK
<1> QED BY <1>1, <1>2, <1>3 DEF Stepped

\* The media part starts with its invariant.
LEMMA MediaStarts == Init => MediaInv
<1> SUFFICES ASSUME Init PROVE MediaInv
  OBVIOUS
<1>1. {media, playing, loop, restart, atEnd, was, want, paused, cued} \subseteq BOOLEAN
  BY Zenon DEF Init
<1>2. TypeOK
  BY <1>1, MediaSettings DEF Init, TypeOK
<1> QED BY <1>2 DEF Init, MediaInv, FileInv, ClockInv, PlaysTheClip, Onscreen

\* What the invariant says of the clock, the file and the frame depends on these only.
LEMMA MediaRests ==
  ASSUME media' = media, pc' = pc, index' = index, UNCHANGED <<decoder, clocks, pauses>>
  PROVE  FileInv' = FileInv /\ ClockInv' = ClockInv /\ PlaysTheClip' = PlaysTheClip
BY DEF decoder, clocks, pauses, FileInv, ClockInv, PlaysTheClip, Due, Onscreen, Wall

\* The operator touches neither the clock nor the file.
LEMMA OperatorStep ==
  ASSUME MediaInv, Operate \/ Store
  PROVE  MediaInv'
<1>1. /\ media' = media /\ atEnd' = atEnd /\ faults' = faults /\ pc' = pc /\ index' = index
      /\ UNCHANGED <<decoder, clocks, pauses>>
  BY Zenon DEF Operate, Store, SetPlaying, Restart, StepMedia, SetLoop, Begin, Select, controls
<1>2. {media, playing, loop, restart, atEnd, was, want, paused, cued}' \subseteq BOOLEAN
  <2>1. {media, playing, loop, restart, atEnd, was, want, paused, cued} \subseteq BOOLEAN
    BY DEF MediaInv, TypeOK
  <2>2. CASE Operate
    BY <1>1, <2>1, <2>2, Zenon
       DEF Operate, SetPlaying, Restart, StepMedia, SetLoop, Begin, Select, controls, decoder, pauses
  <2>3. CASE Store
    BY <1>1, <2>1, <2>3, Zenon DEF Store, Select, decoder, pauses
  <2> QED BY <2>2, <2>3
<1>3. ops' \in 0 .. MaxOps
  <2>1. (ops < MaxOps /\ ops' = ops + 1) \/ ops' = ops
    BY Zenon DEF Operate, Store, SetPlaying, Restart, StepMedia, SetLoop, Begin
  <2>2. ops \in 0 .. MaxOps
    BY DEF MediaInv, TypeOK
  <2> QED BY <2>1, <2>2, MediaSettings
<1>4. op' \in Seq({"first", "restart", "play", "pause"})
  <2> DEFINE Stores == {"first", "restart", "play", "pause"}
  <2>1. op \in Seq(Stores)
    BY DEF MediaInv, TypeOK
  <2>2. CASE Operate
    <3>1. op' \in {<<"first", "restart", "play">>, <<"play">>, <<"pause">>, <<"play", "restart">>, << >>}
      BY <2>2, Zenon DEF Operate, SetPlaying, Restart, StepMedia, SetLoop, Begin
    <3>2. {"first", "restart", "play", "pause"} = Stores
      OBVIOUS
    <3> HIDE DEF Stores
    <3>3. \A a, b, c \in Stores : {<< >>, <<a>>, <<a, b>>, <<a, b, c>>} \subseteq Seq(Stores)
      OBVIOUS
    <3>5. {"first", "restart", "play", "pause"} \subseteq Stores
      BY <3>2
    <3>4. op' \in Seq(Stores)
      BY <3>1, <3>3, <3>5
    <3> QED BY <3>4 DEF Stores
  <2>3. CASE Store
    <3>1. op # << >> /\ op' = Tail(op)
      BY <2>3 DEF Store
    <3> HIDE DEF Stores
    <3>2. op' \in Seq(Stores)
      BY <2>1, <3>1
    <3> QED BY <3>2 DEF Stores
  <2> QED BY <2>2, <2>3
<1>6. select' \in -1 .. Len(Items) - 1
  <2>1. TypeOK /\ Len(Items) \in Nat \ {0}
    BY MediaSettings DEF MediaInv
  <2>2. \/ select' = select
        \/ \E d \in {-1, 1} : select' = Stepped(d)
        \/ select' = 0
    BY Zenon DEF Operate, Store, StepMedia, SetLoop, Select, controls
  <2>3. select \in -1 .. Len(Items) - 1
    BY <2>1 DEF TypeOK
  <2>4. \A d \in {-1, 1} : Stepped(d) \in 0 .. Len(Items) - 1
    BY <2>1, SteppedIs
  <2> DEFINE N == Len(Items)
  <2>5. /\ N \in Nat \ {0} /\ select \in -1 .. N - 1
        /\ \A d \in {-1, 1} : Stepped(d) \in 0 .. N - 1
    BY <2>1, <2>3, <2>4
  <2> HIDE DEF N
  <2>6. select' \in -1 .. N - 1
    BY <2>2, <2>5
  <2> QED BY <2>6 DEF N
<1>5. TypeOK'
  BY <1>1, <1>2, <1>3, <1>4, <1>6 DEF MediaInv, TypeOK, decoder, clocks, pauses
<1>7. picked' = picked
  BY <1>1 DEF decoder
<1> QED BY <1>1, <1>5, <1>7, MediaRests DEF MediaInv

\* The decode thread keeps the types: an item it goes on to is one of the list, a
\* clock that is set back is set to an age it had.
LEMMA DecodeTypes ==
  ASSUME MediaInv, Decode
  PROVE  TypeOK'
<1>1. {media, playing, loop, restart, atEnd, was, want, paused, cued} \subseteq BOOLEAN
  BY DEF MediaInv, TypeOK
<1>2. {media, playing, loop, restart, atEnd, was, want, paused, cued}' \subseteq BOOLEAN
  BY <1>1, Zenon DEF Decode, TakeSelect, Selected, TakeRestart, NotAtEnd, LookPlaying, Open, Opened,
     Read, Trim, Pace, Publish, Advance, Ended, controls, state, operator, decoder, pauses
<1>3. /\ pc' \in {"top", "select", "selected", "restart", "restarted", "playing", "ready",
                  "read", "trim", "pace", "publish", "advance", "ended"}
      /\ op' = op /\ ops' = ops
  BY DEF MediaInv, TypeOK, Decode, TakeSelect, Selected, TakeRestart, NotAtEnd, LookPlaying, Open,
     Opened, Read, Trim, Pace, Publish, Advance, Ended, controls, state, operator, decoder, pauses
<1>4. /\ select' \in -1 .. Len(Items) - 1 /\ picked' \in -1 .. Len(Items) - 1
      /\ index' \in 0 .. Len(Items) - 1 /\ file' \in 0 .. Len(Items)
  <2>1. select' \in {-1, select} /\ picked' \in {select, picked}
    BY Zenon DEF Decode, TakeSelect, Selected, TakeRestart, NotAtEnd, LookPlaying, Open,
       Opened, Read, Trim, Pace, Publish, Advance, Ended, controls, state, operator, decoder
  <2>2. \/ index' \in {index, 0}
        \/ index' = index + 1 /\ index + 1 < Len(Items)
        \/ pc = "select" /\ index' = picked
    <3>1. CASE Advance
      BY <3>1 DEF Advance, NextItem
    <3> QED BY <3>1, Zenon DEF Decode, TakeSelect, Selected, TakeRestart, NotAtEnd, LookPlaying, Open,
       Opened, Read, Trim, Pace, Publish, Ended, controls, state, operator, decoder
  <2>4. file' \in {0, file, index + 1}
    BY DEF Decode, TakeSelect, Selected, TakeRestart, NotAtEnd, LookPlaying, Open,
       Opened, Read, Trim, Pace, Publish, Advance, Ended, controls, state, operator, decoder
  <2>3. pc = "select" => picked >= 0
    BY DEF MediaInv
  <2> DEFINE N == Len(Items)
  <2>5. /\ N \in Nat \ {0} /\ select \in -1 .. N - 1 /\ picked \in -1 .. N - 1
        /\ index \in 0 .. N - 1 /\ file \in 0 .. N
    BY MediaSettings DEF MediaInv, TypeOK
  <2>6. (index + 1 < Len(Items)) <=> (index + 1 < N)
    OBVIOUS
  <2> HIDE DEF N
  <2>7. /\ select' \in -1 .. N - 1 /\ picked' \in -1 .. N - 1
        /\ index' \in 0 .. N - 1 /\ file' \in 0 .. N
    BY <2>1, <2>2, <2>3, <2>4, <2>5, <2>6
  <2> QED BY <2>7 DEF N
<1>5. pos' \in Nat /\ frame' \in Nat /\ first' \in {-1} \cup Nat /\ faults' \in 0 .. MaxFaults
  <2>1. Item(index).in \in Nat
    <3>1. Item(index) \in Clips
      BY MediaSettings DEF MediaInv, TypeOK
    <3> QED BY <3>1, ClipNumbers
  <2>2. pos' \in {pos, 0, pos + 1} \cup 0 .. Item(index).in /\ frame' \in {frame, pos} /\ first' \in {-1, first, frame}
    BY DEF Decode, TakeSelect, Selected, TakeRestart, NotAtEnd, LookPlaying, Open,
       Opened, Read, Trim, Pace, Publish, Advance, Ended, controls, state, operator, decoder
  <2>3. faults' = faults \/ (faults < MaxFaults /\ faults' = faults + 1)
    <3>1. CASE Open
      BY <3>1, Zenon DEF Open
    <3>2. CASE Read
      BY <3>2, Zenon DEF Read
    <3>3. CASE ~Open /\ ~Read
      <4>1. faults' = faults
        BY <3>3, Zenon DEF Decode, TakeSelect, Selected, TakeRestart, NotAtEnd, LookPlaying,
           Opened, Trim, Pace, Publish, Advance, Ended
      <4> QED BY <4>1
    <3> QED BY <3>1, <3>2, <3>3
  <2>4. pos \in Nat /\ frame \in Nat /\ first \in {-1} \cup Nat /\ faults \in 0 .. MaxFaults
    BY DEF MediaInv, TypeOK
  <2>5. pos' \in Nat /\ frame' \in Nat /\ first' \in {-1} \cup Nat
    BY <2>1, <2>2, <2>4
  <2>6. faults' \in 0 .. MaxFaults
    BY <2>3, <2>4, MediaSettings
  <2> QED BY <2>5, <2>6
<1>6. age' \in 0 .. MaxAge /\ ran' \in 0 .. MaxAge /\ pausedAge' \in -1 .. MaxAge
  <2>1. age \in 0 .. MaxAge /\ ran \in 0 .. MaxAge /\ pausedAge \in -1 .. MaxAge /\ MaxAge \in Nat
    BY MediaSettings DEF MediaInv, TypeOK
  <2>2. age' \in {age, Resumed, 0}
    <3>1. CASE LookPlaying
      BY <3>1, Zenon DEF LookPlaying
    <3>2. CASE Trim
      BY <3>2, Zenon DEF Trim, clocks
    <3> QED BY <3>1, <3>2, Zenon DEF Decode, TakeSelect, Selected, TakeRestart, NotAtEnd, Open,
       Opened, Read, Pace, Publish, Advance, Ended, clocks
  <2>3. ran' \in {ran, 0}
    <3>1. CASE LookPlaying
      BY <3>1, Zenon DEF LookPlaying
    <3>2. CASE Trim
      BY <3>2, Zenon DEF Trim, clocks
    <3> QED BY <3>1, <3>2, Zenon DEF Decode, TakeSelect, Selected, TakeRestart, NotAtEnd, Open,
       Opened, Read, Pace, Publish, Advance, Ended, clocks
  <2>4. pausedAge' \in {pausedAge, age, -1}
    <3>1. CASE LookPlaying
      BY <3>1, Zenon DEF LookPlaying
    <3>2. CASE Open
      BY <3>2, Zenon DEF Open
    <3> QED BY <3>1, <3>2, Zenon DEF Decode, TakeSelect, Selected, TakeRestart, NotAtEnd,
       Opened, Read, Trim, Pace, Publish, Advance, Ended, decoder, pauses
  <2>5. Resumed \in 0 .. MaxAge
    BY <2>1 DEF Resumed
  <2> QED BY <2>1, <2>2, <2>3, <2>4, <2>5
<1> QED BY <1>2, <1>3, <1>4, <1>5, <1>6 DEF MediaInv, TypeOK

\* The file of the frame in hand is the item of the list: both are changed at once.
LEMMA DecodeFile ==
  ASSUME MediaInv, Decode, media
  PROVE  FileInv'
<1>1. /\ FileInv /\ index \in 0 .. Len(Items) - 1 /\ Item(index) = Items[index + 1]
      /\ first \in {-1} \cup Nat /\ frame \in Nat
  BY MediaSettings DEF MediaInv, TypeOK
<1> USE DEF FileInv, Onscreen, state, decoder
<1>2. CASE TakeSelect \/ Selected \/ TakeRestart \/ NotAtEnd \/ LookPlaying \/ Ended
  BY <1>1, <1>2 DEF TakeSelect, Selected, TakeRestart, NotAtEnd, LookPlaying, Ended
<1>3. CASE Open
  BY <1>1, <1>3 DEF Open
<1>6. CASE Opened \/ Read
  BY <1>1, <1>6 DEF Opened, Read
<1>4. CASE Trim
  <2>1. CASE frame < Item(index).in \/ (Item(index).out > 0 /\ frame >= Item(index).out)
    BY <1>1, <1>4, <2>1 DEF Trim
  <2>2. CASE ~(frame < Item(index).in) /\ ~(Item(index).out > 0 /\ frame >= Item(index).out)
    <3>1. /\ pc' = "pace" /\ file' = file /\ index' = index /\ frame' = frame
          /\ (first >= 0 /\ first' = first) \/ first' = frame
      BY <1>1, <1>4, <2>2 DEF Trim
    <3>2. Item(index).in \in Nat /\ Item(index).out \in Nat
      <4>1. Item(index) \in Clips
        BY <1>1, MediaSettings
      <4> QED BY <4>1, ClipNumbers
    <3>4. Item(index) = Items[file]
      BY <1>1, <1>4 DEF Trim
    <3>3. frame >= Items[file].in /\ (Items[file].out > 0 => frame < Items[file].out)
      BY <1>1, <2>2, <3>2, <3>4
    <3> QED BY <1>1, <1>4, <3>1, <3>3 DEF Trim
  <2> QED BY <2>1, <2>2
<1>5. CASE Pace \/ Publish \/ Advance
  BY <1>1, <1>5 DEF Pace, Publish, Advance
<1> QED BY <1>2, <1>3, <1>4, <1>5, <1>6 DEF Decode

\* A pause sets the clock back to where it was noticed; a new clip starts it over.
LEMMA DecodeClock ==
  ASSUME MediaInv, Decode, media
  PROVE  ClockInv'
<1>1. ClockInv /\ age \in Nat /\ ran \in Nat /\ pausedAge \in {-1} \cup Nat /\ first \in {-1} \cup Nat
  BY MediaSettings DEF MediaInv, TypeOK
<1>0. {was, paused, cued, playing} \subseteq BOOLEAN
  BY DEF MediaInv, TypeOK
<1>2. CASE TakeSelect \/ Selected \/ TakeRestart \/ NotAtEnd \/ Ended
  <2>1. pc' \notin Onscreen \cup {"ready"}
    BY <1>2 DEF TakeSelect, Selected, TakeRestart, NotAtEnd, Ended, Onscreen
  <2>2. UNCHANGED <<was, paused, cued, pausedAge, first, age, ran>>
    BY <1>2, Zenon DEF TakeSelect, Selected, TakeRestart, NotAtEnd, Ended, clocks, pauses, decoder
  <2> QED BY <1>1, <2>1, <2>2, Zenon DEF ClockInv
<1>3. CASE LookPlaying
  <2>1. CASE playing
    <3>1. /\ pc' = "ready" /\ pausedAge' = pausedAge /\ first' = first /\ ran' = ran
          /\ age' = IF was THEN age ELSE Resumed
      BY <1>3, <2>1, Zenon DEF LookPlaying
    <3>2. was' = TRUE /\ paused' = FALSE /\ cued' = cued
      BY <1>0, <1>3, <2>1, Zenon DEF LookPlaying
    <3>3. first >= 0 /\ ~cued => age' <= ran
      BY <1>0, <1>1, <3>1 DEF Resumed, ClockInv
    <3> QED BY <3>1, <3>2, <3>3 DEF ClockInv
  <2>2. CASE ~playing
    <3>1. /\ pc' = "top" /\ first' = first /\ ran' = ran /\ age' = age
          /\ pausedAge' = IF was THEN age ELSE pausedAge
      BY <1>3, <2>2, Zenon DEF LookPlaying
    <3>2. was' = FALSE /\ paused' = TRUE /\ (cued' <=> cued \/ (~was /\ first >= 0 /\ pausedAge < 0))
      BY <1>0, <1>3, <2>2, Zenon DEF LookPlaying
    <3>3. first >= 0 /\ ~cued' => pausedAge' \in 0 .. ran
      BY <1>0, <1>1, <3>1, <3>2 DEF ClockInv
    <3> QED BY <3>1, <3>2, <3>3 DEF ClockInv, Onscreen
  <2> QED BY <2>1, <2>2
<1>4. CASE Open
  BY <1>4 DEF Open, ClockInv
<1>5. CASE Opened \/ Read \/ Pace \/ Publish \/ Advance
  <2>1. pc' \in Onscreen \cup {"ready"} => pc \in Onscreen \cup {"ready"}
    BY <1>5 DEF Opened, Read, Pace, Publish, Advance, Onscreen
  <2>2. UNCHANGED <<was, paused, cued, pausedAge, first, age, ran>>
    BY <1>5, Zenon DEF Opened, Read, Pace, Publish, Advance, clocks, pauses, decoder
  <2> QED BY <1>1, <2>1, <2>2, Zenon DEF ClockInv
<1>6. CASE Trim
  <2>1. UNCHANGED <<was, paused, cued, pausedAge>> /\ ~paused /\ pc' # "ready"
    BY <1>1, <1>6, Zenon DEF Trim, ClockInv, Onscreen, pauses
  <2>2. \/ UNCHANGED <<first, age, ran>>
        \/ age' = 0 /\ ran' = 0
    BY <1>6, Zenon DEF Trim, clocks
  <2> QED BY <1>1, <2>1, <2>2 DEF ClockInv
<1> QED BY <1>2, <1>3, <1>4, <1>5, <1>6 DEF Decode

\* A frame goes out once the clock of its clip has come to it.
LEMMA DecodePlays ==
  ASSUME MediaInv, Decode, FileInv'
  PROVE  PlaysTheClip'
<1> SUFFICES ASSUME media', pc' = "publish" PROVE PlaysTheClip'
  BY DEF PlaysTheClip
<1>1. media' = media
  BY Zenon DEF Decode, TakeSelect, Selected, TakeRestart, NotAtEnd, LookPlaying, Open,
     Opened, Read, Trim, Pace, Publish, Advance, Ended
<1>2. Pace
  BY <1>1, Zenon DEF Decode, TakeSelect, Selected, TakeRestart, NotAtEnd, LookPlaying, Open,
     Opened, Read, Trim, Publish, Advance, Ended
<1>3. /\ pc = "pace" /\ age >= Wall(Item(index), frame - first)
      /\ UNCHANGED <<file, frame, first, ran, cued>>
  BY <1>2 DEF Pace, decoder, clocks, pauses
<1>4. /\ FileInv /\ ClockInv /\ age \in Nat /\ ran \in Nat /\ frame \in Int /\ first \in Int
      /\ index \in 0 .. Len(Items) - 1
  BY <1>1, MediaSettings DEF MediaInv, TypeOK
<1>5. Item(index) = Items[file] /\ Item(index).speed \in Speeds
  <2>1. Item(index) = Items[index + 1] /\ Item(index) \in Clips
    BY <1>4, MediaSettings
  <2>2. file = index + 1
    BY <1>3, <1>4 DEF FileInv, Onscreen
  <2>3. Item(index).speed \in Speeds
    BY <2>1, ClipNumbers
  <2>4. Item(index) = Items[file]
    <3> DEFINE X == Item(index)
               Y(n) == Items[n]
    <3>1. X = Y(index + 1)
      BY <2>1
    <3> HIDE DEF X, Y
    <3>2. X = Y(file)
      BY <2>2, <3>1
    <3> QED BY <3>2 DEF X, Y
  <2> QED BY <2>3, <2>4
<1> DEFINE W == Wall(Item(index), frame - first)
<1>6. W \in Int
  <2>1. frame - first \in Int
    BY <1>4
  <2> QED BY <1>5, <2>1, WallIsInt
<1>7. ~cued => age <= ran
  BY <1>3, <1>4 DEF ClockInv, FileInv, Onscreen
<1>8. W = Wall(Items[file], frame - first)
  BY <1>5
<1>9. ~cued => W <= ran
  <2> HIDE DEF W
  <2> QED BY <1>3, <1>4, <1>6, <1>7 DEF W
<1>10. cued' \/ Due'
  <2>1. Due' = (W <= ran)
    BY <1>3, <1>8 DEF Due, Wall
  <2> QED BY <1>3, <1>9, <2>1, Zenon
<1> QED BY <1>10, Zenon DEF FileInv, PlaysTheClip

\* The clock of a clip is not ahead of its playing time when time passes.
LEMMA ClockTicks ==
  ASSUME MediaInv, Tick
  PROVE  MediaInv'
<1>1. /\ UNCHANGED <<media, controls, state, operator, faults, pc, decoder, pauses>>
      /\ age' = IF age < MaxAge THEN age + 1 ELSE age
      /\ ran' = IF ~paused /\ ran < MaxAge THEN ran + 1 ELSE ran
  BY Zenon DEF Tick
<1>2. TypeOK /\ MaxAge \in Nat
  BY MediaSettings DEF MediaInv
<1>3. age' \in 0 .. MaxAge /\ ran' \in 0 .. MaxAge
  <2>1. age \in 0 .. MaxAge /\ ran \in 0 .. MaxAge
    BY <1>2, Zenon DEF TypeOK
  <2>2. age' \in 0 .. MaxAge
    BY <1>1, <1>2, <2>1
  <2>3. ran' \in 0 .. MaxAge
    BY <1>1, <1>2, <2>1
  <2> QED BY <2>2, <2>3
<1>4. TypeOK'
  <2>1. {media, playing, loop, restart, atEnd, was, want, paused, cued}' \subseteq BOOLEAN
    BY <1>1, <1>2, Zenon DEF TypeOK, controls, state, operator, decoder, pauses
  <2> QED BY <1>1, <1>2, <1>3, <2>1 DEF TypeOK, controls, state, operator, decoder
<1>5. FileInv' = FileInv
  BY <1>1 DEF FileInv, state, decoder
<1>6. ran <= ran'
  BY <1>1, <1>2 DEF TypeOK
<1>7. media => ClockInv'
  <2>1. ~paused /\ age <= ran => age' <= ran'
    BY <1>1, <1>2 DEF TypeOK
  <2>2. pausedAge \in 0 .. ran => pausedAge \in 0 .. ran'
    BY <1>2, <1>3, <1>6 DEF TypeOK
  <2>3. UNCHANGED <<pc, was, paused, cued, pausedAge, first>>
    BY <1>1 DEF decoder, pauses
  <2> QED BY <2>1, <2>2, <2>3, Zenon DEF MediaInv, ClockInv
<1>8. PlaysTheClip'
  <2> SUFFICES ASSUME media, pc = "publish" PROVE PlaysTheClip'
    BY <1>1 DEF PlaysTheClip
  <2>1. UNCHANGED <<pc, file, frame, first, cued>>
    BY <1>1 DEF decoder, pauses
  <2>2. /\ frame >= Items[file].in
        /\ Items[file].out > 0 => frame < Items[file].out
        /\ cued \/ Due
    BY DEF MediaInv, PlaysTheClip
  <2> DEFINE W == Wall(Items[file], frame - first)
  <2>3. W \in Int
    <3>1. /\ file # 0 /\ file = index + 1 /\ index \in 0 .. Len(Items) - 1
          /\ frame \in Int /\ first \in Int
      BY MediaSettings DEF MediaInv, TypeOK, FileInv, Onscreen
    <3>2. Item(index) = Items[file] /\ Item(index) \in Clips
      BY <3>1, MediaSettings
    <3>3. Items[file].speed \in Speeds
      BY <3>2, ClipNumbers
    <3>4. frame - first \in Int
      BY <3>1
    <3> QED BY <3>3, <3>4, WallIsInt
  <2>4. Due => W <= ran'
    <3>1. Due = (W <= ran)
      BY DEF Due
    <3> HIDE DEF W
    <3>2. ran \in Nat /\ ran' \in Nat
      BY <1>2, <1>3 DEF TypeOK
    <3> SUFFICES ASSUME Due PROVE W <= ran'
      OBVIOUS
    <3>3. W <= ran
      BY <3>1
    <3> QED BY <1>6, <2>3, <3>2, <3>3
  <2>5. Due' = (W <= ran')
    BY <2>1 DEF Due, Wall
  <2> QED BY <2>1, <2>2, <2>4, <2>5, Zenon DEF PlaysTheClip
<1> QED BY <1>1, <1>4, <1>5, <1>7, <1>8 DEF MediaInv, decoder

\* A step of the media part.
LEMMA MediaStep ==
  ASSUME MediaInv, Next
  PROVE  MediaInv'
<1>1. CASE Operate \/ Store
  BY <1>1, OperatorStep
<1>2. CASE Decode
  <2>1. media' = media
    BY <1>2, Zenon DEF Decode, TakeSelect, Selected, TakeRestart, NotAtEnd, LookPlaying, Open,
       Opened, Read, Trim, Pace, Publish, Advance, Ended
  <2>2. TypeOK' /\ (media => FileInv' /\ ClockInv')
    BY <1>2, DecodeTypes, DecodeFile, DecodeClock
  <2>3. PlaysTheClip'
    <3>1. CASE media
      BY <1>2, <2>2, <3>1, DecodePlays
    <3>2. CASE ~media
      BY <2>1, <3>2 DEF PlaysTheClip
    <3> QED BY <3>1, <3>2
  <2>4. pc' = "select" => media /\ picked' >= 0
    <3> SUFFICES ASSUME pc' = "select" PROVE media /\ picked' >= 0
      OBVIOUS
    <3>1. TakeSelect
      BY <1>2, Zenon DEF Decode, Selected, TakeRestart, NotAtEnd, LookPlaying, Open,
         Opened, Read, Trim, Pace, Publish, Advance, Ended
    <3> QED BY <3>1 DEF TakeSelect
  <2> QED BY <2>1, <2>2, <2>3, <2>4 DEF MediaInv
<1>3. CASE Tick
  BY <1>3, ClockTicks
<1> QED BY <1>1, <1>2, <1>3 DEF Next

---------------------------------------------------------------------------
(* The SDI input.                                                          *)

\* While the streams run, the rate stored is that of the mode the card was given,
\* unless that is the seed's: both are set between the stop of the streams and their
\* start, when no callback is in flight.
SdiInv ==
  /\ Sdi!TypeOK
  /\ worker \in {"clear", "enable", "rate", "run"} => ~card.running
  /\ callback.kind # "none" => card.running
  /\ callback.kind = "frame" => callback.mode = card.enabled
  /\ worker = "rate" => card.enabled = IF taken = Sdi!NoMode THEN Seed ELSE taken
  /\ worker = "run" \/ card.running => card.enabled \in {Seed, fps}
  /\ Sdi!RateIsTheFrames

\* The SDI part starts with its invariant.
LEMMA SdiStarts == Sdi!Init => SdiInv
<1> SUFFICES ASSUME Sdi!Init PROVE SdiInv
  OBVIOUS
<1>1. {opening, streaming, locked, fresh} \subseteq BOOLEAN
  BY Zenon DEF Sdi!Init
<1> QED BY <1>1, SourcesAssumption
        DEF SdiInv, Sdi!Init, Sdi!TypeOK, Sdi!RateIsTheFrames, Sdi!SdiAssumption, Sdi!Closed, Sdi!Idle

\* A step of the SDI part keeps the types.
LEMMA SdiTypes ==
  ASSUME SdiInv, Sdi!Next
  PROVE  Sdi!TypeOK'
<1>1. Seed \in Modes /\ MaxEvents \in Nat
  BY SourcesAssumption DEF Sdi!SdiAssumption
<1>2. Sdi!TypeOK
  BY DEF SdiInv
<1>3. forced' = forced /\ (detects' = detects)
  BY Zenon DEF Sdi!Next, Sdi!Worker, Sdi!Loop, Sdi!Close, Sdi!Open, Sdi!Enable, Sdi!Rate, Sdi!Run, Sdi!Take, Sdi!Stop,
     Sdi!Watch, Sdi!CardReports, Sdi!OnFormatChanged, Sdi!FrameArrives, Sdi!OnFrame, Sdi!World, Sdi!Quiet
<1>4. {detects, avail, opening, streaming, locked, fresh}' \subseteq BOOLEAN
  <2>1. {detects, avail, opening, streaming, locked, fresh} \subseteq BOOLEAN
    BY <1>2 DEF Sdi!TypeOK
  <2> QED BY <2>1, Zenon DEF Sdi!Next, Sdi!Worker, Sdi!Loop, Sdi!Close, Sdi!Open, Sdi!Enable, Sdi!Rate, Sdi!Run, Sdi!Take, Sdi!Stop,
     Sdi!Watch, Sdi!CardReports, Sdi!OnFormatChanged, Sdi!FrameArrives, Sdi!OnFrame, Sdi!World, Sdi!Quiet
<1>5. /\ worker' \in {"loop", "close", "clear", "enable", "rate", "run", "take", "stop", "watch"}
      /\ signal' \in Modes \cup {Sdi!NoMode} /\ taken' \in Modes \cup {Sdi!NoMode}
      /\ pending' \in Modes \cup {Sdi!NoMode} /\ fps' \in Modes /\ changes' \in 0 .. MaxEvents
  <2>1. changes' = changes \/ (changes < MaxEvents /\ changes' = changes + 1)
    BY Zenon DEF Sdi!Next, Sdi!Worker, Sdi!Loop, Sdi!Close, Sdi!Open, Sdi!Enable, Sdi!Rate,
         Sdi!Run, Sdi!Take, Sdi!Stop, Sdi!Watch, Sdi!CardReports, Sdi!OnFormatChanged,
         Sdi!FrameArrives, Sdi!OnFrame, Sdi!World, Sdi!Quiet
  <2>2. /\ worker' \in {"loop", "close", "clear", "enable", "rate", "run", "take", "stop", "watch"}
        /\ signal' \in Modes \cup {Sdi!NoMode} /\ taken' \in {taken, forced, pending}
        /\ pending' \in {pending, Sdi!NoMode, callback.mode}
        /\ fps' = fps \/ (taken # Sdi!NoMode /\ fps' = taken)
    BY <1>2, Zenon DEF Sdi!Next, Sdi!Worker, Sdi!Loop, Sdi!Close, Sdi!Open, Sdi!Enable, Sdi!Rate,
         Sdi!Run, Sdi!Take, Sdi!Stop, Sdi!Watch, Sdi!CardReports, Sdi!OnFormatChanged,
         Sdi!FrameArrives, Sdi!OnFrame, Sdi!World, Sdi!Quiet,
         Sdi!TypeOK, Sdi!Unstarted, Sdi!Started, Sdi!card_vars
  <2> QED BY <1>1, <1>2, <2>1, <2>2 DEF Sdi!TypeOK
<1>6. callback' \in [kind : {"none", "format", "frame"}, mode : Modes \cup {Sdi!NoMode}]
  BY <1>2 DEF Sdi!Next, Sdi!Worker, Sdi!Loop, Sdi!Close, Sdi!Open, Sdi!Enable, Sdi!Rate,
         Sdi!Run, Sdi!Take, Sdi!Stop, Sdi!Watch, Sdi!CardReports, Sdi!OnFormatChanged,
         Sdi!FrameArrives, Sdi!OnFrame, Sdi!World, Sdi!Quiet,
         Sdi!TypeOK, Sdi!Idle, Sdi!card_vars
<1>7. published' \in [mode : Modes \cup {Sdi!NoMode}, rate : Modes \cup {Sdi!NoMode}]
  BY <1>2 DEF Sdi!Next, Sdi!Worker, Sdi!Loop, Sdi!Close, Sdi!Open, Sdi!Enable, Sdi!Rate,
         Sdi!Run, Sdi!Take, Sdi!Stop, Sdi!Watch, Sdi!CardReports, Sdi!OnFormatChanged,
         Sdi!FrameArrives, Sdi!OnFrame, Sdi!World, Sdi!Quiet,
         Sdi!TypeOK, Sdi!card_vars
<1>8. card' \in [enabled : Modes \cup {Sdi!NoMode}, running : BOOLEAN,
                 told : Modes \cup {Sdi!NoMode}, stalled : BOOLEAN]
  <2>1. CASE Sdi!Close \/ Sdi!Stop \/ Sdi!Run
    <3>1. \/ card' = Sdi!Closed \/ card' = card
          \/ card' = [card EXCEPT !.running = FALSE] \/ card' = [card EXCEPT !.running = TRUE]
      BY <2>1, Zenon DEF Sdi!Close, Sdi!Stop, Sdi!Run
    <3>2. card \in [enabled : Modes \cup {Sdi!NoMode}, running : BOOLEAN,
                   told : Modes \cup {Sdi!NoMode}, stalled : BOOLEAN]
      BY <1>2 DEF Sdi!TypeOK
    <3>3. Sdi!Closed \in [enabled : Modes \cup {Sdi!NoMode}, running : BOOLEAN,
                          told : Modes \cup {Sdi!NoMode}, stalled : BOOLEAN]
      BY DEF Sdi!Closed
    <3>4. ASSUME NEW b \in BOOLEAN
          PROVE  [card EXCEPT !.running = b] \in [enabled : Modes \cup {Sdi!NoMode}, running : BOOLEAN,
                                                 told : Modes \cup {Sdi!NoMode}, stalled : BOOLEAN]
      BY <3>2
    <3> QED BY <3>1, <3>2, <3>3, <3>4, Zenon
  <2>2. CASE Sdi!Enable
    <3> DEFINE Named == Modes \cup {Sdi!NoMode}
               Cards == [enabled : Named, running : BOOLEAN, told : Named, stalled : BOOLEAN]
               Set(m) == [card EXCEPT !.enabled = m, !.told = m, !.stalled = FALSE]
    <3>1. card \in Cards /\ taken \in Named
      BY <1>2 DEF Sdi!TypeOK
    <3>2. \A m \in Named : Set(m) \in Cards
      BY <3>1
    <3>3. \/ card' = card
          \/ card' = Set(IF taken = Sdi!NoMode THEN Seed ELSE taken)
      BY <2>2, Zenon DEF Sdi!Enable
    <3> HIDE DEF Cards, Set
    <3>4. (IF taken = Sdi!NoMode THEN Seed ELSE taken) \in Named
      BY <1>1, <3>1
    <3>5. card' \in Cards
      BY <3>1, <3>2, <3>3, <3>4
    <3> QED BY <3>5 DEF Cards
  <2>3. CASE Sdi!CardReports
    BY <1>2, <2>3 DEF Sdi!TypeOK, Sdi!CardReports
  <2>4. CASE Sdi!World
    <3>1. \/ card' = card
          \/ card' = [card EXCEPT !.stalled = TRUE]
          \/ card' = [card EXCEPT !.stalled = card.running]
      BY <2>4, Zenon DEF Sdi!World
    <3> DEFINE Named == Modes \cup {Sdi!NoMode}
               Cards == [enabled : Named, running : BOOLEAN, told : Named, stalled : BOOLEAN]
    <3>2. card \in Cards /\ card.running \in BOOLEAN
      BY <1>2 DEF Sdi!TypeOK
    <3>3. \A b \in BOOLEAN : [card EXCEPT !.stalled = b] \in Cards
      BY <3>2
    <3> HIDE DEF Cards
    <3>4. card' \in Cards
      BY <3>1, <3>2, <3>3
    <3> QED BY <3>4 DEF Cards
  <2>5. card' = card \/ Sdi!Close \/ Sdi!Stop \/ Sdi!Run \/ Sdi!Enable \/ Sdi!CardReports \/ Sdi!World
    BY Zenon DEF Sdi!Next, Sdi!Worker, Sdi!Loop, Sdi!Open, Sdi!Rate, Sdi!Take, Sdi!Watch,
         Sdi!OnFormatChanged, Sdi!FrameArrives, Sdi!OnFrame, Sdi!Quiet, Sdi!card_vars
  <2> QED BY <1>2, <2>1, <2>2, <2>3, <2>4, <2>5 DEF Sdi!TypeOK
<1> QED BY <1>2, <1>3, <1>4, <1>5, <1>6, <1>7, <1>8 DEF Sdi!TypeOK

\* The worker sets the mode and the rate of the card while it is stopped.
LEMMA SdiStep ==
  ASSUME SdiInv, Sdi!Next
  PROVE  SdiInv'
<1>1. Sdi!TypeOK /\ Sdi!TypeOK'
  BY SdiTypes DEF SdiInv
<1>2. Seed \in Modes /\ Sdi!NoMode \notin Modes
  BY SourcesAssumption DEF Sdi!SdiAssumption
<1>3. /\ card \in [enabled : Modes \cup {Sdi!NoMode}, running : BOOLEAN,
                   told : Modes \cup {Sdi!NoMode}, stalled : BOOLEAN]
      /\ callback \in [kind : {"none", "format", "frame"}, mode : Modes \cup {Sdi!NoMode}]
  BY <1>1 DEF Sdi!TypeOK
<1> USE DEF SdiInv, Sdi!RateIsTheFrames
<1>4. CASE Sdi!Loop \/ Sdi!Open \/ Sdi!Take \/ Sdi!Watch
  BY <1>1, <1>4 DEF Sdi!Loop, Sdi!Open, Sdi!Take, Sdi!Watch, Sdi!card_vars
<1>5. CASE Sdi!Close
  BY <1>1, <1>5 DEF Sdi!Close, Sdi!Closed, Sdi!Idle
<1>6. CASE Sdi!Enable
  BY <1>1, <1>2, <1>3, <1>6 DEF Sdi!Enable, Sdi!Unstarted
<1>7. CASE Sdi!Rate
  BY <1>1, <1>2, <1>3, <1>7 DEF Sdi!Rate, Sdi!card_vars
<1>8. CASE Sdi!Run
  BY <1>1, <1>3, <1>8 DEF Sdi!Run, Sdi!Started, Sdi!Unstarted, Sdi!Idle
<1>9. CASE Sdi!Stop
  BY <1>1, <1>3, <1>9 DEF Sdi!Stop, Sdi!Idle
<1>10. CASE Sdi!CardReports \/ Sdi!World
  BY <1>1, <1>3, <1>10 DEF Sdi!CardReports, Sdi!World, Sdi!Idle
<1>11. CASE Sdi!OnFormatChanged \/ Sdi!OnFrame
  BY <1>1, <1>2, <1>3, <1>11 DEF Sdi!OnFormatChanged, Sdi!OnFrame, Sdi!Idle
<1>12. CASE Sdi!FrameArrives
  BY <1>1, <1>3, <1>12 DEF Sdi!FrameArrives, Sdi!Idle
<1>13. CASE Sdi!Quiet
  BY <1>1, <1>13 DEF Sdi!Quiet, Sdi!card_vars
<1> QED BY <1>4, <1>5, <1>6, <1>7, <1>8, <1>9, <1>10, <1>11, <1>12, <1>13 DEF Sdi!Next, Sdi!Worker

---------------------------------------------------------------------------
(* The OMT input.                                                          *)

\* A slot known to be opaque has an opaque matte in its staging plane.
OmtInv ==
  /\ Omt!TypeOK
  /\ \A s \in opaque : matte[s] = "opaque"
  /\ Omt!MatteIsThePictures

\* The OMT part starts with its invariant.
LEMMA OmtStarts == Omt!Init => OmtInv
<1> SUFFICES ASSUME Omt!Init PROVE OmtInv
  OBVIOUS
<1>1. {recv, connected, everConnected, alphaConn} \subseteq BOOLEAN
  BY Zenon DEF Omt!Init
<1> QED BY <1>1, SourcesAssumption
        DEF OmtInv, Omt!Init, Omt!TypeOK, Omt!Stamps, Omt!MatteIsThePictures, Omt!NoMatte, Omt!NewStamps, Omt!OmtAssumption

\* A stamp leaves a record of stamps.
LEMMA StampedIs ==
  ASSUME stamps \in Omt!Stamps, NEW stamp
  PROVE  Omt!Stamped(stamp) \in Omt!Stamps
<1>1. BadLimit \in Nat
  BY SourcesAssumption DEF Omt!OmtAssumption
<1>2. /\ stamps.bad \in 0 .. BadLimit
      /\ \A b \in BOOLEAN : [stamps EXCEPT !.synth = b] \in Omt!Stamps
  BY DEF Omt!Stamps
<1>3. \A n \in Int, h, b \in BOOLEAN : n >= 0 =>
         [have |-> TRUE, gap |-> FALSE, bad |-> IF n > BadLimit THEN BadLimit ELSE n, synth |-> n > BadLimit]
           \in Omt!Stamps
  BY <1>1 DEF Omt!Stamps
<1> DEFINE late == stamps.have /\ (stamp = "jump" \/ stamps.gap)
           bad  == IF late THEN stamps.bad + 1 ELSE IF stamps.have THEN 0 ELSE stamps.bad
<1>4. bad \in Int /\ bad >= 0
  BY <1>1, <1>2
<1>5. Omt!Stamped(stamp) \in {stamps, [stamps EXCEPT !.synth = TRUE],
         [have |-> TRUE, gap |-> FALSE, bad |-> IF bad > BadLimit THEN BadLimit ELSE bad, synth |-> bad > BadLimit]}
  BY DEF Omt!Stamped
<1> HIDE DEF bad
<1> QED BY <1>2, <1>3, <1>4, <1>5

\* A picture in a slot: the mark and the plane change together.
LEMMA PictureStep ==
  ASSUME OmtInv, NEW alpha \in BOOLEAN, NEW stamp \in {"none", "next", "jump"},
         Omt!Picture(alpha, stamp)
  PROVE  OmtInv'
<1> DEFINE sought == Omt!Wanted(alpha)
           held == IF sought = ring THEN busy ELSE {}
           known == IF sought = ring THEN opaque ELSE {}
<1>1. /\ {recv, connected, everConnected, alphaConn} \subseteq BOOLEAN
      /\ tally \in Tallies /\ {applied, told} \subseteq Tallies \cup {Omt!Unsent}
      /\ reconnects \in 0..1
      /\ busy \subseteq Slots /\ opaque \subseteq Slots
      /\ matte \in [Slots -> {"old", "opaque"}]
      /\ shown \in [sent : {"none", "own", "opaque"}, matte : {"none", "own", "opaque", "old"}]
      /\ stamps \in Omt!Stamps
      /\ events \in 0..MaxEvents
  BY DEF OmtInv, Omt!TypeOK
<1>2. /\ connected' = TRUE /\ everConnected' = TRUE
      /\ alphaConn' = (alphaConn \/ alpha) /\ recv' = recv
      /\ ring' = sought
      /\ UNCHANGED <<tally, applied, told, reconnects, events>>
  BY Zenon DEF Omt!Picture
<1>3. sought \in {"uyva", "uyvy"} /\ held \subseteq Slots /\ known \subseteq Slots
  BY <1>1 DEF Omt!Wanted
<1>4. {recv, connected, everConnected, alphaConn}' \subseteq BOOLEAN
  BY <1>1, <1>2, Zenon
<1>5. ASSUME NEW s \in Slots \ held,
             busy' = held \cup {s},
             IF sought = "uyvy"
                  THEN opaque' = {} /\ shown' = Omt!NoMatte /\ UNCHANGED matte
                  ELSE /\ opaque' = Omt!OpaqueAfter(known, s, alpha)
                       /\ shown' = [sent |-> IF alpha THEN "own" ELSE "opaque",
                                    matte |-> Omt!Copied(known, s, alpha)]
                       /\ matte' = [matte EXCEPT ![s] = IF shown'.matte = "opaque"
                                                         THEN "opaque" ELSE "old"],
             stamps' = Omt!Stamped(stamp)
      PROVE  OmtInv'
  <2>1. stamps' \in Omt!Stamps
    BY <1>1, <1>5, StampedIs
  <2>2. /\ opaque' \subseteq Slots /\ matte' \in [Slots -> {"old", "opaque"}]
        /\ shown' \in [sent : {"none", "own", "opaque"}, matte : {"none", "own", "opaque", "old"}]
        /\ \A x \in opaque' : matte'[x] = "opaque"
        /\ shown'.matte = shown'.sent
    <3>1. CASE sought = "uyvy"
      BY <1>1, <1>5, <3>1 DEF Omt!NoMatte
    <3>2. CASE sought = "uyva"
      <4>1. \A x \in known : matte[x] = "opaque"
        BY DEF OmtInv
      <4>2. /\ opaque' = Omt!OpaqueAfter(known, s, alpha)
            /\ shown' = [sent |-> IF alpha THEN "own" ELSE "opaque", matte |-> Omt!Copied(known, s, alpha)]
            /\ matte' = [matte EXCEPT ![s] = IF shown'.matte = "opaque" THEN "opaque" ELSE "old"]
        BY <1>5, <3>2
      <4>3. CASE alpha
        <5>1. shown' = [sent |-> "own", matte |-> "own"] /\ opaque' = known \ {s}
          BY <4>2, <4>3 DEF Omt!Copied, Omt!OpaqueAfter
        <5>3. shown'.matte = "own"
          BY <5>1
        <5>2. matte' = [matte EXCEPT ![s] = "old"]
          BY <4>2, <5>3
        <5> HIDE DEF known, held
        <5> QED BY <1>1, <1>3, <4>1, <5>1, <5>2
      <4>4. CASE ~alpha
        <5>1. shown' = [sent |-> "opaque", matte |-> "opaque"] /\ opaque' = known \cup {s}
          BY <4>1, <4>2, <4>4 DEF Omt!Copied, Omt!OpaqueAfter
        <5>3. shown'.matte = "opaque"
          BY <5>1
        <5>2. matte' = [matte EXCEPT ![s] = "opaque"]
          BY <4>2, <5>3
        <5> HIDE DEF known, held
        <5> QED BY <1>1, <1>3, <4>1, <5>1, <5>2
      <4> QED BY <4>3, <4>4
    <3> QED BY <1>3, <3>1, <3>2
  <2> HIDE DEF sought, held
  <2> QED BY <1>1, <1>2, <1>3, <1>4, <1>5, <2>1, <2>2 DEF OmtInv, Omt!TypeOK, Omt!MatteIsThePictures
<1>6. ASSUME Slots \subseteq held, busy' = held, stamps' = [stamps EXCEPT !.gap = TRUE],
             UNCHANGED <<matte, opaque, shown>>
      PROVE  OmtInv'
  <2>1. stamps' \in Omt!Stamps
    BY <1>1, <1>6 DEF Omt!Stamps
  <2> HIDE DEF sought, held
  <2> QED BY <1>1, <1>2, <1>3, <1>4, <1>6, <2>1 DEF OmtInv, Omt!TypeOK, Omt!MatteIsThePictures
<1>7. \/ \E s \in Slots \ held :
             /\ busy' = held \cup {s}
             /\ IF sought = "uyvy"
                  THEN opaque' = {} /\ shown' = Omt!NoMatte /\ UNCHANGED matte
                  ELSE /\ opaque' = Omt!OpaqueAfter(known, s, alpha)
                       /\ shown' = [sent |-> IF alpha THEN "own" ELSE "opaque",
                                    matte |-> Omt!Copied(known, s, alpha)]
                       /\ matte' = [matte EXCEPT ![s] = IF shown'.matte = "opaque"
                                                         THEN "opaque" ELSE "old"]
             /\ stamps' = Omt!Stamped(stamp)
      \/ /\ Slots \subseteq held
         /\ busy' = held /\ stamps' = [stamps EXCEPT !.gap = TRUE]
         /\ UNCHANGED <<matte, opaque, shown>>
  BY Zenon DEF Omt!Picture
<1> QED BY <1>5, <1>6, <1>7, Zenon

\* A step of the OMT part.
LEMMA OmtStep ==
  ASSUME OmtInv, Omt!Next
  PROVE  OmtInv'
<1>1. CASE Omt!Receive
  BY <1>1, PictureStep DEF Omt!Receive
<1>2. CASE ~Omt!Receive
  <2>1. /\ \/ UNCHANGED <<ring, matte, opaque, shown>>
        /\ events' = events \/ (events < MaxEvents /\ events' = events + 1)
        /\ stamps' = stamps \/ stamps' = Omt!NewStamps
        /\ busy' \subseteq busy
        /\ tally' \in Tallies \/ tally' = tally
        /\ {applied, told}' \subseteq {applied, told, tally, Omt!Unsent}
        /\ reconnects' \in {reconnects, 1}
    BY <1>2, Zenon DEF Omt!Next, Omt!SetTally, Omt!LetGo, Omt!Connect, Omt!ConnectFails, Omt!SendTally,
       Omt!GoneQuiet, Omt!TallyAfresh, Omt!conn, Omt!pixels
  <2>2. {recv, connected, everConnected, alphaConn}' \subseteq BOOLEAN
    <3>1. {recv, connected, everConnected, alphaConn} \subseteq BOOLEAN
      BY DEF OmtInv, Omt!TypeOK
    <3> QED BY <1>2, <3>1, Zenon DEF Omt!Next, Omt!SetTally, Omt!LetGo, Omt!Connect, Omt!ConnectFails,
            Omt!SendTally, Omt!GoneQuiet, Omt!conn, Omt!pixels
  <2>3. events' \in 0 .. MaxEvents /\ stamps' \in Omt!Stamps /\ reconnects' \in 0 .. 1
    <3>1. BadLimit \in Nat /\ MaxEvents \in Nat
      BY SourcesAssumption DEF Omt!OmtAssumption
    <3>2. Omt!NewStamps \in Omt!Stamps
      BY <3>1 DEF Omt!Stamps, Omt!NewStamps
    <3>3. events \in 0 .. MaxEvents /\ stamps \in Omt!Stamps /\ reconnects \in 0 .. 1
      BY DEF OmtInv, Omt!TypeOK
    <3>4. stamps' \in Omt!Stamps
      BY <2>1, <3>2, <3>3
    <3> QED BY <2>1, <3>1, <3>3, <3>4
  <2>4. tally' \in Tallies /\ {applied, told}' \subseteq Tallies \cup {Omt!Unsent} /\ busy' \subseteq Slots
    BY <2>1 DEF OmtInv, Omt!TypeOK
  <2> QED BY <2>1, <2>2, <2>3, <2>4 DEF OmtInv, Omt!TypeOK, Omt!MatteIsThePictures
<1> QED BY <1>1, <1>2

---------------------------------------------------------------------------
(* The still image.                                                        *)

\* Packets move from the file to the decoder and out of it, none is made up.
StillInv == Still!TypeOK /\ Len(image.packets) + Len(feed) <= MaxPackets

\* The strings of the model are the sequences up to a length.
LEMMA StringsAre ==
  ASSUME NEW S, NEW s
  PROVE  s \in Still!Strings(S) <=> s \in Seq(S) /\ Len(s) <= MaxPackets
<1>1. MaxPackets \in Nat
  BY SourcesAssumption
<1>2. ASSUME s \in Still!Strings(S)
      PROVE  s \in Seq(S) /\ Len(s) <= MaxPackets
  <2>1. PICK n \in 0 .. MaxPackets : s \in [1 .. n -> S]
    BY <1>2 DEF Still!Strings
  <2>2. s \in Seq(S) /\ Len(s) = n
    BY <1>1, <2>1
  <2> QED BY <1>1, <2>1, <2>2
<1>3. ASSUME s \in Seq(S), Len(s) <= MaxPackets
      PROVE  s \in Still!Strings(S)
  <2>1. s \in [1 .. Len(s) -> S] /\ Len(s) \in 0 .. MaxPackets
    BY <1>1, <1>3
  <2> QED BY <2>1 DEF Still!Strings
<1> QED BY <1>2, <1>3

\* The still part starts with its invariant.
LEMMA StillStarts == Still!Init => StillInv
<1> SUFFICES ASSUME Still!Init PROVE StillInv
  OBVIOUS
<1>1. feed = << >> /\ << >> \in Still!Strings({"image", "bad"}) /\ Len(feed) = 0
  <2> DEFINE S == {"image", "bad"}
  <2> HIDE DEF S
  <2>1. << >> \in Seq(S) /\ Len(<< >>) <= MaxPackets
    BY EmptySeq, SourcesAssumption
  <2>2. << >> \in Still!Strings(S)
    BY <2>1, StringsAre
  <2> QED BY <2>2 DEF S, Still!Init
<1>2. Len(image.packets) \in Nat /\ Len(image.packets) <= MaxPackets
  BY StringsAre DEF Still!Init, Still!Files
<1>3. {stopping, there} \subseteq BOOLEAN
  BY Zenon DEF Still!Init
<1> QED BY <1>1, <1>2, <1>3 DEF StillInv, Still!TypeOK, Still!Init

\* A step of the still part.
LEMMA StillStep ==
  ASSUME StillInv, Still!Next
  PROVE  StillInv'
<1> DEFINE P == {"image", "bad", "other"}
           D == {"image", "bad"}
<1>1. /\ image \in Still!Files /\ delay \in 0..1 /\ frames \in 0..1
      /\ step \in {"open", "read", "receive", "drain", "done"}
      /\ {stopping, there} \subseteq BOOLEAN /\ mailbox \in {"none", "image"}
      /\ Len(image.packets) + Len(feed) <= MaxPackets /\ feed \in Still!Strings(D)
  BY DEF StillInv, Still!TypeOK
<1>2. /\ feed \in Seq(D) /\ Len(feed) \in Nat
      /\ image.packets \in Seq(P) /\ Len(image.packets) \in Nat
      /\ image.opens \in BOOLEAN /\ image = [opens |-> image.opens, packets |-> image.packets]
  <2>1. image.packets \in Still!Strings(P) /\ image.opens \in BOOLEAN
        /\ image = [opens |-> image.opens, packets |-> image.packets]
    BY <1>1 DEF Still!Files
  <2> HIDE DEF P, D
  <2> QED BY <1>1, <2>1, StringsAre
<1>3. {stopping, there}' \subseteq BOOLEAN
  BY <1>1, Zenon DEF Still!Next, Still!Destroy, Still!Open, Still!Read, Still!Receive, Still!Publish
<1>4. /\ step' \in {"open", "read", "receive", "drain", "done"} /\ delay' = delay
      /\ frames' \in 0 .. 1 /\ mailbox' \in {"none", "image"}
  <2>1. /\ step' = step \/ step' \in {"read", "receive", "drain", "done"}
        /\ delay' = delay
        /\ frames' = frames \/ frames' = 1
        /\ mailbox' = mailbox \/ mailbox' = "image"
    BY Zenon DEF Still!Next, Still!Destroy, Still!Open, Still!Read, Still!AtEnd, Still!Receive, Still!Publish
  <2> QED BY <1>1, <2>1
<1>5. \/ image' = image /\ feed' = feed
      \/ /\ image.packets # << >> /\ image' = [image EXCEPT !.packets = Tail(@)]
         /\ \/ feed' = feed
            \/ Head(image.packets) # "other" /\ feed' = Append(feed, Head(image.packets))
      \/ image' = image /\ Len(feed) > 0 /\ feed' = Tail(feed)
  <2>1. CASE Still!Destroy \/ Still!Open
    BY <2>1, Zenon DEF Still!Destroy, Still!Open
  <2>2. CASE Still!Read
    BY <2>2, Zenon DEF Still!Read
  <2>3. CASE Still!Receive
    <3>1. PICK held \in {0, delay} :
             IF stopping \/ Len(feed) <= held THEN feed' = feed ELSE feed' = Tail(feed)
      BY <2>3, Zenon DEF Still!Receive
    <3>2. image' = image
      BY <2>3 DEF Still!Receive
    <3> QED BY <1>1, <1>2, <3>1, <3>2
  <2> QED BY <2>1, <2>2, <2>3 DEF Still!Next
<1>6. image' \in Still!Files /\ feed' \in Still!Strings(D) /\ Len(image'.packets) + Len(feed') <= MaxPackets
  <2>0. MaxPackets \in Nat
    BY SourcesAssumption
  <2>1. CASE image' = image /\ feed' = feed
    BY <1>1, <2>1
  <2>2. CASE image' = image /\ Len(feed) > 0 /\ feed' = Tail(feed)
    <3> HIDE DEF D
    <3>1. Tail(feed) \in Seq(D) /\ Len(Tail(feed)) = Len(feed) - 1
      BY <1>2, <2>2
    <3>2. Len(Tail(feed)) <= MaxPackets /\ Len(image.packets) + Len(Tail(feed)) <= MaxPackets
      <4>1. \A a, b \in Nat : a + b <= MaxPackets => b - 1 <= MaxPackets /\ a + (b - 1) <= MaxPackets
        BY <2>0
      <4> QED BY <1>1, <1>2, <3>1, <4>1
    <3>3. Tail(feed) \in Still!Strings(D)
      BY <3>1, <3>2, StringsAre
    <3> QED BY <1>1, <2>2, <3>2, <3>3
  <2>3. CASE /\ image.packets # << >> /\ image' = [image EXCEPT !.packets = Tail(@)]
             /\ \/ feed' = feed
                \/ Head(image.packets) # "other" /\ feed' = Append(feed, Head(image.packets))
    <3>1. Head(image.packets) # "other" => Head(image.packets) \in D
      BY <1>2, <2>3
    <3> HIDE DEF D, P
    <3>2. /\ Tail(image.packets) \in Seq(P) /\ Len(Tail(image.packets)) = Len(image.packets) - 1
          /\ Len(image.packets) > 0
      BY <1>2, <2>3
    <3>3. Tail(image.packets) \in Still!Strings(P)
      <4>1. \A a, b \in Nat : a + b <= MaxPackets => a - 1 <= MaxPackets
        BY <2>0
      <4>2. Len(Tail(image.packets)) <= MaxPackets
        BY <1>1, <1>2, <3>2, <4>1
      <4> QED BY <3>2, <4>2, StringsAre
    <3>4. image' = [opens |-> image.opens, packets |-> Tail(image.packets)]
      BY <1>2, <2>3
    <3>5. image' \in Still!Files
      BY <1>2, <3>3, <3>4 DEF Still!Files, P
    <3>6. feed' \in Seq(D) /\ (Len(feed') = Len(feed) \/ Len(feed') = Len(feed) + 1)
      <4>1. \A x \in D : Append(feed, x) \in Seq(D) /\ Len(Append(feed, x)) = Len(feed) + 1
        BY <1>2
      <4> QED BY <1>2, <2>3, <3>1, <4>1
    <3>7. image'.packets = Tail(image.packets)
      BY <3>4
    <3>8. Len(feed') <= MaxPackets /\ Len(image'.packets) + Len(feed') <= MaxPackets
      <4>1. \A a, b, c \in Nat : a > 0 /\ a + b <= MaxPackets /\ c \in {b, b + 1} =>
              c <= MaxPackets /\ (a - 1) + c <= MaxPackets
        BY <2>0
      <4>2. Len(feed') \in Nat /\ Len(feed') \in {Len(feed), Len(feed) + 1}
        BY <1>2, <3>6
      <4> QED BY <1>1, <1>2, <3>2, <3>7, <4>1, <4>2
    <3> QED BY <3>5, <3>6, <3>7, <3>8, StringsAre
  <2> QED BY <1>5, <2>1, <2>2, <2>3
<1> QED BY <1>1, <1>3, <1>4, <1>6 DEF StillInv, Still!TypeOK

---------------------------------------------------------------------------
(* The life of the engine.                                                 *)

Members == {"vk", "comp", "frames", "cuda", "senders", "inputs", "srt", "audio", "render", "servers"}

\* Where a member stands in the order of the start and in that of the stop.
StartPlace == [vk |-> 1, comp |-> 2, frames |-> 3, cuda |-> 4, senders |-> 5, inputs |-> 6,
               srt |-> 7, audio |-> 8, render |-> 9, servers |-> 10]
StopPlace == [servers |-> 1, render |-> 2, inputs |-> 3, audio |-> 4, srt |-> 5, senders |-> 6,
              frames |-> 7, comp |-> 8, vk |-> 9, cuda |-> 10]

\* What main has come to in the order of its phase is what exists.
Reached(m) ==
  \/ phase = "start" /\ StartPlace[m] < at
  \/ phase = "run"
  \/ phase = "stop" /\ StopPlace[m] >= at

\* The member a thread belongs to.
Home(t) ==
  IF t = "sender" THEN "senders" ELSE IF t = "mixer" THEN "audio"
  ELSE IF t \in Sources THEN "inputs" ELSE t

\* Main's place says what is built, and a thread that is not a replaced source runs only
\* while its member exists; the last source and the frames retained are given up at
\* their places.
LifeInv ==
  /\ Life!TypeOK /\ off \subseteq Life!Optional
  /\ \A m \in Members : m \in built <=> Reached(m) /\ m \notin off
  /\ \A t \in running \ replaced : Home(t) \in built
  /\ \A t \in Life!Threads : /\ work[t] # "idle" => t \in running
                             /\ work[t] = "sound" => t \in wired
  /\ wired # {} => "audio" \notin off /\ (phase = "start" => at > 8)
  /\ replaced \subseteq Sources /\ source \notin replaced
  /\ running \cap Sources \subseteq replaced \cup {source}
  /\ phase = "run" => at = 1
  /\ phase = "start" /\ at <= 6 => source = "black"
  /\ phase = "start" /\ at <= 9 => replaced = {} /\ kept = << >>
  /\ phase = "over" \/ (phase = "stop" /\ at > 3) => source \in destroyed \cup {"black"}
  /\ phase = "over" \/ (phase = "stop" /\ at > 7) => kept = << >>

\* The places are those of the two orders.
LEMMA PlacesAre ==
  /\ Len(Life!StartOrder) = 10 /\ Len(Life!StopOrder) = 10
  /\ \A i \in 1 .. 10 : /\ Life!StartOrder[i] \in Members /\ Life!StopOrder[i] \in Members
                        /\ \A m \in Members : /\ StartPlace[m] = i <=> m = Life!StartOrder[i]
                                              /\ StopPlace[m] = i <=> m = Life!StopOrder[i]
  /\ \A m \in Members : StartPlace[m] \in 1 .. 10 /\ StopPlace[m] \in 1 .. 10
BY DEF Life!StartOrder, Life!StopOrder, Members, StartPlace, StopPlace

\* The places themselves.
LEMMA StartPlaces ==
  /\ StartPlace["vk"] = 1 /\ StartPlace["comp"] = 2 /\ StartPlace["frames"] = 3
  /\ StartPlace["cuda"] = 4 /\ StartPlace["senders"] = 5 /\ StartPlace["inputs"] = 6
  /\ StartPlace["srt"] = 7 /\ StartPlace["audio"] = 8 /\ StartPlace["render"] = 9
  /\ StartPlace["servers"] = 10
BY DEF StartPlace

\* Where a member is taken down: the place of its statement in Engine::stop.
LEMMA StopPlaces ==
  /\ StopPlace["servers"] = 1 /\ StopPlace["render"] = 2 /\ StopPlace["inputs"] = 3
  /\ StopPlace["audio"] = 4 /\ StopPlace["srt"] = 5 /\ StopPlace["senders"] = 6
  /\ StopPlace["frames"] = 7 /\ StopPlace["comp"] = 8 /\ StopPlace["vk"] = 9
  /\ StopPlace["cuda"] = 10
BY DEF StopPlace

\* The life part starts with its invariant.
LEMMA LifeStarts == Life!Init => LifeInv
<1> SUFFICES ASSUME Life!Init PROVE LifeInv
  OBVIOUS
<1>1. off \subseteq Life!Optional /\ FramesInFlight \in Nat
  BY SourcesAssumption DEF Life!Init, Life!LifeAssumption
<1>2. off \subseteq Life!ToSet(Life!StartOrder)
  BY <1>1 DEF Life!Optional, Life!StartOrder, Life!ToSet
<1>3. Life!TypeOK
  BY <1>1, <1>2, PlacesAre DEF Life!Init, Life!TypeOK
<1> QED BY <1>1, <1>3, PlacesAre DEF LifeInv, Life!Init, Reached

\* No source has the name of a thread of the engine.
LEMMA SourceNames ==
  /\ Sources \cap {"black", "servers", "render", "mixer", "sender", "srt"} = {}
  /\ Life!Threads = {"servers", "render", "mixer", "sender", "srt"} \cup Sources
  /\ FramesInFlight \in Nat \ {0}
  /\ \A m \in Members : \A t \in Life!ThreadsOf(m) :
       (m = "inputs" => t = source /\ t # "black") /\ (m # "inputs" => t \notin Sources /\ Home(t) = m)
  /\ \A t \in Life!Threads \ Sources : t \in Life!ThreadsOf(Home(t)) /\ Home(t) \in Members
BY SourcesAssumption DEF Life!LifeAssumption, Life!Threads, Life!ThreadsOf, Home, Members

\* Receiving inputs have threads, and black has none.
LEMMA SourceThreads == Sources \subseteq Life!Threads /\ "black" \notin Life!Threads
BY SourceNames

\* The render thread runs: every member before it is there, and none that goes after it
\* has gone.
LEMMA RenderRuns ==
  ASSUME LifeInv, "render" \in running
  PROVE  /\ phase \in {"start", "run", "stop"}
         /\ phase = "start" => at > 9
         /\ phase = "stop" => at <= 2
         /\ {"vk", "inputs", "render"} \subseteq built
<1>1. "render" \in built
  BY SourceNames DEF LifeInv, Home
<1>2. /\ at \in 1 .. 10 /\ phase \in {"start", "run", "stop", "over"} /\ off \subseteq {"senders", "srt", "audio"}
      /\ \A m \in Members : m \in built <=> Reached(m) /\ m \notin off
  BY PlacesAre DEF LifeInv, Life!TypeOK, Life!Optional
<1>3. Reached("render") /\ {"vk", "inputs", "render"} \subseteq Members
  BY <1>1, <1>2 DEF Members
<1>4. phase \in {"start", "run", "stop"} /\ (phase = "start" => at > 9) /\ (phase = "stop" => at <= 2)
  BY <1>2, <1>3, StartPlaces, StopPlaces DEF Reached
<1>5. Reached("vk") /\ Reached("inputs")
  BY <1>2, <1>4, StartPlaces, StopPlaces DEF Reached
<1> QED BY <1>1, <1>2, <1>3, <1>4, <1>5

\* Main builds a member and starts its threads.
LEMMA BuildStep ==
  ASSUME LifeInv, Life!Build
  PROVE  LifeInv'
<1> DEFINE b == Life!StartOrder[at]
<1>1. /\ phase = "start" /\ b \notin off /\ b # "inputs"
      /\ built' = built \cup {b}
      /\ running' = running \cup Life!ThreadsOf(b)
      /\ wired' = IF b = "audio" THEN {source} \ {"black"} ELSE wired
      /\ UNCHANGED <<off, asked, work, source, replaced, destroyed, kept>>
      /\ IF at < 10 THEN at' = at + 1 /\ phase' = phase ELSE at' = 1 /\ phase' = "run"
  BY PlacesAre DEF Life!Build, Life!Onward
<1>2. /\ at \in 1 .. 10 /\ off \subseteq {"senders", "srt", "audio"} /\ source \in Sources \cup {"black"}
      /\ running \subseteq Life!Threads /\ wired \subseteq Sources /\ b \in Members
      /\ work \in [Life!Threads -> {"idle", "busy", "sound"}] /\ replaced \subseteq Sources
  BY PlacesAre DEF LifeInv, Life!TypeOK, Life!Optional
<1>3. Life!ThreadsOf(b) \subseteq Life!Threads \ Sources /\ \A t \in Life!ThreadsOf(b) : Home(t) = b
  <2>1. Life!ThreadsOf(b) \subseteq Life!Threads
    BY <1>1, <1>2, SourceNames DEF Life!ThreadsOf
  <2> QED BY <1>1, <1>2, <2>1, SourceNames
<1>4. Life!TypeOK'
  <2>1. b \in Life!ToSet(Life!StartOrder)
    BY <1>2, PlacesAre DEF Life!ToSet, Life!StartOrder
  <2> HIDE DEF b
  <2> QED BY <1>1, <1>2, <1>3, <2>1, PlacesAre DEF LifeInv, Life!TypeOK
<1>5. ASSUME NEW m \in Members
      PROVE  m \in built' <=> Reached(m)' /\ m \notin off'
  <2>1. StartPlace[m] \in 1 .. 10 /\ (StartPlace[m] = at <=> m = b)
    BY <1>2, PlacesAre
  <2> HIDE DEF b
  <2> QED BY <1>1, <1>2, <2>1 DEF LifeInv, Reached
<1>6. StartPlace[b] = at
  BY <1>2, PlacesAre
<1>7. /\ b = "audio" => at = 8 /\ wired = {}
      /\ wired # {} => at > 8
  BY <1>1, <1>6, StartPlaces DEF LifeInv
<1>8. at \in {6, 9} => b \in {"inputs", "render"}
  BY PlacesAre DEF Life!StartOrder
<1> HIDE DEF b
<1>9. \A t \in running' \ replaced' : Home(t) \in built'
  BY <1>1, <1>3 DEF LifeInv
<1>10. \A t \in Life!Threads : /\ work'[t] # "idle" => t \in running'
                               /\ work'[t] = "sound" => t \in wired'
  BY <1>1, <1>7 DEF LifeInv
<1>11. wired' # {} => "audio" \notin off' /\ (phase' = "start" => at' > 8)
  BY <1>1, <1>2, <1>7 DEF LifeInv
<1>12. /\ replaced' \subseteq Sources /\ source' \notin replaced'
       /\ running' \cap Sources \subseteq replaced' \cup {source'}
  BY <1>1, <1>3 DEF LifeInv
<1>13. /\ phase' = "start" /\ at' <= 6 => source' = "black"
       /\ phase' = "start" /\ at' <= 9 => replaced' = {} /\ kept' = << >>
       /\ phase' \in {"start", "run"}
       /\ off' = off
  BY <1>1, <1>2 DEF LifeInv
<1> QED BY <1>1, <1>2, <1>4, <1>5, <1>9, <1>10, <1>11, <1>12, <1>13 DEF LifeInv, Life!Optional

\* The inputs are built with the thread of their source, and the invariant survives.
LEMMA BuildInputsStep ==
  ASSUME LifeInv, Life!BuildInputs
  PROVE  LifeInv'
<1>1. /\ phase = "start" /\ Life!StartOrder[at] = "inputs" /\ source' \in Sources \cup {"black"}
      /\ running' = (running \cup {source'}) \ {"black"} /\ built' = built \cup {"inputs"}
      /\ UNCHANGED <<off, asked, work, replaced, destroyed, wired, kept>>
      /\ IF at < 10 THEN at' = at + 1 /\ phase' = phase ELSE at' = 1 /\ phase' = "run"
  BY PlacesAre DEF Life!BuildInputs, Life!Onward
<1>2. /\ at \in 1 .. 10 /\ off \subseteq {"senders", "srt", "audio"} /\ source \in Sources \cup {"black"}
      /\ running \subseteq Life!Threads /\ wired \subseteq Sources
      /\ work \in [Life!Threads -> {"idle", "busy", "sound"}] /\ replaced \subseteq Sources
  BY PlacesAre DEF LifeInv, Life!TypeOK, Life!Optional
<1>3. StartPlace["inputs"] = at /\ at = 6 /\ "inputs" \in Members
  <2>1. "inputs" \in Members
    BY DEF Members
  <2> QED BY <1>1, <1>2, <2>1, PlacesAre, StartPlaces
<1>4. source = "black" /\ replaced = {} /\ kept = << >> /\ at' = 7 /\ phase' = "start"
  BY <1>1, <1>3 DEF LifeInv
<1>5. Life!TypeOK'
  <2>1. "inputs" \in Life!ToSet(Life!StartOrder)
    BY <1>1, <1>2, PlacesAre DEF Life!ToSet
  <2>2. running' \subseteq Life!Threads
    BY <1>1, <1>2, SourceThreads
  <2> QED BY <1>1, <1>2, <1>4, <2>1, <2>2, PlacesAre DEF LifeInv, Life!TypeOK
<1>6. ASSUME NEW m \in Members
      PROVE  m \in built' <=> Reached(m)' /\ m \notin off'
  <2>1. StartPlace[m] \in 1 .. 10 /\ (StartPlace[m] = at <=> m = "inputs")
    BY <1>1, <1>2, PlacesAre
  <2> QED BY <1>1, <1>2, <2>1 DEF LifeInv, Reached
<1>7. \A t \in running' \ replaced' : Home(t) \in built'
  BY <1>1, SourceNames DEF LifeInv, Home
<1>8. \A t \in Life!Threads : /\ work'[t] # "idle" => t \in running'
                              /\ work'[t] = "sound" => t \in wired'
  BY <1>1, SourceNames DEF LifeInv
<1>9. /\ replaced' \subseteq Sources /\ source' \notin replaced'
      /\ running' \cap Sources \subseteq replaced' \cup {source'}
  BY <1>1, <1>4, SourceNames DEF LifeInv
<1> QED BY <1>1, <1>2, <1>3, <1>4, <1>5, <1>6, <1>7, <1>8, <1>9 DEF LifeInv

\* A member that is not asked for is passed over.
LEMMA BuildWithoutStep ==
  ASSUME LifeInv, Life!BuildWithout
  PROVE  LifeInv'
<1>1. /\ phase = "start" /\ Life!StartOrder[at] \in off
      /\ UNCHANGED <<built, off, running, asked, work, source, replaced, destroyed, wired, kept>>
      /\ IF at < 10 THEN at' = at + 1 /\ phase' = phase ELSE at' = 1 /\ phase' = "run"
  BY PlacesAre DEF Life!BuildWithout, Life!Onward, Life!threads, Life!inputs
<1>2. at \in 1 .. 10 /\ off \subseteq {"senders", "srt", "audio"}
  BY PlacesAre DEF LifeInv, Life!TypeOK, Life!Optional
<1>3. Life!TypeOK'
  BY <1>1, <1>2, PlacesAre DEF LifeInv, Life!TypeOK
<1>4. at \notin {3, 6, 9, 10}
  BY <1>1, <1>2, PlacesAre, StartPlaces DEF Members
<1>5. ASSUME NEW m \in Members
      PROVE  m \in built' <=> Reached(m)' /\ m \notin off'
  <2>1. StartPlace[m] \in 1 .. 10 /\ (StartPlace[m] = at <=> m = Life!StartOrder[at])
    BY <1>2, PlacesAre
  <2> QED BY <1>1, <1>2, <2>1 DEF LifeInv, Reached
<1> QED BY <1>1, <1>2, <1>3, <1>4, <1>5 DEF LifeInv

\* No thread runs before the last member that may fail.
LEMMA StartFailsStep ==
  ASSUME LifeInv, Life!StartFails
  PROVE  LifeInv'
<1>1. /\ phase = "start" /\ Life!StartOrder[at] \in {"vk", "frames", "cuda"}
      /\ phase' = "over" /\ at' = 1 /\ built' = {}
      /\ UNCHANGED <<off, running, asked, work, source, replaced, destroyed, wired, kept>>
  BY DEF Life!StartFails, Life!MayFail, Life!threads, Life!inputs
<1>2. /\ at \in 1 .. 10 /\ off \subseteq {"senders", "srt", "audio"}
      /\ \A m \in Members : m \in built <=> Reached(m) /\ m \notin off
  BY PlacesAre DEF LifeInv, Life!TypeOK, Life!Optional
<1>3. at \in {1, 3, 4}
  BY <1>1, <1>2, PlacesAre, StartPlaces DEF Members
<1>4. Life!TypeOK'
  BY <1>1, <1>2, PlacesAre DEF LifeInv, Life!TypeOK
<1>5. source = "black" /\ kept = << >> /\ replaced = {} /\ wired = {}
  BY <1>1, <1>3 DEF LifeInv
<1>6. running \subseteq replaced
  <2> SUFFICES ASSUME NEW t \in running \ replaced PROVE FALSE
    OBVIOUS
  <2>1. Home(t) \in built /\ Home(t) \in {"senders", "inputs", "audio", "srt", "servers", "render"}
    BY SourceNames DEF LifeInv, Life!TypeOK, Home
  <2>2. \A m \in {"senders", "inputs", "audio", "srt", "servers", "render"} : m \in Members /\ StartPlace[m] > 4
    BY StartPlaces DEF Members
  <2>3. Reached(Home(t))
    BY <1>2, <2>1, <2>2
  <2>4. StartPlace[Home(t)] > 4 /\ StartPlace[Home(t)] \in Int
    BY <2>1, <2>2, PlacesAre
  <2>5. StartPlace[Home(t)] < at
    BY <1>1, <2>3 DEF Reached
  <2> QED BY <1>3, <2>4, <2>5
<1> QED BY <1>1, <1>4, <1>5, <1>6 DEF LifeInv, Reached

\* Main asks the threads of a member to stop, and takes it down when they have.
LEMMA StopAsksStep ==
  ASSUME LifeInv, Life!StopAsks
  PROVE  LifeInv'
<1>1. /\ phase = "stop" /\ asked' = asked \cup Life!ThreadsOf(Life!StopOrder[at])
      /\ UNCHANGED <<phase, at, built, off, running, work, source, replaced, destroyed, wired, kept>>
  BY DEF Life!StopAsks, Life!members, Life!inputs
<1>2. at \in 1 .. 10 /\ source \in Sources \cup {"black"}
  BY PlacesAre DEF LifeInv, Life!TypeOK
<1>3. Life!ThreadsOf(Life!StopOrder[at]) \subseteq Life!Threads
  BY <1>2, SourceNames DEF Life!ThreadsOf
<1>4. Life!TypeOK'
  BY <1>1, <1>2, <1>3 DEF LifeInv, Life!TypeOK
<1> QED BY <1>1, <1>4 DEF LifeInv, Reached

\* A member goes only when no thread of it runs, and the invariant survives: what was
\* built before it is still there for those that do run.
LEMMA StopDoneStep ==
  ASSUME LifeInv, Life!StopDone
  PROVE  LifeInv'
<1> DEFINE b == Life!StopOrder[at]
<1>1. /\ phase = "stop" /\ Life!ThreadsOf(b) \cap running = {}
      /\ built' = built \ {b}
      /\ destroyed' = IF b = "inputs" THEN (destroyed \cup {source}) \ {"black"} ELSE destroyed
      /\ kept' = IF b = "frames" THEN << >> ELSE kept
      /\ UNCHANGED <<off, running, asked, work, source, replaced, wired>>
      /\ IF at < 10 THEN at' = at + 1 /\ phase' = phase ELSE at' = 1 /\ phase' = "over"
  BY PlacesAre DEF Life!StopDone, Life!Onward, Life!threads
<1>2. /\ at \in 1 .. 10 /\ off \subseteq {"senders", "srt", "audio"} /\ source \in Sources \cup {"black"}
      /\ running \subseteq Life!Threads /\ b \in Members /\ destroyed \subseteq Sources
  BY PlacesAre DEF LifeInv, Life!TypeOK, Life!Optional
<1>3. StopPlace[b] = at
  BY <1>2, PlacesAre
<1>4. (at = 3 => b = "inputs") /\ (at = 7 => b = "frames")
  BY DEF Life!StopOrder
<1>5. Life!TypeOK'
  <2>1. << >> \in Seq(Sources \cup {"black"}) /\ Len(<< >>) = 0
    OBVIOUS
  <2> HIDE DEF b
  <2> QED BY <1>1, <1>2, <2>1, PlacesAre, SourceNames DEF LifeInv, Life!TypeOK
<1>6. ASSUME NEW m \in Members
      PROVE  m \in built' <=> Reached(m)' /\ m \notin off'
  <2>1. StopPlace[m] \in 1 .. 10 /\ (StopPlace[m] = at <=> m = b)
    BY <1>2, PlacesAre
  <2> HIDE DEF b
  <2> QED BY <1>1, <1>2, <2>1 DEF LifeInv, Reached
<1>7. \A t \in running \ replaced : Home(t) # b
  <2> SUFFICES ASSUME NEW t \in running \ replaced, Home(t) = b PROVE FALSE
    OBVIOUS
  <2>1. CASE t \in Sources
    <3>1. t = source /\ b = "inputs"
      BY <2>1, SourceNames DEF LifeInv, Home
    <3>2. t \in Life!ThreadsOf(b)
      BY <2>1, <3>1, SourceNames DEF Life!ThreadsOf
    <3> QED BY <1>1, <3>2
  <2>2. CASE t \notin Sources
    BY <1>1, <1>2, <2>2, SourceNames
  <2> QED BY <2>1, <2>2
<1> HIDE DEF b
<1>8. \A t \in running' \ replaced' : Home(t) \in built'
  BY <1>1, <1>7 DEF LifeInv
<1>9. /\ phase' = "over" \/ (phase' = "stop" /\ at' > 3) => source' \in destroyed' \cup {"black"}
      /\ phase' = "over" \/ (phase' = "stop" /\ at' > 7) => kept' = << >>
      /\ phase' \in {"stop", "over"}
  BY <1>1, <1>2, <1>4 DEF LifeInv
<1> QED BY <1>1, <1>2, <1>5, <1>6, <1>8, <1>9 DEF LifeInv

\* A thread turns.
LEMMA TurnStep ==
  ASSUME LifeInv,
         NEW t \in Life!Threads, Life!Works(t) \/ Life!Leaves(t) \/ Life!Finishes(t)
  PROVE  LifeInv'
<1>1. /\ UNCHANGED <<phase, at, built, off, asked, source, replaced, destroyed, wired, kept>>
      /\ t \in running
      /\ \/ work' = [work EXCEPT ![t] = "busy"] /\ running' = running
         \/ work' = [work EXCEPT ![t] = "idle"] /\ running' \in {running, running \ {t}}
  BY DEF Life!Works, Life!Leaves, Life!Finishes, Life!Go, Life!Turn, Life!members, Life!inputs
<1>2. Life!TypeOK'
  BY <1>1 DEF LifeInv, Life!TypeOK
<1>3. \A x \in Life!Threads : /\ work'[x] # "idle" => x \in running'
                              /\ work'[x] = "sound" => x \in wired
  BY <1>1 DEF LifeInv, Life!TypeOK
<1>4. running' \subseteq running
  BY <1>1
<1> QED BY <1>1, <1>2, <1>3, <1>4 DEF LifeInv, Reached

\* A source with a sink hands it sound.
LEMMA SamplesStep ==
  ASSUME LifeInv, NEW s \in Sources, Life!Samples(s)
  PROVE  LifeInv'
<1>1. /\ UNCHANGED <<phase, at, built, off, asked, source, replaced, destroyed, wired, kept, running>>
      /\ s \in running /\ s \in wired /\ work' = [work EXCEPT ![s] = "sound"]
  BY DEF Life!Samples, Life!Go, Life!members, Life!inputs
<1>2. Life!TypeOK'
  BY <1>1 DEF LifeInv, Life!TypeOK
<1>3. \A x \in Life!Threads : /\ work'[x] # "idle" => x \in running
                              /\ work'[x] = "sound" => x \in wired
  BY <1>1 DEF LifeInv, Life!TypeOK
<1> QED BY <1>1, <1>2, <1>3 DEF LifeInv, Reached

\* A tick retains a frame; it runs while the render thread does.
LEMMA TickStep ==
  ASSUME LifeInv, Life!Tick
  PROVE  LifeInv'
<1>1. /\ UNCHANGED <<phase, at, built, off, asked, source, replaced, destroyed, wired>>
      /\ "render" \in running
      /\ work' = [work EXCEPT !["render"] = "idle"] /\ running' \in {running, running \ {"render"}}
  BY DEF Life!Tick, Life!Go, Life!Turn, Life!members, Life!inputs
<1>2. PICK s \in {source, "black"} :
        kept' = IF Len(kept) < FramesInFlight THEN Append(kept, s) ELSE Append(Tail(kept), s)
  BY DEF Life!Tick
<1>3. kept' \in Seq(Sources \cup {"black"}) /\ Len(kept') <= FramesInFlight
  <2> DEFINE S == Sources \cup {"black"}
  <2>1. kept \in Seq(S) /\ Len(kept) <= FramesInFlight /\ s \in S /\ FramesInFlight \in Nat \ {0}
    BY <1>2, SourceNames DEF LifeInv, Life!TypeOK
  <2> HIDE DEF S
  <2>5. \A q \in Seq(S) : Append(q, s) \in Seq(S) /\ Len(Append(q, s)) = Len(q) + 1 /\ Len(q) \in Nat
    BY <2>1
  <2>2. ASSUME Len(kept) < FramesInFlight
        PROVE  kept' \in Seq(S) /\ Len(kept') <= FramesInFlight
    <3>1. kept' = Append(kept, s)
      BY <1>2, <2>2
    <3> QED BY <2>1, <2>2, <2>5, <3>1
  <2>3. ASSUME ~(Len(kept) < FramesInFlight)
        PROVE  kept' \in Seq(S) /\ Len(kept') <= FramesInFlight
    <3>1. kept # << >> /\ kept' = Append(Tail(kept), s)
      BY <1>2, <2>1, <2>3
    <3>2. Tail(kept) \in Seq(S) /\ Len(Tail(kept)) = Len(kept) - 1
      BY <2>1, <3>1
    <3>3. Len(kept') = Len(Tail(kept)) + 1 /\ kept' \in Seq(S) /\ Len(kept) \in Nat
      BY <2>1, <2>5, <3>1, <3>2
    <3> QED BY <2>1, <3>2, <3>3
  <2>4. kept' \in Seq(S) /\ Len(kept') <= FramesInFlight
    BY <2>2, <2>3
  <2> QED BY <2>4 DEF S
<1>4. Life!TypeOK'
  BY <1>1, <1>3 DEF LifeInv, Life!TypeOK
<1>5. /\ phase = "start" => at > 9
      /\ phase = "stop" => at <= 2
      /\ phase # "over"
  BY <1>1, RenderRuns
<1>6. \A x \in Life!Threads : /\ work'[x] # "idle" => x \in running'
                              /\ work'[x] = "sound" => x \in wired
  BY <1>1 DEF LifeInv, Life!TypeOK
<1>7. at \in 1 .. 10
  BY PlacesAre DEF LifeInv, Life!TypeOK
<1>8. /\ phase = "start" /\ at <= 9 => replaced = {} /\ kept' = << >>
      /\ phase = "over" \/ (phase = "stop" /\ at > 7) => kept' = << >>
  BY <1>5, <1>7
<1> QED BY <1>1, <1>4, <1>6, <1>8 DEF LifeInv, Reached

\* A new source takes the place of one that is handed to a detached thread.
LEMMA ReplaceStep ==
  ASSUME LifeInv, NEW new \in Sources \cup {"black"}, Life!Replace(new)
  PROVE  LifeInv'
<1>1. /\ UNCHANGED <<phase, at, built, off, asked, work, destroyed, kept>>
      /\ work["render"] = "busy" /\ new \notin (replaced \cup {source}) \ {"black"}
      /\ source' = new /\ replaced' = (replaced \cup {source}) \ {"black"}
      /\ running' = (running \cup {new}) \ {"black"}
      /\ wired' = IF "audio" \in built THEN (wired \cup {new}) \ {"black"} ELSE wired
  BY DEF Life!Replace, Life!Used, Life!members
<1>2. /\ at \in 1 .. 10 /\ running \subseteq Life!Threads /\ wired \subseteq Sources
      /\ source \in Sources \cup {"black"} /\ replaced \subseteq Sources
  BY PlacesAre DEF LifeInv, Life!TypeOK
<1>3. "render" \in running
  BY <1>1, SourceNames DEF LifeInv
<1>4. /\ phase \in {"start", "run", "stop"}
      /\ phase = "start" => at > 9
      /\ phase = "stop" => at <= 2
      /\ "inputs" \in built
  BY <1>3, RenderRuns
<1>5. Life!TypeOK'
  <2>1. running' \subseteq Life!Threads /\ wired' \subseteq Sources /\ source' \in Sources \cup {"black"}
    BY <1>1, <1>2, SourceThreads
  <2> QED BY <1>1, <2>1 DEF LifeInv, Life!TypeOK
<1>6. \A t \in running' \ replaced' : Home(t) \in built'
  BY <1>1, <1>4, SourceNames DEF LifeInv, Home
<1>7. \A t \in Life!Threads : /\ work'[t] # "idle" => t \in running'
                              /\ work'[t] = "sound" => t \in wired'
  BY <1>1, SourceNames DEF LifeInv
<1>8. /\ replaced' \subseteq Sources /\ source' \notin replaced'
      /\ running' \cap Sources \subseteq replaced' \cup {source'}
  BY <1>1, <1>2, SourceNames DEF LifeInv
<1>9. wired' # {} => "audio" \notin off' /\ (phase' = "start" => at' > 8)
  <2>1. "audio" \in built => "audio" \notin off
    BY DEF LifeInv, Members
  <2> QED BY <1>1, <1>2, <1>4, <2>1 DEF LifeInv
<1>10. \A m \in Members : m \in built' <=> Reached(m)' /\ m \notin off'
  BY <1>1 DEF LifeInv, Reached
<1> QED BY <1>1, <1>2, <1>4, <1>5, <1>6, <1>7, <1>8, <1>9, <1>10 DEF LifeInv

\* The detached thread destroys what was replaced.
LEMMA ReapStep ==
  ASSUME LifeInv, NEW s \in Sources, Life!ReapAsks(s) \/ Life!ReapDone(s)
  PROVE  LifeInv'
<1>1. /\ UNCHANGED <<phase, at, built, off, running, work, source, replaced, wired, kept>>
      /\ asked' \subseteq asked \cup Sources
      /\ destroyed \subseteq destroyed' /\ destroyed' \subseteq destroyed \cup Sources
  BY DEF Life!ReapAsks, Life!ReapDone, Life!members, Life!inputs, Life!threads
<1>2. Life!TypeOK'
  BY <1>1, SourceNames DEF LifeInv, Life!TypeOK
<1> QED BY <1>1, <1>2 DEF LifeInv, Reached

\* A step of the life part.
LEMMA LifeStep ==
  ASSUME LifeInv, Life!Next
  PROVE  LifeInv'
<1>1. CASE Life!Over
  BY <1>1 DEF Life!Over, Life!lifeVars, Life!members, Life!threads, Life!inputs, LifeInv, Life!TypeOK, Reached
<1>2. CASE Life!Main
  BY <1>2, BuildStep, BuildInputsStep, BuildWithoutStep, StopAsksStep, StopDoneStep DEF Life!Main
<1>3. CASE Life!StartFails
  BY <1>3, StartFailsStep
<1>4. CASE Life!Quit
  <2>1. /\ phase = "run" /\ phase' = "stop"
        /\ UNCHANGED <<at, built, off, running, asked, work, source, replaced, destroyed, wired, kept>>
    BY <1>4 DEF Life!Quit, Life!threads, Life!inputs
  <2>2. at = 1
    BY <2>1 DEF LifeInv
  <2>3. Life!TypeOK'
    BY <2>1 DEF LifeInv, Life!TypeOK
  <2>4. ASSUME NEW m \in Members
        PROVE  m \in built' <=> Reached(m)' /\ m \notin off'
    <3>1. StopPlace[m] \in 1 .. 10
      BY PlacesAre
    <3> QED BY <2>1, <2>2, <3>1 DEF LifeInv, Reached
  <2> QED BY <2>1, <2>2, <2>3, <2>4 DEF LifeInv
<1>5. CASE \E t \in Life!Threads : Life!Works(t) \/ Life!Ends(t)
  BY <1>5, TurnStep, TickStep DEF Life!Ends
<1>6. CASE \E s \in Sources : Life!Samples(s) \/ Life!ReapAsks(s) \/ Life!ReapDone(s)
  BY <1>6, SamplesStep, ReapStep
<1>7. CASE \E s \in Sources \cup {"black"} : Life!Replace(s)
  BY <1>7, ReplaceStep
<1> QED BY <1>1, <1>2, <1>3, <1>4, <1>5, <1>6, <1>7 DEF Life!Next

\* What a thread works with was built before it and goes after it.
LEMMA MembersThere == LifeInv => Life!MembersOutliveUsers
<1> SUFFICES ASSUME LifeInv PROVE Life!MembersOutliveUsers
  OBVIOUS
<1>1. /\ at \in 1 .. 10 /\ phase \in {"start", "run", "stop", "over"} /\ off \subseteq {"senders", "srt", "audio"}
      /\ running \subseteq Life!Threads
      /\ \A m \in Members : m \in built <=> Reached(m) /\ m \notin off
  BY PlacesAre DEF LifeInv, Life!TypeOK, Life!Optional
<1>2. ASSUME NEW t \in running \ replaced, work[t] \in {"busy", "sound"}
      PROVE  Life!Uses(t) \ off \subseteq built
  <2>1. t \in Life!Threads /\ Home(t) \in built /\ Home(t) \in Members
    BY <1>1, SourceNames DEF LifeInv, Home, Members
  <2>2. Reached(Home(t))
    BY <1>1, <2>1
  <2>3. \A m \in Members : m \in Life!Uses(t) => Reached(m) \/ m \in off
    <3>1. CASE t \in {"servers", "render", "mixer", "sender", "srt"}
      <4>1. \/ t = "servers" /\ Reached("servers") /\ Life!Uses(t) = {"inputs", "senders", "audio"}
            \/ t = "render" /\ Reached("render")
               /\ Life!Uses(t) = {"vk", "comp", "frames", "inputs", "audio", "srt"}
            \/ t = "mixer" /\ Reached("audio") /\ Life!Uses(t) = {"audio", "senders", "srt"}
            \/ t = "sender" /\ Reached("senders") /\ Life!Uses(t) = {"vk", "comp"}
            \/ t = "srt" /\ Reached("srt") /\ Life!Uses(t) = {"vk", "comp", "cuda"}
        <5>1. t \notin Sources
          BY <3>1, SourceNames
        <5>2. work[t] # "sound"
          BY <2>1, <5>1 DEF LifeInv, Life!TypeOK
        <5> QED BY <2>2, <3>1, <5>1, <5>2 DEF Home, Life!Uses
      <4> QED BY <1>1, <4>1, StartPlaces, StopPlaces DEF Reached
    <3>2. CASE t \in Sources
      <4>1. Reached("inputs")
        BY <2>2, <3>2, SourceNames DEF Home
      <4>2. CASE work[t] = "sound"
        <5>1. "audio" \notin off /\ (phase = "start" => at > 8)
          BY <2>1, <4>2 DEF LifeInv
        <5>2. Life!Uses(t) = {"audio"}
          BY <3>2, <4>2, SourceNames DEF Life!Uses
        <5> QED BY <1>1, <4>1, <5>1, <5>2, StartPlaces, StopPlaces DEF Reached
      <4>3. CASE work[t] # "sound"
        <5>1. Life!Uses(t) = {"vk", "cuda"}
          BY <3>2, <4>3, SourceNames DEF Life!Uses
        <5> QED BY <1>1, <4>1, <5>1, StartPlaces, StopPlaces DEF Reached
      <4> QED BY <4>2, <4>3
    <3> QED BY <2>1, <3>1, <3>2, SourceNames
  <2>4. Life!Uses(t) \subseteq Members
    BY DEF Life!Uses, Members
  <2> QED BY <1>1, <2>3, <2>4
<1>3. "vk" \in built \/ (Life!ToSet(kept) \cup {source}) \ (destroyed \cup {"black"}) = {}
  <2>1. CASE "vk" \notin built
    <3>1. phase = "over" \/ (phase = "stop" /\ at > 9) \/ (phase = "start" /\ at = 1)
      BY <1>1, <2>1, StartPlaces, StopPlaces DEF Reached, Members
    <3>2. kept = << >> /\ source \in destroyed \cup {"black"}
      BY <1>1, <3>1 DEF LifeInv
    <3>3. Life!ToSet(kept) = {}
      BY <3>2 DEF Life!ToSet
    <3> QED BY <3>2, <3>3
  <2> QED BY <2>1
<1> QED BY <1>2, <1>3 DEF Life!MembersOutliveUsers

\* The senders are built before the inputs and go after them.
LEMMA SendersStep ==
  ASSUME LifeInv, Life!Next, ("senders" \in built) # ("senders" \in built')
  PROVE  source \notin running
<1>1. /\ at \in 1 .. 10 /\ phase \in {"start", "run", "stop", "over"} /\ off \subseteq {"senders", "srt", "audio"}
      /\ running \subseteq Life!Threads /\ source \in Sources \cup {"black"}
      /\ \A m \in Members : m \in built <=> Reached(m) /\ m \notin off
      /\ "senders" \in Members /\ "inputs" \in Members
  BY PlacesAre DEF LifeInv, Life!TypeOK, Life!Optional, Members
<1>2. CASE Life!Build
  <2>1. phase = "start" /\ Life!StartOrder[at] = "senders"
    BY <1>2 DEF Life!Build
  <2>2. at = 5
    BY <1>1, <2>1, PlacesAre, StartPlaces
  <2> QED BY <1>1, <2>1, <2>2, SourceNames DEF LifeInv
<1>3. CASE Life!StopDone
  <2>1. phase = "stop" /\ Life!StopOrder[at] = "senders"
    BY <1>3 DEF Life!StopDone
  <2>2. at = 6
    BY <1>1, <2>1, PlacesAre, StopPlaces
  <2>3. "inputs" \notin built
    BY <1>1, <2>1, <2>2, StopPlaces DEF Reached
  <2> QED BY <1>1, <2>3, SourceNames DEF LifeInv, Home
<1>4. CASE Life!StartFails
  <2>1. phase = "start" /\ Life!StartOrder[at] \in {"vk", "frames", "cuda"} /\ built' = {}
    BY <1>4 DEF Life!StartFails, Life!MayFail
  <2>2. at \in {1, 3, 4}
    BY <1>1, <2>1, PlacesAre, StartPlaces DEF Members
  <2>3. "senders" \notin built
    BY <1>1, <2>1, <2>2, StartPlaces DEF Reached
  <2> QED BY <2>1, <2>3
<1>5. CASE ~(Life!Build \/ Life!StopDone \/ Life!StartFails)
  <2>1. "senders" \in built' <=> "senders" \in built
    BY <1>5 DEF Life!Next, Life!Over, Life!Main, Life!BuildInputs, Life!BuildWithout, Life!StopAsks,
       Life!Quit, Life!Works, Life!Ends, Life!Leaves, Life!Finishes, Life!Tick, Life!Samples,
       Life!ReapAsks, Life!ReapDone, Life!Replace, Life!lifeVars, Life!members
  <2> QED BY <2>1
<1> QED BY <1>2, <1>3, <1>4, <1>5

---------------------------------------------------------------------------
(* The parts side by side.                                                 *)

\* The part that moves has its invariant; the list does when it does not move.
SourcesInv ==
  /\ part \in {"media", "sdi", "omt", "still", "life"}
  /\ part = "media" => MediaInv
  /\ part # "media" => pc = "top"
  /\ part = "sdi" => SdiInv
  /\ part = "omt" => OmtInv
  /\ part = "still" => StillInv
  /\ part = "life" => LifeInv

\* Every part starts with its invariant.
LEMMA SourcesStart == SourcesInit => SourcesInv
<1> SUFFICES ASSUME SourcesInit PROVE SourcesInv
  OBVIOUS
<1>1. part \in {"media", "sdi", "omt", "still", "life"}
  BY DEF SourcesInit
<1>2. MediaInv /\ SdiInv /\ OmtInv /\ StillInv /\ LifeInv
  BY MediaStarts, SdiStarts, OmtStarts, StillStarts, LifeStarts DEF SourcesInit
<1>3. pc = "top"
  BY DEF SourcesInit, Init
<1> QED BY <1>1, <1>2, <1>3 DEF SourcesInv

\* A step is one of the part that moves, or nothing.
LEMMA SourcesMove ==
  ASSUME SourcesInv, [SourcesNext]_sourceVars
  PROVE  /\ part' = part
         /\ \/ part = "media" /\ Next
            \/ UNCHANGED mediaVars
         /\ \/ part = "sdi" /\ Sdi!Next
            \/ UNCHANGED sdiVars
         /\ \/ part = "omt" /\ Omt!Next
            \/ UNCHANGED omtVars
         /\ \/ part = "still" /\ Still!Next
            \/ UNCHANGED stillVars
         /\ \/ part = "life" /\ Life!Next
            \/ UNCHANGED lifeVars
BY Zenon DEF SourcesNext, sourceVars

\* An invariant depends on the variables of its part.
LEMMA SourcesRest ==
  /\ UNCHANGED mediaVars => MediaInv' = MediaInv /\ pc' = pc
  /\ UNCHANGED sdiVars => SdiInv' = SdiInv
  /\ UNCHANGED omtVars => OmtInv' = OmtInv
  /\ UNCHANGED stillVars => StillInv' = StillInv
  /\ UNCHANGED lifeVars => LifeInv' = LifeInv
<1>1. UNCHANGED mediaVars => MediaInv' = MediaInv /\ pc' = pc
  BY DEF mediaVars, controls, state, decoder, clocks, pauses, operator,
     MediaInv, TypeOK, FileInv, ClockInv, PlaysTheClip, Due
<1>2. UNCHANGED sdiVars => SdiInv' = SdiInv
  BY DEF sdiVars, SdiInv, Sdi!TypeOK, Sdi!RateIsTheFrames
<1>3. UNCHANGED omtVars => OmtInv' = OmtInv
  BY DEF omtVars, OmtInv, Omt!TypeOK, Omt!MatteIsThePictures
<1>4. UNCHANGED stillVars => StillInv' = StillInv
  BY DEF stillVars, StillInv, Still!TypeOK
<1>5. UNCHANGED lifeVars => LifeInv' = LifeInv
  BY DEF lifeVars, LifeInv, Life!TypeOK, Reached
<1> QED BY <1>1, <1>2, <1>3, <1>4, <1>5

\* The invariant of the whole, by parts.
THEOREM SourcesCorrect == SourcesSpec => []SourcesInv
<1>1. SourcesInv /\ [SourcesNext]_sourceVars => SourcesInv'
  <2> SUFFICES ASSUME SourcesInv, [SourcesNext]_sourceVars PROVE SourcesInv'
    OBVIOUS
  <2>1. part' = part
    BY SourcesMove
  <2>2. ASSUME part = "media" PROVE MediaInv'
    <3>1. MediaInv
      BY <2>2 DEF SourcesInv
    <3>2. CASE Next
      BY <3>1, <3>2, MediaStep
    <3>3. CASE UNCHANGED mediaVars
      BY <3>1, <3>3, SourcesRest, Zenon
    <3> QED BY <2>2, <3>2, <3>3, SourcesMove, Zenon
  <2>3. part # "media" => pc' = "top"
    BY SourcesMove, SourcesRest DEF SourcesInv
  <2>4. ASSUME part = "sdi" PROVE SdiInv'
    <3>1. SdiInv
      BY <2>4 DEF SourcesInv
    <3>2. CASE Sdi!Next
      BY <3>1, <3>2, SdiStep
    <3>3. CASE UNCHANGED sdiVars
      BY <3>1, <3>3, SourcesRest, Zenon
    <3> QED BY <2>4, <3>2, <3>3, SourcesMove, Zenon
  <2>5. ASSUME part = "omt" PROVE OmtInv'
    <3>1. OmtInv
      BY <2>5 DEF SourcesInv
    <3>2. CASE Omt!Next
      BY <3>1, <3>2, OmtStep
    <3>3. CASE UNCHANGED omtVars
      BY <3>1, <3>3, SourcesRest, Zenon
    <3> QED BY <2>5, <3>2, <3>3, SourcesMove, Zenon
  <2>6. ASSUME part = "still" PROVE StillInv'
    <3>1. StillInv
      BY <2>6 DEF SourcesInv
    <3>2. CASE Still!Next
      BY <3>1, <3>2, StillStep
    <3>3. CASE UNCHANGED stillVars
      BY <3>1, <3>3, SourcesRest, Zenon
    <3> QED BY <2>6, <3>2, <3>3, SourcesMove, Zenon
  <2>7. ASSUME part = "life" PROVE LifeInv'
    <3>1. LifeInv
      BY <2>7 DEF SourcesInv
    <3>2. CASE Life!Next
      BY <3>1, <3>2, LifeStep
    <3>3. CASE UNCHANGED lifeVars
      BY <3>1, <3>3, SourcesRest, Zenon
    <3> QED BY <2>7, <3>2, <3>3, SourcesMove, Zenon
  <2> QED BY <2>1, <2>2, <2>3, <2>4, <2>5, <2>6, <2>7 DEF SourcesInv
<1> QED BY <1>1, SourcesStart, PTL DEF SourcesSpec

---------------------------------------------------------------------------
(* What the run input_sources checks, for every value of the constants.    *)

\* Every input and the engine around them keep the types of their variables
\* (SrtInput, DeckLinkInput, OmtInput, StillInput, Engine).
THEOREM SourceTypesKept == SourcesSpec => []SourceTypes
<1>1. SourcesInv => SourceTypes
  BY DEF SourcesInv, SourceTypes, MediaInv, SdiInv, OmtInv, StillInv, LifeInv
<1> QED BY <1>1, SourcesCorrect, PTL

\* Whatever is selected, restarted or paused on the way, a frame that goes out lies
\* between the trims of its clip and is not early, for any playlist and any number of
\* operations (SrtInput::run, paceTimestamp).
THEOREM ClipsPlayed == SourcesSpec => []PlaysTheClip
<1>1. SourcesInv => PlaysTheClip
  BY DEF SourcesInv, MediaInv, PlaysTheClip
<1> QED BY <1>1, SourcesCorrect, PTL

\* An SDI frame in any mode but the seed carries the rate of that mode, whatever
\* formats and reopenings came before; an OMT picture is never seen with the matte of
\* an earlier one in its slot (DeckLinkInput::startStreams, onFrame; OmtInput::run).
THEOREM FramesDescribed == SourcesSpec => []FramesAsDescribed
<1>1. SourcesInv => FramesAsDescribed
  BY DEF SourcesInv, SdiInv, OmtInv, FramesAsDescribed
<1> QED BY <1>1, SourcesCorrect, PTL

\* No thread that is waited for loses a member it works with, and receivers live
\* inside the senders' lives, for any number of sources and whatever members the
\* engine is without (Engine::start, stop).
THEOREM TakenDown == SourcesSpec => TakenDownInOrder
<1>1. SourcesInv => (part = "life" => Life!MembersOutliveUsers)
  BY MembersThere DEF SourcesInv
<1>2. SourcesInv /\ [SourcesNext]_sourceVars =>
        [("senders" \in built) # ("senders" \in built') => source \notin running]_(Life!lifeVars)
  <2> SUFFICES ASSUME SourcesInv, [SourcesNext]_sourceVars
               PROVE  \/ ("senders" \in built) # ("senders" \in built') => source \notin running
                      \/ UNCHANGED Life!lifeVars
    OBVIOUS
  <2>1. CASE part = "life" /\ Life!Next
    BY <2>1, SendersStep DEF SourcesInv
  <2>2. CASE UNCHANGED lifeVars
    BY <2>2 DEF lifeVars, Life!lifeVars, Life!members, Life!threads, Life!inputs
  <2> QED BY <2>1, <2>2, SourcesMove
<1> QED BY <1>1, <1>2, SourcesCorrect, PTL DEF SourcesSpec, TakenDownInOrder, Life!SendersOutside
=============================================================================
