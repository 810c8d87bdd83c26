---------------------------- MODULE MediaTransport ----------------------------
(***************************************************************************)
(* The decode thread of an SRT or media-file input, and the transport      *)
(* controls of a media input: the render loop sets a handful of atomics,   *)
(* one store after the other, the decode thread takes them at the top of   *)
(* its loop and while it waits for a frame to be due.                      *)
(*                                                                         *)
(* A clip is a number of frames; a position is the number of a frame, and  *)
(* also its time: one frame lasts one unit.  Times are kept relative: age  *)
(* is the time since mediaStartMonoNs, which is counted up to the length   *)
(* of the longest clip.  Each packet holds one video frame.  Audio packets are    *)
(* trimmed and paced by the same rules and left out, as are the status     *)
(* values nobody reads back and the frame's way to the GPU, which is       *)
(* module UploadPin.                                                       *)
(***************************************************************************)
EXTENDS Integers, Sequences

CONSTANTS
    Items,        \* the playlist: [len, in, out, speed, ok], normalized
    MaxAge,       \* bound: the time up to which the clock of a clip is counted
    MaxOps,       \* bound: operations of the operator
    MaxFaults     \* bound: lost connections and failed attempts of a live source

VARIABLES
    media,                                  \* a media input, or a live SRT one
    playing, loop, restart, select, index, atEnd,   \* the atomics
    op,           \* the stores the render loop's command still has to make
    ops, faults,
    pc, picked,   \* the decode thread
    file,         \* the item it has open, 0: none
    pos, frame,   \* the next frame of the file and the one in hand
    first,        \* mediaFirstPtsNs, -1: none yet
    age,          \* the time since mediaStartMonoNs
    pausedAge,    \* the age when a pause was noticed, -1: none was
    was,          \* mediaWasPlaying
    want,         \* history: the operator's last word
    ran,          \* history: time since the first frame, pauses the thread knows of apart
    paused,       \* history: the thread has seen that it is paused
    cued          \* history: it had not looked since it opened the clip when it was

controls == <<playing, loop, restart, select>>
state == <<index, atEnd>>
decoder == <<picked, file, pos, frame, first, pausedAge, was>>
clocks == <<age, ran>>
pauses == <<paused, cued>>
operator == <<op, ops, want>>
mediaVars == <<media, controls, state, operator, faults, pc, decoder, clocks, pauses>>

Item(i) == Items[i + 1]

\* playlistWallDurationNs
Wall(item, time) == (time * 1000) \div item.speed

\* normalizePlaylistItem, and a list that is not empty; the clock is counted to the
\* end of the longest clip.
MediaAssumption ==
    /\ Items \in Seq([len : Nat, in : Nat, out : Nat, speed : 250..4000, ok : BOOLEAN])
    /\ Items # << >>
    /\ {MaxAge, MaxOps, MaxFaults} \subseteq Nat
    /\ \A i \in DOMAIN Items : /\ Items[i].out = 0 \/ Items[i].in < Items[i].out
                               /\ Wall(Items[i], Items[i].len) <= MaxAge

Init ==
    /\ media \in BOOLEAN
    /\ playing \in BOOLEAN /\ loop \in BOOLEAN /\ restart = FALSE /\ select = -1
    /\ index = 0 /\ atEnd = FALSE
    /\ op = << >> /\ ops = 0 /\ faults = 0 /\ want = playing
    /\ pc = "top" /\ picked = -1
    /\ file = 0 /\ pos = 0 /\ frame = 0 /\ first = -1 /\ pausedAge = -1 /\ was = FALSE
    /\ age = 0 /\ ran = 0
    /\ paused = FALSE /\ cued = FALSE

------------------------------------------------------------------------------
(* The operator: commands in the render loop *)

Begin(stores, wanted) ==
    /\ media /\ op = << >> /\ ops < MaxOps
    /\ op' = stores
    /\ ops' = ops + 1
    /\ want' = wanted

\* Play at the end of the list starts it over.
SetPlaying(b) ==
    Begin(IF b /\ atEnd THEN <<"first", "restart", "play">> ELSE <<IF b THEN "play" ELSE "pause">>, b)

Restart == Begin(<<"play", "restart">>, TRUE)

\* Faulty variant: next does not wrap.
SteppedPast(d) == (IF select >= 0 THEN select ELSE index) + d

\* playlistStep: previous and next wrap, from the item selected last.
Stepped(d) ==
    LET from == IF select >= 0 THEN select ELSE index IN
    CASE d < 0 -> IF from = 0 THEN Len(Items) - 1 ELSE from - 1
      [] OTHER -> (from + 1) % Len(Items)

\* selectMedia
Select(i) == select' = i /\ UNCHANGED index

StepMedia(d) ==
    /\ Begin(<<"play">>, TRUE)
    /\ Select(Stepped(d))

SetLoop(b) == Begin(<< >>, want) /\ loop' = b

Operate ==
    /\ \/ /\ \/ \E b \in BOOLEAN : SetPlaying(b)
             \/ Restart
          /\ UNCHANGED <<controls, index>>
       \/ \E d \in {-1, 1} : StepMedia(d) /\ UNCHANGED <<playing, loop, restart>>
       \/ \E b \in BOOLEAN : SetLoop(b) /\ UNCHANGED <<playing, restart, select, index>>
    /\ UNCHANGED <<media, atEnd, faults, pc, decoder, clocks, pauses>>

Store ==
    /\ op # << >>
    /\ op' = Tail(op)
    /\ playing' = CASE Head(op) = "play" -> TRUE [] Head(op) = "pause" -> FALSE [] OTHER -> playing
    /\ restart' = (restart \/ Head(op) = "restart")
    /\ IF Head(op) = "first" THEN Select(0) ELSE UNCHANGED <<select, index>>
    /\ UNCHANGED <<media, loop, atEnd, ops, want, faults, pc, decoder, clocks, pauses>>

------------------------------------------------------------------------------
(* The top of the decode loop *)

TakeSelect ==
    /\ pc = "top"
    /\ picked' = select /\ select' = -1
    /\ pc' = IF ~media THEN "ready" ELSE IF select >= 0 THEN "select" ELSE "restart"
    /\ UNCHANGED <<media, playing, loop, restart, state, operator, faults,
                   file, pos, frame, first, pausedAge, was, clocks, pauses>>

Selected ==
    /\ pc = "select"
    /\ index' = picked
    /\ file' = 0
    /\ pc' = "selected"
    /\ UNCHANGED <<media, controls, atEnd, operator, faults,
                   picked, pos, frame, first, pausedAge, was, clocks, pauses>>

TakeRestart ==
    /\ pc = "restart"
    /\ restart' = FALSE
    /\ file' = IF restart THEN 0 ELSE file
    /\ pc' = IF restart THEN "restarted" ELSE "playing"
    /\ UNCHANGED <<media, playing, loop, select, state, operator, faults,
                   picked, pos, frame, first, pausedAge, was, clocks, pauses>>

\* A new start is not the end.
NotAtEnd ==
    /\ pc \in {"selected", "restarted"}
    /\ atEnd' = FALSE
    /\ pc' = IF pc = "selected" THEN "restart" ELSE "playing"
    /\ UNCHANGED <<media, controls, index, operator, faults, decoder, clocks, pauses>>

\* Faulty variant: the pause counts as playing time.
Unpaused == age

\* The start moves by the length of the pause.
Resumed == IF pausedAge >= 0 /\ first >= 0 THEN pausedAge ELSE age

LookPlaying ==
    /\ pc = "playing"
    /\ IF playing
       THEN /\ age' = IF was THEN age ELSE Resumed
            /\ was' = TRUE /\ pc' = "ready"
            /\ UNCHANGED pausedAge
       ELSE /\ pausedAge' = IF was THEN age ELSE pausedAge
            /\ was' = FALSE /\ pc' = "top"
            /\ UNCHANGED age
    /\ paused' = ~playing
    /\ cued' = (cued \/ (~playing /\ ~was /\ first >= 0 /\ pausedAge < 0))
    /\ UNCHANGED <<media, controls, state, operator, faults, picked, file, pos, frame, first, ran>>

------------------------------------------------------------------------------
(* Opening, reading and pacing *)

\* openStream resets, whatever comes of it.  A seek to the trim-in lands on a key
\* frame before it.
Open ==
    /\ pc = "ready" /\ file = 0
    /\ first' = -1 /\ pausedAge' = -1 /\ was' = FALSE
    /\ atEnd' = FALSE
    /\ paused' = FALSE /\ cued' = FALSE
    /\ \/ /\ media => Item(index).ok
          /\ file' = index + 1
          /\ pos' \in IF media THEN 0 .. Item(index).in ELSE {0}
          /\ pc' = "read"
          /\ UNCHANGED faults
       \/ /\ IF media THEN ~Item(index).ok /\ UNCHANGED faults
             ELSE faults < MaxFaults /\ faults' = faults + 1
          /\ pc' = IF media THEN "advance" ELSE "top"
          /\ UNCHANGED <<file, pos>>
    /\ UNCHANGED <<media, controls, index, operator, picked, frame, clocks>>

Opened ==
    /\ pc = "ready" /\ file # 0
    /\ pc' = "read"
    /\ UNCHANGED <<media, controls, state, operator, faults, decoder, clocks, pauses>>

\* A packet; an end or an error ends the clip, or the connection.
Read ==
    /\ pc = "read"
    /\ \/ /\ media /\ pos < Items[file].len
          /\ frame' = pos /\ pos' = pos + 1
          /\ pc' = "trim"
          /\ UNCHANGED <<file, faults>>
       \/ /\ media /\ pos >= Items[file].len
          /\ pc' = "advance"
          /\ UNCHANGED <<frame, pos, file, faults>>
       \/ /\ ~media
          /\ pc' = "publish"
          /\ UNCHANGED <<frame, pos, file, faults>>
       \/ /\ ~media /\ faults < MaxFaults
          /\ faults' = faults + 1
          /\ file' = 0 /\ pc' = "top"
          /\ UNCHANGED <<frame, pos>>
    /\ UNCHANGED <<media, controls, state, operator, picked, first, pausedAge, was, clocks, pauses>>

\* playlistBeforeIn and playlistAtOrPastOut; the first frame that is due starts
\* the clock of the clip.
Trim ==
    /\ pc = "trim"
    /\ LET item == Item(index)
           before == frame < item.in
           past == item.out > 0 /\ frame >= item.out
       IN  /\ pc' = CASE before -> "top" [] past -> "advance" [] OTHER -> "pace"
           /\ IF before \/ past \/ first >= 0 THEN UNCHANGED <<first, clocks>>
              ELSE first' = frame /\ age' = 0 /\ ran' = 0
    /\ UNCHANGED <<media, controls, state, operator, faults, picked, file, pos, frame, pausedAge, was, pauses>>

\* paceTimestamp: a frame that is interrupted is lost.  The three flags are read
\* one by one; they are taken together here.
Pace ==
    /\ pc = "pace"
    /\ LET interrupted == restart \/ select >= 0 \/ ~playing IN
       /\ interrupted \/ age >= Wall(Item(index), frame - first)
       /\ pc' = IF interrupted THEN "top" ELSE "publish"
    /\ UNCHANGED <<media, controls, state, operator, faults, decoder, clocks, pauses>>

\* handleFrame
Publish ==
    /\ pc = "publish"
    /\ pc' = "top"
    /\ UNCHANGED <<media, controls, state, operator, faults, decoder, clocks, pauses>>

\* Faulty variant: a loop of the last item instead of the list, if it opens.
NextItemStays ==
    IF index + 1 < Len(Items) THEN index + 1 ELSE IF loop THEN index ELSE -1

\* playlistAdvance
NextItem ==
    IF index + 1 < Len(Items) THEN index + 1 ELSE IF loop THEN 0 ELSE -1

Advance ==
    /\ pc = "advance"
    /\ IF NextItem >= 0
       THEN index' = NextItem /\ file' = 0 /\ pc' = "top" /\ UNCHANGED atEnd
       ELSE atEnd' = TRUE /\ pc' = "ended" /\ UNCHANGED <<index, file>>
    /\ UNCHANGED <<media, controls, operator, faults, picked, pos, frame, first, pausedAge, was, clocks, pauses>>

Ended ==
    /\ pc = "ended"
    /\ playing' = FALSE
    /\ pc' = "top"
    /\ UNCHANGED <<media, loop, restart, select, state, operator, faults, decoder, clocks, pauses>>

\* Time passes while a clip has begun.
Tick ==
    /\ first >= 0
    /\ age' = IF age < MaxAge THEN age + 1 ELSE age
    /\ ran' = IF ~paused /\ ran < MaxAge THEN ran + 1 ELSE ran
    /\ UNCHANGED <<media, controls, state, operator, faults, pc, decoder, pauses>>

Decode ==
    \/ TakeSelect \/ Selected \/ TakeRestart \/ NotAtEnd \/ LookPlaying
    \/ Open \/ Opened \/ Read \/ Trim \/ Pace \/ Publish \/ Advance \/ Ended

Next == Operate \/ Store \/ Decode \/ Tick

Spec == Init /\ [][Next]_mediaVars

\* The threads run and time passes.
Fairness == WF_mediaVars(Store) /\ WF_mediaVars(Decode) /\ WF_mediaVars(Tick)

FairSpec == Spec /\ Fairness

------------------------------------------------------------------------------
(* Properties *)

\* TypeOK: the variables keep their types.
TypeOK ==
    /\ {media, playing, loop, restart, atEnd, was, want, paused, cued} \subseteq BOOLEAN
    /\ select \in -1 .. Len(Items) - 1 /\ picked \in -1 .. Len(Items) - 1
    /\ index \in 0 .. Len(Items) - 1 /\ file \in 0 .. Len(Items)
    /\ op \in Seq({"first", "restart", "play", "pause"})
    /\ pc \in {"top", "select", "selected", "restart", "restarted", "playing", "ready",
               "read", "trim", "pace", "publish", "advance", "ended"}
    /\ {pos, frame} \subseteq Nat /\ first \in {-1} \cup Nat
    /\ age \in 0..MaxAge /\ ran \in 0..MaxAge /\ pausedAge \in -1..MaxAge
    /\ ops \in 0..MaxOps /\ faults \in 0..MaxFaults

\* Whatever the operator selects, restarts or pauses while a frame is on its way,
\* a frame that goes out lies between the trims of the clip it was read from, and is
\* not due before as much of the clip has been played as lies before it, at the
\* clip's speed: a pause is no playing time and is never made up for.  A pause that
\* comes while the clip is being opened is left out here.
Due == Wall(Items[file], frame - first) <= ran

PlaysTheClip ==
    media /\ pc = "publish" =>
        /\ frame >= Items[file].in
        /\ Items[file].out > 0 => frame < Items[file].out
        /\ cued \/ Due

\* A live source that stays up is on air again, and a looping list the operator wants
\* to play goes on for ever: it skips the clips that do not open, comes to each of the
\* others again and again, whatever was done to it before.
MediaPlays ==
    IF media
    THEN []loop /\ <>[]want => \A i \in DOMAIN Items : Items[i].ok => []<>(pc = "publish" /\ file = i)
    ELSE []<>(pc = "publish")
=============================================================================
