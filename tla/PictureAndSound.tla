--------------------------- MODULE PictureAndSound ---------------------------
(***************************************************************************)
(* The way of an input's frames to the screen and of its samples to the    *)
(* mix, checked side by side: when a frame is due (FrameSync), what keeps  *)
(* its pixels in place until the GPU has sampled them (UploadPin), when    *)
(* samples are read (AudioLane) and how loud they are (AudioMix).          *)
(* UploadPin lets any frame be due, so it covers whatever FrameSync        *)
(* decides; the part that moves is chosen at the start.                    *)
(***************************************************************************)
EXTENDS Integers

CONSTANTS
  Window, Slew, PtsGap, LockPresents, SyncFrames, Slack, Periods, Steps, MaxElapsed, MaxLate,
  MaxArrivals, MaxNow,                                    \* of FrameSync
  OffSlots, SyncSlots, Keep, FeedCapacity, QueueCap, FramesInFlight, Modes, MaxFrames, MaxRings,
  MaxValue,                                               \* of UploadPin
  FaultFrames, FaultValue, MaxFail,                       \* of UploadPin, where something fails
  Prefill, MaxFill, RingSize, Hold, MaxStalls,            \* of AudioLane
  Sources, Full                                           \* of AudioMix

VARIABLES
  part,
  \* FrameSync
  now, arrivals, uploadedTo, fs, base, reported, presented, last, recent, flushed,
  \* UploadPin
  sync, ring, cursor, filling, frames, staging, image, lastSubmit, pending, uploadDone, failed,
  lost, mailbox, feed, queue, cur, seen, rpc, value, gpu, inFlight, retention,
  \* AudioLane
  fill, backlog, sending, broken, holding, looked, synced, mixer, gap, stalls,
  \* AudioMix
  mixSnap, dskSnap, tick, key, chunk, snap, snapDsk, bus, maybe, surely

syncVars == <<now, arrivals, uploadedTo, fs, base, reported, presented, last, recent, flushed>>
pinVars == <<sync, ring, cursor, filling, frames, staging, image, lastSubmit, pending, uploadDone,
             failed, lost, mailbox, feed, queue, cur, seen, rpc, value, gpu, inFlight, retention>>
laneVars == <<fill, backlog, sending, broken, holding, looked, synced, mixer, gap, stalls>>
mixVars == <<mixSnap, dskSnap, tick, key, chunk, snap, snapDsk, bus, maybe, surely>>
pathVars == <<part, syncVars, pinVars, laneVars, mixVars>>

Sync == INSTANCE FrameSync

Pin == INSTANCE UploadPin WITH MaxFail <- 0

\* The same with a copy or an upload that fails, and fewer frames.
Fault == INSTANCE UploadPin WITH MaxFrames <- FaultFrames, MaxValue <- FaultValue

Lane == INSTANCE AudioLane WITH seen <- looked, step <- mixer

Mix == INSTANCE AudioMix WITH job <- tick, step <- chunk

ASSUME PathAssumption ==
  /\ Sync!SettingsAssumption /\ Sync!QueueAssumption /\ Sync!BoundsAssumption
  /\ Pin!SlotsAssumption /\ Pin!HoldersAssumption /\ Pin!BoundsAssumption /\ Pin!SlotsEnough
  /\ Fault!BoundsAssumption /\ Lane!LaneAssumption /\ Lane!CadenceAssumption
  /\ Mix!MixAssumption

\* The parts that do not move stay in one of their initial states.
PathInit ==
  /\ part \in {"sync", "pin", "fault", "lane", "mix"}
  /\ Sync!Init
  /\ Pin!Init /\ (sync => part \in {"pin", "fault"})
  /\ Lane!Init /\ (synced => part = "lane")
  /\ Mix!Init /\ (part # "mix" => mixSnap.pgm = 0 /\ mixSnap.pvw = 0)

PathNext ==
  \/ part = "sync" /\ Sync!Next /\ UNCHANGED <<part, pinVars, laneVars, mixVars>>
  \/ part = "pin" /\ Pin!Next /\ UNCHANGED <<part, syncVars, laneVars, mixVars>>
  \/ part = "fault" /\ Fault!Next /\ UNCHANGED <<part, syncVars, laneVars, mixVars>>
  \/ part = "lane" /\ Lane!Next /\ UNCHANGED <<part, syncVars, pinVars, mixVars>>
  \/ part = "mix" /\ Mix!Next /\ UNCHANGED <<part, syncVars, pinVars, laneVars>>

PathSpec == PathInit /\ [][PathNext]_pathVars

---------------------------------------------------------------------------
(* The properties, each stated in the module of its part.                  *)

\* Every part keeps the types of its variables.
PathTypes ==
  CASE part = "sync" -> Sync!TypeOK
    [] part = "lane" -> Lane!TypeOK
    [] part = "mix" -> Mix!TypeOK
    [] OTHER -> Pin!TypeOK

\* The schedule is sound: its anchor heads for the least delay of the window, and no
\* frame waits longer than the delay that was asked for (FrameSync::push, present).
ScheduleSound == part = "sync" => Sync!AnchorIsWindowMin /\ Sync!NoFrameOverdelayed

\* Nothing but a counted resync steps a locked schedule.
OnlyResyncsStep == Sync!OnlyResyncsStep

\* The statistics are right: every frame is queued, presented or counted as dropped,
\* and the counts go on through resyncs and changes of source (Engine's syncBase).
StatisticsRight == [](part = "sync" => Sync!EveryDropCounted) /\ Sync!StatisticsCountOn

\* The GPU samples the frame that was composited, and no upload in flight is
\* written over (UploadRing, Nv12Ring, LatestMailbox, the retention of a tick).
PixelsStay == part \in {"pin", "fault"} => Pin!SampledIntact /\ Pin!StagingIntact

\* A frame is dropped only when the screen is that far behind.
DropMeansBehind == part \in {"pin", "fault"} => Pin!DropMeansBehind

\* The picture never goes back in time: frames are presented in the order of their
\* arrival, and the frame on air is never followed by an older one.
PictureForward == Sync!PresentsInOrder /\ Pin!AirForward

\* What is on air is heard, what is not is not, and a lane whose sender keeps its
\* cadence never runs dry (AudioEngine, MixerCore).
AudioFollows == [](part = "lane" => Lane!NoGapOnCadence) /\ Mix!HeardIsOnAir
=============================================================================
