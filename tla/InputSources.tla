---------------------------- MODULE InputSources ----------------------------
(***************************************************************************)
(* What feeds the inputs, checked side by side: the decode thread of a     *)
(* media file or an SRT stream (MediaTransport), the SDI input (SdiInput), *)
(* the OMT receiver (OmtReceive) and the still image (StillLoad), each of  *)
(* which ends in a publish that UploadPin takes over, and the engine they  *)
(* are built, replaced and stopped by (EngineLife).  The part that moves   *)
(* is chosen at the start; a liveness property holds under the fairness of *)
(* its own part.                                                           *)
(***************************************************************************)
EXTENDS MediaTransport

CONSTANTS
  Modes, Seed,            \* SdiInput
  Slots, Tallies, BadLimit,   \* OmtReceive
  MaxEvents,              \* bound on what happens to a card or to a sender
  MaxPackets,             \* StillLoad
  Sources, Without, FramesInFlight   \* EngineLife

VARIABLES
  part,
  \* SdiInput
  forced, detects, signal, avail, card, worker, taken, opening, streaming, locked, fresh, pending,
  fps, callback, published, changes,
  \* OmtReceive
  recv, tally, applied, told, connected, everConnected, reconnects, alphaConn, ring, busy, matte,
  opaque, shown, stamps, events,
  \* StillLoad
  image, delay, step, feed, stopping, mailbox, there, frames,
  \* EngineLife
  phase, at, built, off, running, asked, work, source, replaced, destroyed, wired, kept

sdiVars == <<forced, detects, signal, avail, card, worker, taken, opening, streaming, locked,
             fresh, pending, fps, callback, published, changes>>
omtVars == <<recv, tally, applied, told, connected, everConnected, reconnects, alphaConn, ring,
             busy, matte, opaque, shown, stamps, events>>
stillVars == <<image, delay, step, feed, stopping, mailbox, there, frames>>
lifeVars == <<phase, at, built, off, running, asked, work, source, replaced, destroyed, wired, kept>>
sourceVars == <<part, mediaVars, sdiVars, omtVars, stillVars, lifeVars>>

\* The playlist: a whole clip, one that does not open, and one trimmed at both ends at
\* half speed.
Playlist == <<[len |-> 2, in |-> 0, out |-> 0, speed |-> 1000, ok |-> TRUE],
              [len |-> 0, in |-> 0, out |-> 0, speed |-> 1000, ok |-> FALSE],
              [len |-> 4, in |-> 1, out |-> 3, speed |-> 500, ok |-> TRUE]>>

Sdi == INSTANCE SdiInput WITH connected <- locked, events <- changes

Omt == INSTANCE OmtReceive

Still == INSTANCE StillLoad WITH file <- image, decoder <- feed, connected <- there

Life == INSTANCE EngineLife

ASSUME SourcesAssumption ==
  /\ MediaAssumption /\ Sdi!SdiAssumption /\ Omt!OmtAssumption /\ Life!LifeAssumption
  /\ MaxPackets \in Nat

\* The parts that do not move stay in one of their initial states.
SourcesInit ==
  /\ part \in {"media", "sdi", "omt", "still", "life"}
  /\ Init /\ (part # "media" => ~media /\ ~playing /\ ~loop)
  /\ Sdi!Init /\ (part # "sdi" => forced = "no mode" /\ ~detects /\ signal = "no mode" /\ ~avail)
  /\ Omt!Init /\ (part # "omt" => tally = CHOOSE t \in Tallies : TRUE)
  /\ Still!Init /\ (part # "still" => image = [opens |-> FALSE, packets |-> << >>] /\ delay = 0)
  /\ Life!Init /\ (part # "life" => off = {})

SourcesNext ==
  \/ part = "media" /\ Next /\ UNCHANGED <<part, sdiVars, omtVars, stillVars, lifeVars>>
  \/ part = "sdi" /\ Sdi!Next /\ UNCHANGED <<part, mediaVars, omtVars, stillVars, lifeVars>>
  \/ part = "omt" /\ Omt!Next /\ UNCHANGED <<part, mediaVars, sdiVars, stillVars, lifeVars>>
  \/ part = "still" /\ Still!Next /\ UNCHANGED <<part, mediaVars, sdiVars, omtVars, lifeVars>>
  \/ part = "life" /\ Life!Next /\ UNCHANGED <<part, mediaVars, sdiVars, omtVars, stillVars>>

SourcesSpec == SourcesInit /\ [][SourcesNext]_sourceVars

---------------------------------------------------------------------------
(* The properties, each stated in the module of its part; PlaysTheClip is   *)
(* MediaTransport's as it stands.                                           *)

\* Every part keeps the types of its variables.
SourceTypes ==
  CASE part = "media" -> TypeOK
    [] part = "sdi" -> Sdi!TypeOK
    [] part = "omt" -> Omt!TypeOK
    [] part = "still" -> Still!TypeOK
    [] part = "life" -> Life!TypeOK

\* A list that loops plays every clip that opens, a live stream comes back.
MediaGoesOn == part = "media" /\ Fairness => MediaPlays

\* A frame is what it is described to be: an SDI frame carries the rate of its mode,
\* an OMT picture its own matte (DeckLinkInput::onFrame, OmtInput::run).
FramesAsDescribed ==
  /\ part = "sdi" => Sdi!RateIsTheFrames
  /\ part = "omt" => Omt!MatteIsThePictures

\* Sources settle whatever happened to them before: an SDI input on the signal on
\* the wire, the sender of an OMT connection on the tally of now, a still on its
\* picture; and a switcher that is told to stop does.
SourcesSettle ==
  /\ part = "sdi" /\ Sdi!Fairness => Sdi!SettlesOnSignal
  /\ part = "omt" /\ Omt!Fairness => Omt!TallyReachesSender
  /\ part = "still" /\ Still!Fairness => Still!StillAppears
  /\ part = "life" /\ Life!Fairness => Life!StopEnds

\* Whatever is still running when a member of the engine goes does not need it, and
\* the senders are there before the first receiver and after the last (Engine::start,
\* stop).
TakenDownInOrder ==
  /\ [](part = "life" => Life!MembersOutliveUsers)
  /\ Life!SendersOutside
=============================================================================
