----------------------------- MODULE ControlSide -----------------------------
(***************************************************************************)
(* The parts between an operator and the engine, checked side by side: the *)
(* show file (ShowSave), the sockets of both servers (ControlPort), the    *)
(* picture of the browser (MultiviewFeed), patching an input (InputPatch)  *)
(* and the OUTPUTS tab (OutputSettings). The texts they exchange have no   *)
(* state: MCControlSide checks them at the start of a part of their own.   *)
(*                                                                         *)
(* They share no variable, so their interleavings would only multiply the  *)
(* states: the part that moves is chosen at the start, and the others stay *)
(* where theirs begins. A liveness property holds under the fairness of    *)
(* its own part.                                                           *)
(***************************************************************************)
EXTENDS Integers, Sequences

CONSTANTS
  Widths, MaxFade, MaxGain, Clips, MaxEdits, MaxFaults,    \* ShowSave
  Clients, Talkers, MaxClients, QueueSize, InSize, Window, Limits,   \* ControlPort
  Slots, InFlight, MaxTicks, MaxEvents,                    \* MultiviewFeed
  Feeds, Stills, Syncs,                                    \* InputPatch
  Pasted, Hosts, Phrases, Shows,                           \* OutputSettings
  MaxAsks                 \* bound on the requests to either of the last two

Parts == {"save", "port", "browser", "patch", "outputs", "texts"}

VARIABLES
  part,
  \* ShowSave
  stage, live, posted, pending, dirty, everSaved, lastSaved, at, got, fd, disk, tmp, rested,
  edits, faults,
  \* ControlPort
  web, limits, engine, last, moves, list, conn, applied, phase, todo, ready, push, peer, wire,
  sends, inbox, reading, seenState,
  \* MultiviewFeed
  value, stamp, submitted, whole, step, done, drawing, pixels, enc, seq, frame, frameSeq, failed,
  hand, clientSeq, watching, shown, events,
  \* InputPatch
  spec, playing, queued, swapping, req, asked, calm, asks,
  \* OutputSettings
  stored, send, show, setting, settings

saveVars == <<stage, live, posted, pending, dirty, everSaved, lastSaved, at, got, fd, disk, tmp,
              rested, edits, faults>>
portVars == <<web, limits, engine, last, moves, list, conn, applied, phase, todo, ready, push, peer,
              wire, sends, inbox, reading, seenState>>
browserVars == <<value, stamp, submitted, whole, step, done, drawing, pixels, enc, seq, frame,
                 frameSeq, failed, hand, clientSeq, watching, shown, events>>
patchVars == <<spec, playing, queued, swapping, req, asked, calm, asks>>
outputVars == <<stored, send, show, setting, settings>>
sideVars == <<part, saveVars, portVars, browserVars, patchVars, outputVars>>

\* The web thread and the saver take turns in a save. Session.cpp:124-152 does not
\* enforce it: what they do at once is a run of its own, and the two properties of
\* the show file below do not watch it.
Save == INSTANCE ShowSave WITH Overlap <- FALSE

Port == INSTANCE ControlPort WITH got <- seenState

Browser == INSTANCE MultiviewFeed WITH ready <- whole

Patch == INSTANCE InputPatch

Outputs == INSTANCE OutputSettings WITH asked <- setting, asks <- settings

ASSUME SideAssumption ==
  /\ Save!SaveAssumption /\ Port!PortAssumption /\ Browser!FeedAssumption
  /\ Patch!PatchAssumption /\ Outputs!SettingsAssumption

SideInit ==
  /\ part \in Parts
  /\ Save!Init /\ Port!Init /\ Browser!Init /\ Patch!Init /\ Outputs!Init
  /\ part # "port" => ~web /\ limits = CHOOSE l \in Limits : TRUE

\* The texts have no steps.
TextsDone == part = "texts" /\ part' = "done"

SideNext ==
  \/ /\ part = "save" /\ Save!Next
     /\ UNCHANGED <<part, portVars, browserVars, patchVars, outputVars>>
  \/ /\ part = "port" /\ Port!Next
     /\ UNCHANGED <<part, saveVars, browserVars, patchVars, outputVars>>
  \/ /\ part = "browser" /\ Browser!Next
     /\ UNCHANGED <<part, saveVars, portVars, patchVars, outputVars>>
  \/ /\ part = "patch" /\ Patch!Next
     /\ UNCHANGED <<part, saveVars, portVars, browserVars, outputVars>>
  \/ /\ part = "outputs" /\ Outputs!Next
     /\ UNCHANGED <<part, saveVars, portVars, browserVars, patchVars>>
  \/ /\ TextsDone
     /\ UNCHANGED <<saveVars, portVars, browserVars, patchVars, outputVars>>

SideSpec == SideInit /\ [][SideNext]_sideVars

---------------------------------------------------------------------------
(* The properties, each stated in the module of its part.                  *)

\* Every part keeps the types of its variables.
SideTypes ==
  CASE part = "save" -> Save!TypeOK
    [] part = "port" -> Port!TypeOK
    [] part = "browser" -> Browser!TypeOK
    [] part = "patch" -> Patch!TypeOK
    [] part = "outputs" -> Outputs!TypeOK
    [] OTHER -> part \in Parts \cup {"done"}

\* The show file is whole at every moment, and an orderly exit has written the last
\* state (Session, ShowFile, IniFile::save), when the savers take turns.
ShowFileSafe == part = "save" => Save!FileWhole /\ Save!ExitKeepsEdits

\* An edit reaches the disk once the operator leaves the console alone, when the
\* savers take turns.
EditsReachDisk == Save!Fairness => Save!EditsReachDisk

\* Commands are applied in the order they were sent (ControlServer, WebServer).
CommandsInOrder == part = "port" => Port!CommandsInOrder

\* A client that follows the state sees what the engine shows, one that is to be
\* dropped is closed, and a browser ends up with the last multiview.
ViewersCatchUp ==
  /\ Port!Fairness => Port!FollowersSeeState /\ Port!DoomedGo
  /\ Browser!Fairness => Browser!LastPictureReaches

\* No browser is given a torn multiview.
MultiviewIntact == Browser!MultiviewIntact

\* A request about an input keeps or brings the source that was asked for.
CalmRequestsKeepSource == part = "patch" => Patch!CalmRequestsKeepSource

\* An edit of one field of the SRT address leaves the others, for hosts without a
\* slash and options without a field of their own.
FieldsSurvive == Outputs!FieldsSurvive
=============================================================================
