------------------------------ MODULE InputPatch ------------------------------
(***************************************************************************)
(* Patching one input from the browser (web/WebServer, handleWsJson): the  *)
(* web thread answers replaceInput, playlist and sync from the input's     *)
(* specification, which it reads field by field under the engine's lock    *)
(* (inputType, inputRef, inputSyncFrames, inputMediaPlaylist), and queues  *)
(* a new specification; the render thread swaps inputs at its next tick    *)
(* (Engine::requestInputReplace, renderLoop).                              *)
(*                                                                         *)
(* A source is a type, a reference and, for a player, a list of clips.     *)
(* CUDA is there: without it a player is refused.                          *)
(***************************************************************************)
EXTENDS Integers, SequencesExt

CONSTANTS Clips,       \* media files
          Feeds,       \* OMT sources
          Stills,      \* still pictures
          Syncs,       \* frame-sync settings, -1 is off
          MaxAsks      \* bound: requests

PatchAssumption == -1 \in Syncs /\ Syncs \subseteq -1 .. 4 /\ MaxAsks \in Nat

VARIABLES spec,      \* cfg_.inputs[i]
          playing,   \* the player's own state
          queued,    \* pendingReplace_
          swapping,  \* what the render thread has taken out of it
          req,       \* the request in hand: step, kind and what was read so far
          asked,     \* what was asked last: the request, and the source it asks for
          calm,      \* nothing was queued or being swapped when it came in
          asks

inputVars == <<spec, playing, queued, swapping>>
vars == <<inputVars, req, asked, calm, asks>>

Black == [type |-> "omt", ref |-> "", list |-> << >>]
Lists == {<<c>> : c \in Clips} \cup {<<c, d>> : c \in Clips, d \in Clips}

\* The type follows from the reference: "auto".
Single ==
  {[type |-> "omt", ref |-> r, list |-> << >>] : r \in Feeds}
    \cup {[type |-> "still", ref |-> r, list |-> << >>] : r \in Stills}
    \cup {[type |-> "media", ref |-> c, list |-> << >>] : c \in Clips}

Players == {[type |-> "media", ref |-> Head(l), list |-> l] : l \in Lists}

\* normalizeInputSpec: a still has no cadence to synchronise, a player without a
\* list plays its reference, one with a list is known by its first clip.
Normal(s) ==
  IF s.type = "still" THEN [s EXCEPT !.sync = -1]
  ELSE IF s.type # "media" THEN s
  ELSE LET l == IF s.list = << >> /\ s.ref # "" THEN <<s.ref>> ELSE s.list
       IN [s EXCEPT !.list = l, !.ref = IF l = << >> THEN @ ELSE Head(l)]

Spec0(s, sync, plays) ==
  [type |-> s.type, ref |-> s.ref, list |-> s.list, sync |-> sync, plays |-> plays]

SourceOf(s) == [type |-> s.type, ref |-> s.ref, list |-> s.list]

NoReq == [step |-> "none"]

\* What the input is, or will be once everything queued is swapped in.
Newest == Last(<<spec>> \o swapping \o queued)

Init ==
  /\ spec = Spec0(Black, -1, TRUE) /\ playing = TRUE
  /\ queued = << >> /\ swapping = << >>
  /\ req = NoReq /\ asked = [kind |-> "none", source |-> Black] /\ calm = TRUE /\ asks = 0

---------------------------------------------------------------------------
(* The render thread.                                                      *)
Take ==
  /\ swapping = << >> /\ queued # << >>
  /\ swapping' = queued /\ queued' = << >>
  /\ UNCHANGED <<spec, playing, req, asked, calm, asks>>

\* The old input goes, the new one starts, and the specification follows.
Swap ==
  /\ swapping # << >> /\ swapping' = Tail(swapping)
  /\ spec' = Head(swapping)
  /\ playing' = Head(swapping).plays
  /\ UNCHANGED <<queued, req, asked, calm, asks>>

\* The operator plays and pauses, a playlist ends.
PlayOrPause ==
  /\ spec.type = "media" /\ playing' = ~playing
  /\ UNCHANGED <<spec, queued, swapping, req, asked, calm, asks>>

---------------------------------------------------------------------------
(* The web thread.                                                         *)
Begin(r, source) ==
  /\ req.step = "none" /\ asks < MaxAsks /\ asks' = asks + 1
  /\ req' = r /\ asked' = [kind |-> r.kind, source |-> source]
  /\ calm' = (queued = << >> /\ swapping = << >>)
  /\ UNCHANGED inputVars

AskReplace(s, sync) ==
  Begin([step |-> "ref", kind |-> "replace", new |-> Spec0(s, sync, TRUE)],
        SourceOf(Normal(Spec0(s, sync, TRUE))))

AskPlaylist(s) ==
  Begin([step |-> "keepsync", kind |-> "playlist", new |-> Spec0(s, -1, TRUE)], s)

\* The source stays what it is, or is about to be.
AskSync(sync) ==
  Begin([step |-> "change", kind |-> "sync", new |-> Spec0(Black, sync, TRUE)], SourceOf(Newest))

\* Every field is read under a lock of its own: between two of them the render
\* thread may swap the input.
Read(next, new) ==
  /\ req' = [req EXCEPT !.step = next, !.new = new]
  /\ UNCHANGED <<inputVars, asked, calm, asks>>

Drop == req' = NoReq /\ UNCHANGED <<inputVars, asked, calm, asks>>

Post ==
  /\ queued' = Append(queued, Normal(req.new))
  /\ req' = NoReq
  /\ UNCHANGED <<spec, playing, swapping, asked, calm, asks>>

\* Faulty variant: the list of a player is not carried over.
NoList == << >>

KeptList == IF spec.type = "media" THEN spec.list ELSE << >>

\* replaceInput and playlist, what is there already: nothing to do.  The first
\* field that differs decides.
Compare(same, next) == Read(IF same THEN next ELSE "post", req.new)

ComparesRef  == req.step = "ref" /\ Compare(req.new.ref = spec.ref, "type")
ComparesType == req.step = "type" /\ Compare(req.new.type = spec.type,
                                            IF req.kind = "playlist" THEN "list" ELSE "sync")
ComparesList == req.step = "list" /\ Compare(req.new.list = KeptList, "sync")
ComparesSync == req.step = "sync" /\ IF req.new.sync = spec.sync THEN Drop ELSE Post

Posts == req.step = "post" /\ Post

\* playlist: the synchronisation stays, and the player goes on as it did.
KeepsSync ==
  req.step = "keepsync" /\ Read("state", [req.new EXCEPT !.sync = spec.sync])

ReadsState ==
  /\ req.step = "state"
  /\ Read(IF req.kind = "playlist" THEN "type" ELSE "keep",
          [req.new EXCEPT !.plays = IF spec.type = "media" THEN playing ELSE @])

\* sync: the rest of the specification is read, one field after the other.
SyncChanges ==
  /\ req.step = "change"
  /\ IF req.new.sync = spec.sync THEN Drop ELSE Read("readtype", req.new)

ReadsType ==
  req.step = "readtype" /\ Read("readref", [req.new EXCEPT !.type = spec.type])

ReadsRef ==
  /\ req.step = "readref"
  /\ Read(IF req.new.type = "media" THEN "readlist" ELSE "keep",
          [req.new EXCEPT !.ref = spec.ref])

ReadsList ==
  req.step = "readlist" /\ Read("state", [req.new EXCEPT !.list = KeptList])

SyncDecides == req.step = "keep" /\ IF req.new.ref = "" THEN Drop ELSE Post

Answer ==
  \/ ComparesRef \/ ComparesType \/ ComparesList \/ ComparesSync \/ Posts
  \/ KeepsSync \/ ReadsState
  \/ SyncChanges \/ ReadsType \/ ReadsRef \/ ReadsList \/ SyncDecides

Next ==
  \/ Take \/ Swap \/ PlayOrPause \/ Answer
  \/ \E s \in Single \cup {Black}, sync \in Syncs : AskReplace(s, sync)
  \/ \E s \in Players : AskPlaylist(s)
  \/ \E sync \in Syncs : AskSync(sync)

Spec == Init /\ [][Next]_vars

---------------------------------------------------------------------------
TypeOK ==
  /\ {spec.type} \cup {s.type : s \in ToSet(queued \o swapping)} \subseteq {"omt", "still", "media"}
  /\ playing \in BOOLEAN /\ calm \in BOOLEAN /\ asks \in 0 .. MaxAsks
  /\ Len(queued) + Len(swapping) <= MaxAsks

\* After a request that came in with no swap on its way, the input is, or is about
\* to be, what was asked for (WebServer::handleWsJson): a patch that is taken for
\* what is there already is, a playlist is played whole, and a change of the frame
\* synchronisation keeps the source and its playlist. (A single clip is known by its
\* file alone: asked for where a list that begins with it plays, it is taken to be
\* there.)
CalmRequestsKeepSource ==
  (calm /\ req.step = "none" /\ asked.kind # "none") =>
    IF asked.kind = "replace"
      THEN Newest.type = asked.source.type /\ Newest.ref = asked.source.ref
      ELSE SourceOf(Newest) = asked.source

=============================================================================
