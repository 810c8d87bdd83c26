------------------------------ MODULE ShowSave ------------------------------
(***************************************************************************)
(* The show file.  main() loads it, starts the engine with it and posts    *)
(* the rest as commands; from then on Session collects the engine's live   *)
(* state and the settings for the next start, and saves them when they     *)
(* differ from what it saved last: the saver thread every two seconds, the *)
(* web thread after an edit on the OUTPUTS tab, main() once more when the  *)
(* servers are gone.  A save writes show.ini.tmp and renames it.           *)
(*                                                                         *)
(* A show is cut down to one field of each kind: a setting (the width),    *)
(* an input's type, reference and playlist, a control-surface value (a     *)
(* keyer's fade) and a mixer value (a gain).  Each is kept by another      *)
(* owner, so collect() reads them one after the other.                     *)
(*                                                                         *)
(* What a text or a list looks like in the file is module IniDialect.      *)
(*                                                                         *)
(* The files are inodes: a thread that has opened the temporary file keeps *)
(* writing to it after another thread has renamed it.                      *)
(***************************************************************************)
EXTENDS Integers, Sequences, SequencesExt

CONSTANTS
    Widths,       \* widths asked for, odd ones included
    MaxFade,      \* 600 frames
    MaxGain,      \* 4.0
    Clips,        \* the names of files an input can be patched to play
    Overlap,      \* whether the web thread and the saver may save at once
    MaxEdits,     \* bound: edits
    MaxFaults     \* bound: crashes, exits and failed saves

SaveAssumption ==
    /\ Widths \subseteq Nat /\ {MaxFade, MaxGain} \subseteq Nat \ {0}
    /\ Clips \subseteq STRING \ {""}
    /\ Overlap \in BOOLEAN /\ {MaxEdits, MaxFaults} \subseteq Nat

Threads == {"saver", "web", "main"}
Parts == <<"width", "type", "ref", "list", "fade", "gain">>

VARIABLES
    stage,        \* of main(): "off", "up", "stopping", "exited", "unsaved"
    live,         \* the engine: [width, type, ref, list, fade, gain]
    posted,       \* the commands and patches the next tick applies
    pending,      \* pending_.show.width
    dirty, everSaved, lastSaved,   \* Session
    at,           \* where each thread is in saveIfChanged
    got,          \* what it has collected so far
    fd,           \* the file it has open: "tmp", "disk" or "gone"
    disk, tmp,    \* show.ini and show.ini.tmp
    rested,       \* nothing was left to apply when main() began to stop
    edits, faults

session == <<pending, dirty, everSaved, lastSaved>>
threads == <<at, got, fd>>
files == <<disk, tmp>>
bounds == <<edits, faults>>
saveVars == <<stage, live, posted, session, threads, files, rested, bounds>>

NoFile == [kind |-> "none"]
Empty == [kind |-> "empty"]     \* created or truncated, nothing written yet
Fresh == [width |-> 2, type |-> "omt", ref |-> "", list |-> << >>, fade |-> 1, gain |-> 1]

\* Faulty variant: no lower limit.
ClampAbove(x, lo, hi) == IF x > hi THEN hi ELSE x

Clamp(x, lo, hi) == IF x < lo THEN lo ELSE IF x > hi THEN hi ELSE x

------------------------------------------------------------------------------
(* The file *)

\* setList and escapeList: one item reads back as a scalar.
EncodeList(items) ==
    CASE Len(items) = 0 -> [form |-> "invalid", text |-> << >>]
      [] Len(items) = 1 -> [form |-> "scalar", text |-> items]
      [] OTHER -> [form |-> "list", text |-> items]

\* getList, and the loader's loop that takes over the items that are not empty.
DecodeList(v) ==
    IF v.form = "invalid" THEN << >>
    ELSE FoldLeft(LAMBDA l, x : IF x = "" THEN l ELSE Append(l, x), << >>, v.text)

\* ShowFile::save
Saved(s) ==
    [kind |-> "show", width |-> s.width, type |-> s.type, ref |-> s.ref,
     list |-> IF s.type # "media" THEN EncodeList(<< >>)
              ELSE EncodeList(IF s.list = << >> /\ s.ref # "" THEN <<s.ref>> ELSE s.list),
     fade |-> s.fade, gain |-> s.gain]

\* A player without a list plays its reference.
LoadedList(f) ==
    IF f.type # "media" THEN << >>
    ELSE IF DecodeList(f.list) # << >> THEN DecodeList(f.list)
    ELSE IF f.ref = "" THEN << >> ELSE <<f.ref>>

\* ShowFile::load: what a start would reject keeps its default, a missing or
\* empty file leaves all of them.
Loaded(f) ==
    IF f.kind # "show" THEN Fresh
    ELSE [width |-> IF f.width % 2 = 0 /\ f.width >= 2 THEN f.width ELSE Fresh.width,
          type |-> f.type,
          ref |-> IF LoadedList(f) = << >> THEN f.ref ELSE Head(LoadedList(f)),
          list |-> LoadedList(f),
          fade |-> Clamp(f.fade, 1, MaxFade), gain |-> Clamp(f.gain, 0, MaxGain)]

------------------------------------------------------------------------------
(* main and the engine *)

Idle == [t \in Threads |-> "idle"]

Init ==
    /\ stage = "off" /\ live = Fresh /\ posted = << >>
    /\ pending = Fresh.width /\ dirty = FALSE /\ everSaved = FALSE /\ lastSaved = Fresh
    /\ at = Idle /\ got = [t \in Threads |-> << >>] /\ fd = [t \in Threads |-> "gone"]
    /\ disk = NoFile /\ tmp = NoFile
    /\ rested = FALSE /\ edits = 0 /\ faults = 0

\* The engine starts with the settings, inputs and mixer of the file; buses and
\* keyers follow as commands.
Launch ==
    /\ stage = "off"
    /\ LET s == Loaded(disk) IN
       /\ live' = [s EXCEPT !.fade = Fresh.fade]
       /\ posted' = <<[fade |-> s.fade]>>
       /\ pending' = s.width
       /\ lastSaved' = s
    /\ stage' = "up" /\ dirty' = FALSE /\ everSaved' = FALSE
    /\ UNCHANGED <<threads, files, rested, bounds>>

\* What a command or a patch brings takes the place of what was there.
Replacing(l, p) == [x \in DOMAIN l |-> IF x \in DOMAIN p THEN p[x] ELSE l[x]]

\* A turn of the render loop: commands and patches, then the mirrors.
Tick ==
    /\ stage \in {"up", "stopping"}
    /\ posted # << >>
    /\ live' = FoldLeft(Replacing, live, posted)
    /\ posted' = << >>
    /\ UNCHANGED <<stage, session, threads, files, rested, bounds>>

Playlist(list) == [type |-> "media", ref |-> Head(list), list |-> list]

\* The operator, through either server: a fader, a keyer's fade (the protocol takes
\* 0 to 600, the core makes 0 one tick), a patch.
Edit ==
    /\ stage = "up" /\ edits < MaxEdits
    /\ edits' = edits + 1
    /\ \/ /\ \E g \in {0, MaxGain} : live' = [live EXCEPT !.gain = g]
          /\ UNCHANGED posted
       \/ /\ \E f \in {0, MaxFade} : posted' = Append(posted, [fade |-> Clamp(f, 1, MaxFade)])
          /\ UNCHANGED live
       \/ /\ \E l \in BoundedSeq(Clips, 2) \ {<< >>} : posted' = Append(posted, Playlist(l))
          /\ UNCHANGED live
    /\ UNCHANGED <<stage, session, threads, files, rested, faults>>

\* applySettings and setPendingConfig: a refused value leaves the old one, the
\* save follows either way.
EditSettings ==
    /\ stage = "up" /\ edits < MaxEdits
    /\ at["web"] = "idle"
    /\ Overlap \/ at["saver"] = "idle"
    /\ edits' = edits + 1
    /\ \E w \in Widths : pending' = IF w % 2 = 0 /\ w >= 2 THEN w ELSE pending
    /\ dirty' = TRUE
    /\ at' = [at EXCEPT !["web"] = "collect"]
    /\ got' = [got EXCEPT !["web"] = << >>]
    /\ UNCHANGED <<stage, live, posted, everSaved, lastSaved, fd, files, rested, faults>>

\* The servers go first, which joins the web thread.
Quit ==
    /\ stage = "up" /\ at["web"] = "idle" /\ faults < MaxFaults
    /\ stage' = "stopping"
    /\ rested' = (posted = << >>)
    /\ faults' = faults + 1
    /\ UNCHANGED <<live, posted, session, threads, files, edits>>

\* A crash or a power cut leaves the files, at any point.
Crash ==
    /\ stage \in {"up", "stopping"} /\ faults < MaxFaults
    /\ faults' = faults + 1
    /\ stage' = "off" /\ posted' = << >>
    /\ at' = Idle /\ got' = [t \in Threads |-> << >>] /\ fd' = [t \in Threads |-> "gone"]
    /\ UNCHANGED <<live, session, files, rested, edits>>

\* The next run of the program.
Again ==
    /\ stage \in {"exited", "unsaved"}
    /\ stage' = "off"
    /\ UNCHANGED <<live, posted, session, threads, files, rested, bounds>>

------------------------------------------------------------------------------
(* saveIfChanged *)

\* The saver's timer.
SaverWakes ==
    /\ stage = "up" /\ at["saver"] = "idle"
    /\ Overlap \/ at["web"] = "idle"
    /\ at' = [at EXCEPT !["saver"] = "collect"]
    /\ got' = [got EXCEPT !["saver"] = << >>]
    /\ UNCHANGED <<stage, live, posted, session, fd, files, rested, bounds>>

\* shutdown(): the saver has been joined.
LastSave ==
    /\ stage = "stopping" /\ at["saver"] = "idle" /\ at["main"] = "idle"
    /\ at' = [at EXCEPT !["main"] = "collect"]
    /\ got' = [got EXCEPT !["main"] = << >>]
    /\ UNCHANGED <<stage, live, posted, session, fd, files, rested, bounds>>

\* The end of saveIfChanged; in main, of the program.
Done(t, ok) ==
    /\ at' = [at EXCEPT ![t] = "idle"]
    /\ got' = [got EXCEPT ![t] = << >>]
    /\ stage' = IF t # "main" THEN stage ELSE IF ok THEN "exited" ELSE "unsaved"

\* What collect() reads of each part: settings under Session's mutex, the type
\* and the reference of an input in a lock each, its playlist if the input is
\* a player, the mirrors, the mixer's atomics.
Reading(p) ==
    CASE p = "width" -> pending
      [] p = "list" -> IF live.type = "media" THEN live.list ELSE << >>
      [] OTHER -> live[p]

Collect(t) ==
    /\ at[t] = "collect" /\ Len(got[t]) < Len(Parts)
    /\ got' = [got EXCEPT ![t] = Append(@, Reading(Parts[Len(@) + 1]))]
    /\ UNCHANGED <<stage, live, posted, session, at, fd, files, rested, bounds>>

State(t) ==
    LET v(p) == got[t][CHOOSE i \in DOMAIN Parts : Parts[i] = p] IN
    [width |-> v("width"), type |-> v("type"), list |-> v("list"),
     ref |-> IF v("list") # << >> THEN Head(v("list")) ELSE v("ref"),
     fade |-> v("fade"), gain |-> v("gain")]

\* Faulty variant: only the settings' flag asks for a save.
DecideFlagOnly(t) ==
    /\ at[t] = "collect" /\ Len(got[t]) = Len(Parts)
    /\ IF everSaved /\ ~dirty
       THEN Done(t, TRUE) /\ UNCHANGED dirty
       ELSE /\ dirty' = FALSE
            /\ at' = [at EXCEPT ![t] = "open"]
            /\ UNCHANGED <<stage, got>>
    /\ UNCHANGED <<live, posted, pending, everSaved, lastSaved, fd, files, rested, bounds>>

\* Faulty variant: the state counts as saved before the save is done.
DecideNotes(t) ==
    /\ at[t] = "collect" /\ Len(got[t]) = Len(Parts)
    /\ IF everSaved /\ ~dirty /\ State(t) = lastSaved
       THEN Done(t, TRUE) /\ UNCHANGED <<dirty, everSaved, lastSaved>>
       ELSE /\ dirty' = FALSE /\ everSaved' = TRUE /\ lastSaved' = State(t)
            /\ at' = [at EXCEPT ![t] = "open"]
            /\ UNCHANGED <<stage, got>>
    /\ UNCHANGED <<live, posted, pending, fd, files, rested, bounds>>

Decide(t) ==
    /\ at[t] = "collect" /\ Len(got[t]) = Len(Parts)
    /\ IF everSaved /\ ~dirty /\ State(t) = lastSaved
       THEN Done(t, TRUE) /\ UNCHANGED dirty
       ELSE /\ dirty' = FALSE
            /\ at' = [at EXCEPT ![t] = "open"]
            /\ UNCHANGED <<stage, got>>
    /\ UNCHANGED <<live, posted, pending, everSaved, lastSaved, fd, files, rested, bounds>>

\* Opening truncates what is there.
Open(t) ==
    /\ at[t] = "open"
    /\ tmp' = Empty
    /\ fd' = [fd EXCEPT ![t] = "tmp"]
    /\ at' = [at EXCEPT ![t] = "write"]
    /\ UNCHANGED <<stage, live, posted, session, got, disk, rested, bounds>>

Write(t) ==
    /\ at[t] = "write"
    /\ tmp' = IF fd[t] = "tmp" THEN Saved(State(t)) ELSE tmp
    /\ disk' = IF fd[t] = "disk" THEN Saved(State(t)) ELSE disk
    /\ fd' = [fd EXCEPT ![t] = "gone"]
    /\ at' = [at EXCEPT ![t] = "rename"]
    /\ UNCHANGED <<stage, live, posted, session, got, rested, bounds>>

\* The renamed file takes the place of the old one, under the same descriptors.
Renamed(f) == CASE f = "tmp" -> "disk" [] OTHER -> "gone"

Rename(t) ==
    /\ at[t] = "rename"
    /\ IF tmp = NoFile
       THEN Done(t, FALSE) /\ UNCHANGED <<files, fd>>
       ELSE /\ disk' = tmp /\ tmp' = NoFile
            /\ fd' = [u \in Threads |-> Renamed(fd[u])]
            /\ at' = [at EXCEPT ![t] = "note"]
            /\ UNCHANGED <<stage, got>>
    /\ UNCHANGED <<live, posted, session, rested, bounds>>

Note(t) ==
    /\ at[t] = "note"
    /\ lastSaved' = State(t) /\ everSaved' = TRUE
    /\ Done(t, TRUE)
    /\ UNCHANGED <<live, posted, pending, dirty, fd, files, rested, bounds>>

\* A write or a rename that fails, and is seen to: the rename removes the temporary
\* file.
SaveFails(t) ==
    /\ at[t] \in {"open", "write", "rename"} /\ faults < MaxFaults
    /\ faults' = faults + 1
    /\ tmp' = IF at[t] = "rename" THEN NoFile ELSE tmp
    /\ fd' = IF at[t] # "rename" THEN fd
             ELSE [u \in Threads |-> IF fd[u] = "tmp" THEN "gone" ELSE fd[u]]
    /\ Done(t, FALSE)
    /\ UNCHANGED <<live, posted, session, disk, rested, edits>>

Save(t) == Collect(t) \/ Decide(t) \/ Open(t) \/ Write(t) \/ Rename(t) \/ Note(t)

Next ==
    \/ Launch \/ Tick \/ Edit \/ EditSettings \/ Quit \/ Crash \/ Again
    \/ SaverWakes \/ LastSave
    \/ \E t \in Threads : Save(t) \/ SaveFails(t)

Spec == Init /\ [][Next]_saveVars

\* The render loop ticks, the timer fires, threads run, main() goes on once it
\* has been told to stop.  Nobody has to edit, quit or fail.
Fairness ==
    /\ WF_saveVars(Launch) /\ WF_saveVars(Tick) /\ WF_saveVars(Again)
    /\ WF_saveVars(SaverWakes) /\ WF_saveVars(LastSave)
    /\ \A t \in Threads : WF_saveVars(Save(t))

FairSpec == Spec /\ Fairness

------------------------------------------------------------------------------
(* Properties *)

Current == [live EXCEPT !.width = pending]

\* TypeOK: the variables keep their types.
TypeOK ==
    /\ stage \in {"off", "up", "stopping", "exited", "unsaved"}
    /\ pending \in Nat /\ dirty \in BOOLEAN /\ everSaved \in BOOLEAN /\ rested \in BOOLEAN
    /\ live.fade \in 1..MaxFade /\ live.gain \in 0..MaxGain
    /\ at \in [Threads -> {"idle", "collect", "open", "write", "rename", "note"}]
    /\ fd \in [Threads -> {"tmp", "disk", "gone"}]
    /\ disk.kind \in {"none", "empty", "show"} /\ tmp.kind \in {"none", "empty", "show"}

\* Whatever is cut short, by a crash or by a save that fails, the file a restart
\* would read is the show of one earlier moment, complete: never a truncated file
\* and never with a width the engine refuses to start with.
FileWhole == disk.kind # "empty" /\ (disk.kind = "show" => Loaded(disk).width = disk.width)

\* Once the operator leaves the console alone, the file holds what the engine runs
\* and the settings for the next start, through failed saves, crashes and restarts;
\* a restart then brings back exactly that.
EditsReachDisk == <>[](stage = "up" => disk.kind = "show" /\ Loaded(disk) = Current)

\* An orderly exit writes the last state, unless its own save fails or a command
\* was still in the ring when main() was told to stop.
ExitKeepsEdits == stage = "exited" /\ rested => Loaded(disk) = Current
=============================================================================
