------------------------------ MODULE EngineLife ------------------------------
(***************************************************************************)
(* The life of a running switcher (main, Engine::start, stop): its members *)
(* are built in one order and taken down in another, each with the threads *)
(* that are joined by its destructor, while those still running use the    *)
(* members they were given as plain references.  One input stands for all  *)
(* of them; the render thread may replace its source, which is then        *)
(* destroyed on a thread nobody joins.  Starting and stopping a recorder   *)
(* is in NvHandoff.                                                        *)
(***************************************************************************)
EXTENDS Naturals, SequencesExt

CONSTANTS Sources,     \* bound: the sources the input may have, one after the other
          Without,     \* bound: the sets of members an engine may be without
          FramesInFlight  \* ticks whose frames are retained (2 in the code)

VARIABLES phase,       \* "start", "run", "stop" or "over"
          at,          \* how far main is in the order of its phase
          built,       \* members that exist
          off,         \* members that are not asked for, or not to be had
          running,     \* threads
          asked,       \* threads whose stop has been requested
          work,        \* where each thread is in its loop
          source,      \* inputs_[i], or "black"
          replaced,    \* sources handed to a detached thread
          destroyed,   \* sources whose destructor is through
          wired,       \* sources with an audio sink
          kept         \* sources of the frames the ticks in flight retain

members == <<phase, at, built, off>>
threads == <<running, asked, work>>
inputs == <<source, replaced, destroyed, wired>>
lifeVars == <<members, threads, inputs, kept>>

Threads == {"servers", "render", "mixer", "sender", "srt"} \cup Sources

Init ==
  /\ phase = "start" /\ at = 1 /\ built = {} /\ off \in Without
  /\ running = {} /\ asked = {} /\ work = [t \in Threads |-> "idle"]
  /\ source = "black" /\ replaced = {} /\ destroyed = {} /\ wired = {}
  /\ kept = << >>

\* Every source there has been.
Used == (replaced \cup {source}) \ {"black"}

---------------------------------------------------------------------------
(* main.                                                                   *)

\* "frames" stands for the placeholder; with it go the frames still retained.
StartOrder == <<"vk", "comp", "frames", "cuda", "senders", "inputs", "srt", "audio", "render",
                "servers">>

\* Faulty variant: the mixer goes before the inputs that write into its lanes.
MixerFirst == <<"servers", "render", "audio", "inputs", "srt", "senders", "frames", "comp", "vk",
                "cuda">>

StopOrder == <<"servers", "render", "inputs", "audio", "srt", "senders", "frames", "comp", "vk",
               "cuda">>

\* The threads a member starts, and joins when it is destroyed.
ThreadsOf(m) ==
  CASE m = "senders" -> {"sender"}
    [] m = "inputs" -> {source} \ {"black"}
    [] m = "audio" -> {"mixer"}
    [] m \in {"srt", "render", "servers"} -> {m}
    [] OTHER -> {}

MayFail == {"vk", "frames", "cuda"}
Optional == {"senders", "srt", "audio"}
LifeAssumption ==
  /\ FramesInFlight \in Nat \ {0} /\ \A o \in Without : o \subseteq Optional
  /\ Sources \cap {"black", "servers", "render", "mixer", "sender", "srt"} = {}

Onward(order, next) ==
  IF at < Len(order) THEN at' = at + 1 /\ phase' = phase ELSE at' = 1 /\ phase' = next

Build ==
  /\ phase = "start" /\ StartOrder[at] \notin off \cup {"inputs"}
  /\ built' = built \cup {StartOrder[at]}
  /\ running' = running \cup ThreadsOf(StartOrder[at])
  /\ wired' = IF StartOrder[at] = "audio" THEN {source} \ {"black"} ELSE wired
  /\ Onward(StartOrder, "run")
  /\ UNCHANGED <<off, asked, work, source, replaced, destroyed, kept>>

BuildInputs ==
  /\ phase = "start" /\ StartOrder[at] = "inputs"
  /\ source' \in Sources \cup {"black"}
  /\ running' = (running \cup {source'}) \ {"black"}
  /\ built' = built \cup {"inputs"}
  /\ Onward(StartOrder, "run")
  /\ UNCHANGED <<off, asked, work, replaced, destroyed, wired, kept>>

BuildWithout ==
  /\ phase = "start" /\ StartOrder[at] \in off
  /\ Onward(StartOrder, "run")
  /\ UNCHANGED <<built, off, threads, inputs, kept>>

\* No thread runs yet; the members go with the engine.
StartFails ==
  /\ phase = "start" /\ StartOrder[at] \in MayFail
  /\ phase' = "over" /\ at' = 1 /\ built' = {}
  /\ UNCHANGED <<off, threads, inputs, kept>>

Quit ==
  /\ phase = "run" /\ phase' = "stop"
  /\ UNCHANGED <<at, built, off, threads, inputs, kept>>

StopAsks ==
  /\ phase = "stop" /\ (ThreadsOf(StopOrder[at]) \cap running) \ asked # {}
  /\ asked' = asked \cup ThreadsOf(StopOrder[at])
  /\ UNCHANGED <<members, running, work, inputs, kept>>

StopDone ==
  /\ phase = "stop" /\ ThreadsOf(StopOrder[at]) \cap running = {}
  /\ built' = built \ {StopOrder[at]}
  /\ destroyed' = IF StopOrder[at] = "inputs" THEN (destroyed \cup {source}) \ {"black"}
                  ELSE destroyed
  /\ kept' = IF StopOrder[at] = "frames" THEN << >> ELSE kept
  /\ Onward(StopOrder, "over")
  /\ UNCHANGED <<off, threads, source, replaced, wired>>

---------------------------------------------------------------------------
(* Every thread waits, works and looks for a stop: one that is asked while *)
(* it waits may still have work to do.                                     *)
Go(t, from, to) == t \in running /\ work[t] = from /\ work' = [work EXCEPT ![t] = to]

Turn(t) == running' = IF t \in asked THEN running \ {t} ELSE running

Leaves(t) ==
  /\ Go(t, "idle", "idle") /\ t \in asked /\ Turn(t)
  /\ UNCHANGED <<members, asked, inputs, kept>>

Works(t) ==
  /\ Go(t, "idle", "busy")
  /\ UNCHANGED <<members, running, asked, inputs, kept>>

\* Samples of a source that has no sink are dropped.
Samples(s) ==
  /\ s \in wired /\ Go(s, "idle", "sound")
  /\ UNCHANGED <<members, running, asked, inputs, kept>>

Finishes(t) ==
  /\ t # "render" /\ (Go(t, "busy", "idle") \/ Go(t, "sound", "idle")) /\ Turn(t)
  /\ UNCHANGED <<members, asked, inputs, kept>>

\* A tick retains the frame it composites, and lets go of those of the tick it
\* takes the place of.
Tick ==
  /\ Go("render", "busy", "idle") /\ Turn("render")
  /\ \E s \in {source, "black"} :
       kept' = IF Len(kept) < FramesInFlight THEN Append(kept, s) ELSE Append(Tail(kept), s)
  /\ UNCHANGED <<members, asked, inputs>>

\* Between two ticks: the new source starts and is given the lane of the old one.
Replace(new) ==
  /\ work["render"] = "busy" /\ new \notin Used
  /\ source' = new /\ replaced' = (replaced \cup {source}) \ {"black"}
  /\ running' = (running \cup {new}) \ {"black"}
  /\ wired' = IF "audio" \in built THEN (wired \cup {new}) \ {"black"} ELSE wired
  /\ UNCHANGED <<members, asked, work, destroyed, kept>>

\* The detached thread: it destroys the old source.
ReapAsks(s) ==
  /\ s \in replaced \ asked /\ asked' = asked \cup {s}
  /\ UNCHANGED <<members, running, work, inputs, kept>>

ReapDone(s) ==
  /\ s \in replaced \ (running \cup destroyed) /\ destroyed' = destroyed \cup {s}
  /\ UNCHANGED <<members, threads, source, replaced, wired, kept>>

Main == Build \/ BuildInputs \/ BuildWithout \/ StopAsks \/ StopDone

Ends(t) == Leaves(t) \/ Finishes(t) \/ (t = "render" /\ Tick)

\* main returned: the process is gone, and the detached threads with it.
Over == phase = "over" /\ UNCHANGED lifeVars

Next ==
  \/ Over
  \/ /\ phase # "over"
     /\ \/ Main \/ StartFails \/ Quit
        \/ \E t \in Threads : Works(t) \/ Ends(t)
        \/ \E s \in Sources : Samples(s) \/ ReapAsks(s) \/ ReapDone(s)
        \/ \E s \in Sources \cup {"black"} : Replace(s)

Spec == Init /\ [][Next]_lifeVars

\* main goes on, and a thread that was asked to stop ends its turn: waits are
\* bounded by timeouts or woken up by the stop.
Fairness == WF_lifeVars(Main \/ \E t \in asked : Ends(t))

FairSpec == Spec /\ Fairness

---------------------------------------------------------------------------
(* Properties.                                                             *)
TypeOK ==
  /\ phase \in {"start", "run", "stop", "over"} /\ at \in 1 .. Len(StartOrder)
  /\ built \cup off \subseteq ToSet(StartOrder)
  /\ running \subseteq Threads /\ asked \subseteq Threads
  /\ work \in [Threads -> {"idle", "busy", "sound"}]
  /\ source \in Sources \cup {"black"}
  /\ destroyed \subseteq Sources /\ wired \subseteq Sources
  /\ kept \in Seq(Sources \cup {"black"}) /\ Len(kept) <= FramesInFlight

\* What a thread works with; a member that is off is tested for and left alone.
Uses(t) ==
  CASE t = "servers" -> {"inputs", "senders", "audio"}
    [] t = "render" -> {"vk", "comp", "frames", "inputs", "audio", "srt"}
    [] t = "mixer" -> {"audio", "senders", "srt"}
    [] t = "sender" -> {"vk", "comp"}
    [] t = "srt" -> {"vk", "comp", "cuda"}
    [] work[t] = "sound" -> {"audio"}
    [] OTHER -> {"vk", "cuda"}

\* A thread at work finds its members, except for those of a source that was
\* replaced, which nobody waits for; and the device outlives every frame retained
\* and every source that is to be joined (Engine::stop).
MembersOutliveUsers ==
  /\ \A t \in running \ replaced :
       work[t] \in {"busy", "sound"} => Uses(t) \ off \subseteq built
  /\ (ToSet(kept) \cup {source}) \ (destroyed \cup {"black"}) # {} => "vk" \in built

\* The senders come before the receivers and go after them (Engine::start).
SendersOutside ==
  [][("senders" \in built) # ("senders" \in built') => source \notin running]_lifeVars

\* The switcher can always be stopped.
StopEnds == phase = "stop" ~> phase = "over"
=============================================================================
