------------------------------ MODULE EngineLoop ------------------------------
(***************************************************************************)
(* The render thread's loop around SwitcherCore: it drains the command     *)
(* ring, swaps inputs, ticks the core, publishes the mirror the control    *)
(* surfaces read (uiState) and tells every input its tally.  The control   *)
(* surfaces (web console, TCP server) turn a request into a command,       *)
(* reading the mirror where the request is relative, and post it.          *)
(*                                                                         *)
(* A command carries the fields of Command: type, arg, arg2 (farg stands   *)
(* in arg for TbarSet).  What sits between a request and its command in a  *)
(* client is the gap between Engine::uiState and Engine::post, each under  *)
(* its own mutex.  Requests for media, audio and recording touch neither   *)
(* the core nor the tally and are left out.                                *)
(***************************************************************************)
EXTENDS Naturals, Sequences

CONSTANTS
    Sources, Keyers, Full, Durations, FtbDuration, MaxElapsed,  \* of SwitcherCore
    Clients,      \* threads that apply requests
    Requests,     \* the requests they make, records [op, a, b]
    Capacity,     \* of the command ring
    MaxRequests   \* bound: requests and input swaps

ASSUME CapacityAssumption == Capacity \in Nat \ {0}
ASSUME MaxRequestsAssumption == MaxRequests \in Nat
ASSUME LevelsAssumption ==
    /\ Full \in Nat \ {0} /\ MaxElapsed \in Nat
    /\ Durations \subseteq Nat \ {0} /\ FtbDuration \in Nat \ {0}
    /\ \A d \in Durations \cup {FtbDuration} : Full % d = 0

\* A request names an input, a keyer, a level or a duration that exists: the
\* surfaces check the range before they post.
RequestOK(r) ==
    \/ r.op \in {"SetProgram", "SetPreview"} /\ r.a \in Sources /\ r.b = 0
    \/ r.op \in {"Cut", "Auto", "TbarBegin", "FadeToBlack"} /\ r.a = 0 /\ r.b = 0
    \/ r.op = "TbarSet" /\ r.a \in 0 .. Full /\ r.b = 0
    \/ r.op = "SetTransition" /\ r.a \in Durations \cup {0} /\ r.b = 0
    \/ r.op \in {"DskSet", "DskTie"} /\ r.a \in Keyers /\ r.b \in {"ON", "OFF", "TOGGLE"}
    \/ r.op = "SetDskSource" /\ r.a \in Keyers /\ r.b \in Sources
    \/ r.op = "SetDskFade" /\ r.a \in Keyers /\ r.b \in Durations

ASSUME RequestsAssumption == \A r \in Requests : RequestOK(r)

VARIABLES
    program, preview, transDur, autoActive, age, tbarActive, tbarPos,
    ftbLevel, ftbTarget, dsk, ticked, engagedAt,   \* switcher_
    dskSrc,           \* source of each keyer, kept by switcher_
    cmds,             \* the command ring
    posting,          \* a client's command on its way to post(), or << >>
    pendingReplace,   \* inputs to swap
    ui,               \* uiState
    lastTallyKey,     \* last tally sent, or << >>
    tally,            \* what each input was last told
    air,              \* the last composited frame: what shows, what is next
    requests          \* requests and swaps asked for so far

Core == INSTANCE SwitcherCore

coreVars == <<program, preview, transDur, autoActive, age, tbarActive, tbarPos,
              ftbLevel, ftbTarget, dsk, ticked, engagedAt>>
surfaceVars == <<posting, requests>>
tallyVars == <<lastTallyKey, tally, air>>
vars == <<coreVars, dskSrc, cmds, surfaceVars, pendingReplace, ui, tallyVars>>

Dark == [pgm |-> FALSE, pvw |-> FALSE]
Mirror == [dskOn |-> [k \in Keyers |-> dsk[k].target = Full],
           dskTie |-> [k \in Keyers |-> dsk[k].tie],
           transDur |-> transDur]

Init ==
    /\ Core!Init
    /\ dskSrc \in [Keyers -> Sources]
    /\ cmds = << >>
    /\ posting = [c \in Clients |-> << >>]
    /\ pendingReplace = {}
    /\ ui = Mirror
    /\ lastTallyKey = << >>
    /\ tally = [i \in Sources |-> Dark]
    /\ air = [shown |-> {}, next |-> {}]
    /\ requests = 0

------------------------------------------------------------------------------
(* Control surfaces: ctl::apply *)

Command(type, arg, arg2) == <<[type |-> type, arg |-> arg, arg2 |-> arg2]>>

\* ON and OFF compare with the mirror, TOGGLE does not.
DskSet(k, how) ==
    IF how = "TOGGLE" \/ (how = "ON") # ui.dskOn[k] THEN Command("DskToggle", k, 0)
    ELSE << >>

\* TOGGLE inverts the mirror.
DskTie(k, how) ==
    Command("SetDskTie", k, IF how = "TOGGLE" THEN ~ui.dskTie[k] ELSE how = "ON")

\* A duration of 0 keeps the mirrored one.
SetTransition(d) == Command("SetTransition", IF d > 0 THEN d ELSE ui.transDur, 0)

CommandFor(r) ==
    CASE r.op = "DskSet" -> DskSet(r.a, r.b)
      [] r.op = "DskTie" -> DskTie(r.a, r.b)
      [] r.op = "SetTransition" -> SetTransition(r.a)
      [] OTHER -> Command(r.op, r.a, r.b)

\* A request is turned into a command on the mirror of the moment ...
Ask(c, r) ==
    /\ posting[c] = << >>
    /\ requests < MaxRequests
    /\ requests' = requests + 1
    /\ posting' = [posting EXCEPT ![c] = CommandFor(r)]
    /\ UNCHANGED <<coreVars, dskSrc, cmds, pendingReplace, ui, tallyVars>>

\* Faulty variant: a full ring takes one more.
PostAlways(c) ==
    /\ posting[c] # << >>
    /\ cmds' = cmds \o posting[c]
    /\ posting' = [posting EXCEPT ![c] = << >>]
    /\ UNCHANGED <<coreVars, dskSrc, pendingReplace, ui, tallyVars, requests>>

\* ... and posted later; a full ring drops it.
Post(c) ==
    /\ posting[c] # << >>
    /\ cmds' = IF Len(cmds) < Capacity THEN cmds \o posting[c] ELSE cmds
    /\ posting' = [posting EXCEPT ![c] = << >>]
    /\ UNCHANGED <<coreVars, dskSrc, pendingReplace, ui, tallyVars, requests>>

\* requestInputReplace
RequestReplace(i) ==
    /\ requests < MaxRequests
    /\ requests' = requests + 1
    /\ pendingReplace' = pendingReplace \cup {i}
    /\ UNCHANGED <<coreVars, dskSrc, cmds, posting, ui, tallyVars>>

------------------------------------------------------------------------------
(* Render thread *)

\* The early returns of SwitcherCore's methods.
Refused(c) ==
    \/ c.type \in {"Auto", "TbarBegin"} /\ Core!Active
    \/ c.type = "TbarSet" /\ ~tbarActive

CorePerform(c) ==
    \/ c.type = "SetProgram" /\ Core!SetProgram(c.arg)
    \/ c.type = "SetPreview" /\ Core!SetPreview(c.arg)
    \/ c.type = "Cut" /\ Core!Cut
    \/ c.type = "Auto" /\ Core!AutoTransition
    \/ c.type = "TbarBegin" /\ Core!TbarBegin
    \/ c.type = "TbarSet" /\ Core!TbarSet(c.arg)
    \/ c.type = "FadeToBlack" /\ Core!FadeToBlack
    \/ c.type = "SetTransition" /\ Core!SetTransition(c.arg)
    \/ c.type = "DskToggle" /\ Core!DskToggle(c.arg)
    \/ c.type = "SetDskFade" /\ Core!SetDskDuration(c.arg, c.arg2)
    \/ c.type = "SetDskTie" /\ Core!SetDskTie(c.arg, c.arg2)

Perform(c) ==
    IF c.type = "SetDskSource"
      THEN dskSrc' = [dskSrc EXCEPT ![c.arg] = c.arg2] /\ UNCHANGED coreVars
      ELSE /\ CorePerform(c) \/ (Refused(c) /\ UNCHANGED coreVars)
           /\ UNCHANGED dskSrc

\* Pop one command and apply it.
Drain ==
    /\ cmds # << >>
    /\ Perform(Head(cmds))
    /\ cmds' = Tail(cmds)
    /\ UNCHANGED <<surfaceVars, pendingReplace, ui, tallyVars>>

\* What the tally is computed from: the buses, both hot in a transition, and
\* the sources of keyers that are on or still fading out.
Hot ==
    {program'} \cup (IF Core!Active' THEN {preview'} ELSE {})
        \cup {dskSrc[k] : k \in {j \in Keyers : dsk'[j].target = Full \/ dsk'[j].level > 0}}

TallyKey ==
    <<program', Core!Active', preview',
      [k \in Keyers |-> IF dsk'[k].target = Full \/ dsk'[k].level > 0 THEN {dskSrc[k]}
                        ELSE {}]>>

\* Faulty variant: the key is kept when inputs are swapped.
KeyAlways(swapped) == lastTallyKey

\* A swap forgets the key, so that the new input hears its tally.
KeyAfter(swapped) == IF swapped = {} THEN lastTallyKey ELSE << >>

\* Inputs are told only when the key changes; a new input starts dark.
SendTally(swapped) ==
    /\ lastTallyKey' = TallyKey
    /\ tally' = IF TallyKey # KeyAfter(swapped)
                  THEN [i \in Sources |-> [pgm |-> i \in Hot, pvw |-> i = preview']]
                  ELSE [i \in Sources |-> IF i \in swapped THEN Dark ELSE tally[i]]

\* Sources with a share of the composited frame, and the one on preview.
Composited(share) ==
    [shown |-> {program'} \cup (IF share > 0 THEN {preview'} ELSE {})
                 \cup {dskSrc[k] : k \in {j \in Keyers : dsk'[j].level > 0}},
     next |-> {preview'}]

\* The rest of an iteration, the ring found empty: swap inputs (refused: the
\* source needs an interop the machine lacks), tick, publish, tell the tally.
RenderTick(e, refused) ==
    /\ cmds = << >>
    /\ pendingReplace' = {}
    /\ Core!Tick(e)
    /\ SendTally(pendingReplace \ refused)
    /\ air' = Composited(IF Core!Active' THEN Core!Alpha(e) ELSE 0)
    /\ ui' = Mirror'
    /\ UNCHANGED <<dskSrc, cmds, surfaceVars>>

Next ==
    \/ \E c \in Clients : Post(c) \/ \E r \in Requests : Ask(c, r)
    \/ \E i \in Sources : RequestReplace(i)
    \/ Drain
    \/ \E e \in 1 .. MaxElapsed, refused \in SUBSET pendingReplace : RenderTick(e, refused)

Spec == Init /\ [][Next]_vars

------------------------------------------------------------------------------
(* Properties *)

TypeOK ==
    /\ Core!TypeOK
    /\ dskSrc \in [Keyers -> Sources]
    /\ Len(cmds) <= Capacity
    /\ \A c \in Clients : Len(posting[c]) <= 1
    /\ pendingReplace \subseteq Sources
    /\ DOMAIN ui = {"dskOn", "dskTie", "transDur"}
    /\ tally \in [Sources -> [pgm : BOOLEAN, pvw : BOOLEAN]]
    /\ air \in [shown : SUBSET Sources, next : SUBSET Sources]
    /\ requests \in 0 .. MaxRequests

\* Whatever shows in the composited frame has been told so, and exactly the
\* preview bus has been told it is next, through swaps, transitions, cuts and
\* keyer fades, although the tally is only sent when its key changes.
TalliesCoverAir ==
    /\ \A i \in air.shown : tally[i].pgm
    /\ {i \in Sources : tally[i].pvw} = air.next

\* "Reach the requested end state by toggling conditionally on the mirrored
\* target" (ControlApply): where nobody asks for anything but ON, a keyer that
\* is on stays on.
OnlyOn(k) == \A r \in Requests : r.op = "DskSet" /\ r.a = k => r.b = "ON"

DskOnLeavesItOn ==
    [][ \A k \in Keyers : OnlyOn(k) => ~(dsk[k].target = Full /\ dsk'[k].target = 0) ]_vars

==============================================================================
