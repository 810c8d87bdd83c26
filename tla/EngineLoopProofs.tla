--------------------------- MODULE EngineLoopProofs ---------------------------
(***************************************************************************)
(* For any number of inputs, keyers and clients and a ring of any size:    *)
(* the render loop hands SwitcherCore only what its methods expect, and    *)
(* what is on air has been told so.  The core's own invariant comes from   *)
(* SwitcherCoreProofs; what the loop adds to it is the type of a command   *)
(* on its way and what the last tally key says of the inputs.              *)
(***************************************************************************)
EXTENDS EngineLoop, TLAPS

CoreP == INSTANCE SwitcherCoreProofs

USE LevelsAssumption

\* The commands a request can turn into.
Commands ==
    [type : {"SetProgram", "SetPreview"}, arg : Sources, arg2 : {0}]
    \cup [type : {"Cut", "Auto", "TbarBegin", "FadeToBlack"}, arg : {0}, arg2 : {0}]
    \cup [type : {"TbarSet"}, arg : 0 .. Full, arg2 : {0}]
    \cup [type : {"SetTransition"}, arg : Durations, arg2 : {0}]
    \cup [type : {"DskToggle"}, arg : Keyers, arg2 : {0}]
    \cup [type : {"SetDskTie"}, arg : Keyers, arg2 : BOOLEAN]
    \cup [type : {"SetDskSource"}, arg : Keyers, arg2 : Sources]
    \cup [type : {"SetDskFade"}, arg : Keyers, arg2 : Durations]

Mirrors == [dskOn : [Keyers -> BOOLEAN], dskTie : [Keyers -> BOOLEAN],
            transDur : Durations]

\* What travels between the threads.
Surfaces ==
    /\ dskSrc \in [Keyers -> Sources]
    /\ cmds \in Seq(Commands) /\ Len(cmds) <= Capacity
    /\ posting \in [Clients -> Seq(Commands)]
    /\ \A c \in Clients : Len(posting[c]) <= 1
    /\ pendingReplace \subseteq Sources
    /\ ui \in Mirrors
    /\ requests \in 0 .. MaxRequests

Keys == Sources \X BOOLEAN \X Sources \X [Keyers -> SUBSET Sources]

\* The inputs a tally key puts on air.
OnAir(key) == {key[1]} \cup (IF key[2] THEN {key[3]} ELSE {})
                  \cup UNION {key[4][k] : k \in Keyers}

Told(key) == [i \in Sources |-> [pgm |-> i \in OnAir(key), pvw |-> i = key[3]]]

\* Before the first tick nothing shows; after it every input knows what the
\* key of the last tick says, and the frame shows no more than that.
TallyInv ==
    \/ /\ lastTallyKey = << >>
       /\ tally = [i \in Sources |-> Dark]
       /\ air = [shown |-> {}, next |-> {}]
    \/ /\ lastTallyKey \in Keys
       /\ tally = Told(lastTallyKey)
       /\ air \in [shown : SUBSET OnAir(lastTallyKey), next : {{lastTallyKey[3]}}]

LoopInv == CoreP!IInv /\ Surfaces /\ TallyInv

------------------------------------------------------------------------------
(* The core, seen through either instance *)

\* The two instances of the core's invariant are one.
LEMMA SameInvariant == CoreP!IInv <=> Core!TypeOK /\ Core!OneTransition
BY DEF CoreP!IInv, Core!TypeOK, CoreP!TypeOK, Core!Levels, CoreP!Levels, Core!Dsk, CoreP!Dsk,
       Core!OneTransition, CoreP!OneTransition, Core!Active, CoreP!Active

\* A tick of the loop is a tick of the core.
LEMMA SameTick == ASSUME NEW e \in 1 .. MaxElapsed, Core!Tick(e) PROVE CoreP!Next
<1>1. CoreP!Tick(e)
  BY DEF Core!Tick, CoreP!Tick, Core!TickLands, CoreP!TickLands, Core!TickRuns, CoreP!TickRuns,
         Core!Ramps, CoreP!Ramps, Core!Ramp, CoreP!Ramp, Core!Elapsed, CoreP!Elapsed,
         Core!Ramped, CoreP!Ramped, Core!Complete, CoreP!Complete, Core!Landed, CoreP!Landed,
         Core!Active, CoreP!Active, Core!Ridden, CoreP!Ridden, Core!Alpha, CoreP!Alpha,
         Core!AgeAfter, CoreP!AgeAfter, Core!NoTransition, CoreP!NoTransition,
         Core!Toggled, CoreP!Toggled, Core!buses, CoreP!buses
<1> QED BY <1>1 DEF CoreP!Next, CoreP!Ticks

\* Every well-formed command the loop performs is a command of the core.
LEMMA SameCommand ==
    ASSUME NEW c \in Commands, CorePerform(c)
    PROVE  CoreP!Next
<1> USE DEF CoreP!Next, CoreP!Command, Commands,
         Core!Complete, CoreP!Complete, Core!Landed, CoreP!Landed, Core!Active, CoreP!Active,
         Core!NoTransition, CoreP!NoTransition, Core!Toggled, CoreP!Toggled,
         Core!buses, CoreP!buses, Core!ftb, CoreP!ftb, Core!transition, CoreP!transition,
         Core!Cancel, CoreP!Cancel, Core!SentBack, CoreP!SentBack,
         Core!Arm, CoreP!Arm, Core!Armed, CoreP!Armed, Core!ChangeDsk, CoreP!ChangeDsk
<1>1. CASE c.type = "SetProgram" /\ Core!SetProgram(c.arg)
  BY <1>1 DEF Core!SetProgram, CoreP!SetProgram
<1>2. CASE c.type = "SetPreview" /\ Core!SetPreview(c.arg)
  BY <1>2 DEF Core!SetPreview, CoreP!SetPreview
<1>3. CASE c.type = "Cut" /\ Core!Cut
  BY <1>3 DEF Core!Cut, CoreP!Cut
<1>4. CASE c.type = "Auto" /\ Core!AutoTransition
  BY <1>4 DEF Core!AutoTransition, CoreP!AutoTransition
<1>5. CASE c.type = "TbarBegin" /\ Core!TbarBegin
  BY <1>5 DEF Core!TbarBegin, CoreP!TbarBegin
<1>6. CASE c.type = "TbarSet" /\ Core!TbarSet(c.arg)
  BY <1>6 DEF Core!TbarSet, CoreP!TbarSet, CoreP!Levels
<1>7. CASE c.type = "FadeToBlack" /\ Core!FadeToBlack
  BY <1>7 DEF Core!FadeToBlack, CoreP!FadeToBlack
<1>8. CASE c.type = "SetTransition" /\ Core!SetTransition(c.arg)
  BY <1>8 DEF Core!SetTransition, CoreP!SetTransition
<1>9. CASE c.type = "DskToggle" /\ Core!DskToggle(c.arg)
  BY <1>9 DEF Core!DskToggle, CoreP!DskToggle
<1>10. CASE c.type = "SetDskFade" /\ Core!SetDskDuration(c.arg, c.arg2)
  BY <1>10 DEF Core!SetDskDuration, CoreP!SetDskDuration
<1>11. CASE c.type = "SetDskTie" /\ Core!SetDskTie(c.arg, c.arg2)
  BY <1>11 DEF Core!SetDskTie, CoreP!SetDskTie
<1> QED BY <1>1, <1>2, <1>3, <1>4, <1>5, <1>6, <1>7, <1>8, <1>9, <1>10, <1>11
      DEF CorePerform

\* The core's invariant outlives every step of the core, and every step of the
\* loop that leaves the core alone.
LEMMA CoreKeeps ==
    ASSUME CoreP!IInv, CoreP!Next \/ UNCHANGED coreVars
    PROVE  CoreP!IInv'
<1>1. [CoreP!Next]_(CoreP!coreVars)
  BY DEF coreVars, CoreP!coreVars, CoreP!buses, CoreP!transition, CoreP!ftb
<1> QED BY <1>1, CoreP!InvStep

------------------------------------------------------------------------------
(* Requests and commands *)

\* A request turns into at most one command, and a well-formed one, whatever
\* the mirror shows.
LEMMA CommandForRequest ==
    ASSUME Surfaces, NEW r \in Requests
    PROVE  CommandFor(r) \in Seq(Commands) /\ Len(CommandFor(r)) <= 1
<1>1. \A x \in Commands : <<x>> \in Seq(Commands) /\ Len(<<x>>) = 1
  OBVIOUS
<1>2. << >> \in Seq(Commands) /\ Len(<< >>) = 0
  OBVIOUS
<1>3. RequestOK(r)
  BY RequestsAssumption
<1>4. ui.transDur \in Durations /\ \A k \in Keyers : ui.dskTie[k] \in BOOLEAN
  BY DEF Surfaces, Mirrors
<1>5. CASE r.op = "DskSet"
  <2>1. CommandFor(r) = DskSet(r.a, r.b) /\ r.a \in Keyers
    BY <1>3, <1>5 DEF CommandFor, RequestOK
  <2>2. [type |-> "DskToggle", arg |-> r.a, arg2 |-> 0] \in Commands
    BY <2>1 DEF Commands
  <2> QED BY <1>1, <1>2, <2>1, <2>2 DEF DskSet, Command
<1>6. CASE r.op = "DskTie"
  <2> DEFINE b == IF r.b = "TOGGLE" THEN ~ui.dskTie[r.a] ELSE r.b = "ON"
  <2>1. CommandFor(r) = DskTie(r.a, r.b) /\ r.a \in Keyers
    BY <1>3, <1>6 DEF CommandFor, RequestOK
  <2>2. b \in BOOLEAN
    BY <1>4, <2>1
  <2> HIDE DEF b
  <2>3. [type |-> "SetDskTie", arg |-> r.a, arg2 |-> b] \in Commands
    BY <2>1, <2>2 DEF Commands
  <2>4. CommandFor(r) = <<[type |-> "SetDskTie", arg |-> r.a, arg2 |-> b]>>
    BY <2>1 DEF DskTie, Command, b
  <2> QED BY <1>1, <2>3, <2>4
<1>7. CASE r.op = "SetTransition"
  <2> DEFINE d == IF r.a > 0 THEN r.a ELSE ui.transDur
  <2>1. CommandFor(r) = SetTransition(r.a) /\ r.a \in Durations \cup {0}
    BY <1>3, <1>7 DEF CommandFor, RequestOK
  <2>2. d \in Durations
    BY <1>4, <2>1
  <2> HIDE DEF d
  <2>3. [type |-> "SetTransition", arg |-> d, arg2 |-> 0] \in Commands
    BY <2>2 DEF Commands
  <2>4. CommandFor(r) = <<[type |-> "SetTransition", arg |-> d, arg2 |-> 0]>>
    BY <2>1 DEF SetTransition, Command, d
  <2> QED BY <1>1, <2>3, <2>4
<1>8. CASE r.op \notin {"DskSet", "DskTie", "SetTransition"}
  <2>1. CommandFor(r) = <<[type |-> r.op, arg |-> r.a, arg2 |-> r.b]>>
    BY <1>8 DEF CommandFor, Command
  <2>2. [type |-> r.op, arg |-> r.a, arg2 |-> r.b] \in Commands
    BY <1>3, <1>8 DEF RequestOK, Commands
  <2> QED BY <1>1, <2>1, <2>2
<1> QED BY <1>5, <1>6, <1>7, <1>8

MirrorOK == Mirror \in Mirrors

\* The mirror a tick publishes is well-formed.
LEMMA MirrorType == CoreP!IInv => MirrorOK
<1> SUFFICES ASSUME CoreP!IInv PROVE MirrorOK
  OBVIOUS
<1>1. transDur \in Durations /\ dsk \in [Keyers -> Core!Dsk]
  BY SameInvariant DEF Core!TypeOK
<1>2. \A k \in Keyers : dsk[k].tie \in BOOLEAN
  BY <1>1 DEF Core!Dsk
<1>3. [k \in Keyers |-> dsk[k].tie] \in [Keyers -> BOOLEAN]
  BY <1>2
<1>4. [k \in Keyers |-> dsk[k].target = Full] \in [Keyers -> BOOLEAN]
  OBVIOUS
<1> QED BY <1>1, <1>3, <1>4 DEF Mirror, Mirrors, MirrorOK

\* The same of the mirror of the next state.
LEMMA MirrorTypeNext == CoreP!IInv' => MirrorOK'
BY MirrorType, PTL

------------------------------------------------------------------------------
(* The invariant *)

\* The core, the ring and the tally start well-formed.
LEMMA LoopInit == Init => LoopInv
<1> SUFFICES ASSUME Init PROVE LoopInv
  OBVIOUS
<1>1. CoreP!IInv
  <2>1. PICK d \in Durations :
          dsk = [k \in Keyers |-> [level |-> 0, target |-> 0, dur |-> d,
                                   tie |-> FALSE, tieRun |-> FALSE, tieFrom |-> 0]]
    BY DEF Init, Core!Init
  <2>2. dsk \in [Keyers -> Core!Dsk] /\ \A k \in Keyers : ~dsk[k].tieRun
    BY <2>1 DEF Core!Dsk, Core!Levels
  <2>3. Core!TypeOK
    <3>1. 0 \in Core!Levels /\ [k \in Keyers |-> 0] \in [Keyers -> {0, Full}]
      BY DEF Core!Levels
    <3> QED BY <2>2, <3>1 DEF Init, Core!Init, Core!TypeOK
  <2>4. Core!OneTransition
    BY <2>2 DEF Init, Core!Init, Core!OneTransition
  <2> QED BY <2>3, <2>4, SameInvariant
<1>2. Surfaces
  <2>1. << >> \in Seq(Commands) /\ Len(<< >>) = 0
    OBVIOUS
  <2>2. ui = Mirror
    BY DEF Init
  <2>3. ui \in Mirrors
    BY <1>1, <2>2, MirrorType DEF MirrorOK
  <2> QED BY <2>1, <2>3, CapacityAssumption, MaxRequestsAssumption
        DEF Init, Surfaces
<1>3. TallyInv
  BY DEF Init, TallyInv
<1> QED BY <1>1, <1>2, <1>3 DEF LoopInv

\* Asking and posting keep the ring within its capacity and typed.
LEMMA SurfaceSteps ==
    ASSUME LoopInv,
           \/ \E c \in Clients : Post(c) \/ \E r \in Requests : Ask(c, r)
           \/ \E i \in Sources : RequestReplace(i)
    PROVE  LoopInv'
<1>1. Surfaces
  BY DEF LoopInv
<1>2. UNCHANGED coreVars /\ UNCHANGED tallyVars /\ UNCHANGED dskSrc /\ UNCHANGED ui
  BY DEF Post, Ask, RequestReplace
<1>3. CoreP!IInv' /\ TallyInv'
  <2>1. CoreP!IInv'
    BY <1>2, CoreKeeps DEF LoopInv
  <2>2. TallyInv'
    BY <1>2 DEF LoopInv, TallyInv, tallyVars
  <2> QED BY <2>1, <2>2
<1>4. ASSUME NEW c \in Clients, Post(c)
      PROVE  Surfaces'
  <2>1. cmds \o posting[c] \in Seq(Commands)
        /\ Len(cmds \o posting[c]) = Len(cmds) + Len(posting[c])
        /\ Len(cmds) \in Nat /\ Len(posting[c]) \in Nat
    BY <1>1 DEF Surfaces
  <2>2. cmds' \in Seq(Commands) /\ Len(cmds') <= Capacity
    BY <1>1, <1>4, <2>1, CapacityAssumption DEF Surfaces, Post
  <2>3. << >> \in Seq(Commands) /\ Len(<< >>) = 0
    OBVIOUS
  <2>4. posting' \in [Clients -> Seq(Commands)] /\ \A j \in Clients : Len(posting'[j]) <= 1
    BY <1>1, <1>4, <2>3 DEF Surfaces, Post
  <2> QED BY <1>1, <1>2, <1>4, <2>2, <2>4 DEF Surfaces, Post
<1>5. ASSUME NEW c \in Clients, NEW r \in Requests, Ask(c, r)
      PROVE  Surfaces'
  <2>1. CommandFor(r) \in Seq(Commands) /\ Len(CommandFor(r)) <= 1
    BY <1>1, CommandForRequest
  <2>2. posting' \in [Clients -> Seq(Commands)] /\ \A j \in Clients : Len(posting'[j]) <= 1
    BY <1>1, <1>5, <2>1 DEF Surfaces, Ask
  <2>3. requests' \in 0 .. MaxRequests
    BY <1>1, <1>5, MaxRequestsAssumption DEF Surfaces, Ask
  <2> QED BY <1>1, <1>2, <1>5, <2>2, <2>3 DEF Surfaces, Ask
<1>6. ASSUME NEW i \in Sources, RequestReplace(i)
      PROVE  Surfaces'
  <2>1. requests' \in 0 .. MaxRequests
    BY <1>1, <1>6, MaxRequestsAssumption DEF Surfaces, RequestReplace
  <2> QED BY <1>1, <1>2, <1>6, <2>1 DEF Surfaces, RequestReplace
<1> QED BY <1>3, <1>4, <1>5, <1>6 DEF LoopInv

\* Performing the next command of the ring is a step of the core or a new
\* source for a keyer.
LEMMA DrainStep ==
    ASSUME LoopInv, Drain
    PROVE  LoopInv'
<1> DEFINE c == Head(cmds)
<1>1. Surfaces
  BY DEF LoopInv
<1>2. /\ c \in Commands /\ Tail(cmds) \in Seq(Commands)
      /\ Len(Tail(cmds)) <= Capacity
  <2>1. cmds \in Seq(Commands) /\ cmds # << >> /\ Len(cmds) <= Capacity
    BY <1>1 DEF Drain, Surfaces
  <2>2. c \in Commands /\ Tail(cmds) \in Seq(Commands) /\ Len(Tail(cmds)) = Len(cmds) - 1
        /\ Len(cmds) \in Nat
    BY <2>1
  <2> QED BY <2>1, <2>2, CapacityAssumption
<1> HIDE DEF c
<1>3. Perform(c)
  BY DEF Drain, c
<1>4. CoreP!Next \/ UNCHANGED coreVars
  BY <1>2, <1>3, SameCommand DEF Perform
<1>5. CoreP!IInv'
  BY <1>4, CoreKeeps DEF LoopInv
<1>6. dskSrc' \in [Keyers -> Sources]
  <2>1. c.type = "SetDskSource" => c.arg \in Keyers /\ c.arg2 \in Sources
    BY <1>2 DEF Commands
  <2> QED BY <1>1, <1>3, <2>1 DEF Perform, Surfaces
<1>7. Surfaces'
  BY <1>1, <1>2, <1>6 DEF Drain, Surfaces, surfaceVars
<1>8. TallyInv'
  BY DEF LoopInv, TallyInv, Drain, tallyVars
<1> QED BY <1>5, <1>7, <1>8 DEF LoopInv

\* A tick tells the inputs whenever what is on air may differ from what they
\* know: the key has changed, or an input is new and the key was forgotten.
LEMMA TickStep ==
    ASSUME LoopInv, NEW e \in 1 .. MaxElapsed, NEW refused \in SUBSET pendingReplace,
           RenderTick(e, refused)
    PROVE  LoopInv'
<1>1. CoreP!IInv'
  BY SameTick, CoreKeeps DEF LoopInv, RenderTick
<1>2. Surfaces'
  <2>1. Mirror' \in Mirrors
    BY <1>1, MirrorTypeNext DEF MirrorOK
  <2> QED BY <2>1 DEF LoopInv, Surfaces, RenderTick, surfaceVars
<1>3. /\ program' \in Sources /\ preview' \in Sources /\ Core!Active' \in BOOLEAN
      /\ dskSrc \in [Keyers -> Sources]
  <2>1. Core!TypeOK'
    BY <1>1, SameInvariant, PTL
  <2> QED BY <2>1 DEF Core!TypeOK, Core!Active, LoopInv, Surfaces
<1> DEFINE key == TallyKey
<1>4. key \in Keys
  <2>1. [k \in Keyers |-> IF dsk'[k].target = Full \/ dsk'[k].level > 0 THEN {dskSrc[k]}
                          ELSE {}] \in [Keyers -> SUBSET Sources]
    BY <1>3
  <2> QED BY <1>3, <2>1 DEF TallyKey, Keys
<1>5. OnAir(key) = Hot /\ key[3] = preview' /\ key # << >>
  <2>1. /\ key[1] = program' /\ key[2] = Core!Active' /\ key[3] = preview'
        /\ key[4] = [k \in Keyers |-> IF dsk'[k].target = Full \/ dsk'[k].level > 0
                                      THEN {dskSrc[k]} ELSE {}]
    BY DEF TallyKey
  <2>2. UNION {key[4][k] : k \in Keyers}
          = {dskSrc[k] : k \in {j \in Keyers : dsk'[j].target = Full \/ dsk'[j].level > 0}}
    BY <2>1
  <2>3. OnAir(key) = Hot
    BY <2>1, <2>2 DEF OnAir, Hot
  <2>4. key # << >>
    BY DEF TallyKey
  <2> QED BY <2>1, <2>3, <2>4
<1> HIDE DEF key
<1>6. tally' = Told(key)
  <2> DEFINE swapped == pendingReplace \ refused
  <2>1. SendTally(swapped)
    BY DEF RenderTick
  <2>2. CASE key # KeyAfter(swapped)
    BY <1>5, <2>1, <2>2 DEF SendTally, key, Told
  <2>3. CASE key = KeyAfter(swapped)
    <3>1. swapped = {} /\ key = lastTallyKey
      BY <1>5, <2>3 DEF KeyAfter
    <3>2. tally' = [i \in Sources |-> tally[i]]
      BY <2>1, <2>3, <3>1 DEF SendTally, key
    <3>3. tally = Told(key)
      BY <1>5, <3>1 DEF LoopInv, TallyInv
    <3> QED BY <3>2, <3>3 DEF Told
  <2> QED BY <2>2, <2>3
<1>7. air' \in [shown : SUBSET OnAir(key), next : {{key[3]}}]
  <2> DEFINE share == IF Core!Active' THEN Core!Alpha(e) ELSE 0
  <2>1. air' = Composited(share)
    BY DEF RenderTick
  <2>2. share > 0 => Core!Active'
    BY <1>3
  <2> HIDE DEF share
  <2>3. {program'} \cup (IF share > 0 THEN {preview'} ELSE {})
          \cup {dskSrc[k] : k \in {j \in Keyers : dsk'[j].level > 0}} \subseteq Hot
    BY <2>2 DEF Hot
  <2> QED BY <1>5, <2>1, <2>3 DEF Composited
<1>8. TallyInv'
  <2>1. lastTallyKey' = key
    BY DEF RenderTick, SendTally, key
  <2> QED BY <1>4, <1>6, <1>7, <2>1 DEF TallyInv, Told, OnAir
<1> QED BY <1>1, <1>2, <1>8 DEF LoopInv

------------------------------------------------------------------------------
(* Theorems *)

\* No request, however stale the mirror it was made on and however late it is
\* posted, and no swap of an input takes the loop out of its invariant.
THEOREM LoopCorrect == Spec => []LoopInv
<1>1. LoopInv /\ [Next]_vars => LoopInv'
  <2> SUFFICES ASSUME LoopInv, [Next]_vars PROVE LoopInv'
    OBVIOUS
  <2>1. CASE \/ \E c \in Clients : Post(c) \/ \E r \in Requests : Ask(c, r)
             \/ \E i \in Sources : RequestReplace(i)
    BY <2>1, SurfaceSteps
  <2>2. CASE Drain
    BY <2>2, DrainStep
  <2>3. CASE \E e \in 1 .. MaxElapsed, refused \in SUBSET pendingReplace :
               RenderTick(e, refused)
    BY <2>3, TickStep
  <2>4. CASE UNCHANGED vars
    <3>1. CoreP!IInv'
      BY <2>4, CoreKeeps DEF LoopInv, vars
    <3>2. Surfaces' /\ TallyInv'
      BY <2>4 DEF LoopInv, Surfaces, TallyInv, vars, surfaceVars, tallyVars
    <3> QED BY <3>1, <3>2 DEF LoopInv
  <2> QED BY <2>1, <2>2, <2>3, <2>4 DEF Next
<1> QED BY <1>1, LoopInit, PTL DEF Spec

\* The core's levels stay in range under whatever the surfaces post, and the
\* ring never holds more than its capacity.
THEOREM LoopTypeCorrect == Spec => []TypeOK
<1>1. LoopInv => TypeOK
  <2> SUFFICES ASSUME LoopInv PROVE TypeOK
    OBVIOUS
  <2>1. tally \in [Sources -> [pgm : BOOLEAN, pvw : BOOLEAN]]
        /\ air \in [shown : SUBSET Sources, next : SUBSET Sources]
    <3>1. CASE lastTallyKey \in Keys /\ tally = Told(lastTallyKey)
               /\ air \in [shown : SUBSET OnAir(lastTallyKey), next : {{lastTallyKey[3]}}]
      <4>1. OnAir(lastTallyKey) \subseteq Sources /\ lastTallyKey[3] \in Sources
        BY <3>1 DEF Keys, OnAir
      <4> QED BY <3>1, <4>1 DEF Told
    <3>2. CASE /\ tally = [i \in Sources |-> Dark]
               /\ air = [shown |-> {}, next |-> {}]
      BY <3>2 DEF Dark
    <3> QED BY <3>1, <3>2 DEF LoopInv, TallyInv
  <2>2. Core!TypeOK
    BY SameInvariant DEF LoopInv
  <2>3. DOMAIN ui = {"dskOn", "dskTie", "transDur"}
    BY DEF LoopInv, Surfaces, Mirrors
  <2> QED BY <2>1, <2>2, <2>3 DEF LoopInv, Surfaces, TypeOK
<1> QED BY <1>1, LoopCorrect, PTL

\* Whatever shows in the composited frame has been told that it is on air, and
\* exactly the preview bus that it is next, although the tally is only sent
\* when its key changes and inputs are swapped in between.
THEOREM AirIsTold == Spec => []TalliesCoverAir
<1>1. LoopInv => TalliesCoverAir
  <2> SUFFICES ASSUME LoopInv PROVE TalliesCoverAir
    OBVIOUS
  <2>1. CASE lastTallyKey \in Keys /\ tally = Told(lastTallyKey)
             /\ air \in [shown : SUBSET OnAir(lastTallyKey), next : {{lastTallyKey[3]}}]
    <3>1. OnAir(lastTallyKey) \subseteq Sources /\ lastTallyKey[3] \in Sources
      BY <2>1 DEF Keys, OnAir
    <3>2. \A i \in Sources : /\ tally[i].pgm = (i \in OnAir(lastTallyKey))
                             /\ tally[i].pvw = (i = lastTallyKey[3])
      BY <2>1 DEF Told
    <3>3. \A i \in air.shown : i \in Sources /\ i \in OnAir(lastTallyKey)
      BY <2>1, <3>1
    <3>4. \A i \in air.shown : tally[i].pgm
      BY <3>2, <3>3
    <3>5. {i \in Sources : tally[i].pvw} = {lastTallyKey[3]}
      BY <3>1, <3>2
    <3>6. air.next = {lastTallyKey[3]}
      BY <2>1
    <3> QED BY <3>4, <3>5, <3>6 DEF TalliesCoverAir
  <2>2. CASE /\ tally = [i \in Sources |-> Dark]
             /\ air = [shown |-> {}, next |-> {}]
    BY <2>2 DEF TalliesCoverAir, Dark
  <2> QED BY <2>1, <2>2 DEF LoopInv, TallyInv
<1> QED BY <1>1, LoopCorrect, PTL

==============================================================================
