----------------------------- MODULE SwitcherCore -----------------------------
(***************************************************************************)
(* The program/preview buses, the transition that swaps them, fade to      *)
(* black and the downstream keyers: one action per method of SwitcherCore. *)
(*                                                                         *)
(* 1.0 is Full, and every duration divides it, so that ramps and the       *)
(* progress of a transition are exact; the level of a keyer that rides a   *)
(* transition is rounded down to a multiple of 1 / Full.  Only differences *)
(* of tick numbers matter: `age` is the number of ticks from autoStart_ to *)
(* lastTick_, both included.  What the core hands on unread (the type and  *)
(* softness of the transition, a keyer's source and audio-follow flag) and *)
(* tbarEnd, which does nothing, are left out.                              *)
(***************************************************************************)
EXTENDS Integers

CONSTANTS
    Sources,      \* input indices
    Keyers,       \* 0 .. kDskCount - 1
    Full,         \* the level 1.0
    Durations,    \* durations in ticks
    FtbDuration,  \* ftbDur_
    MaxElapsed    \* bound: ticks from one rendered tick to the next

ASSUME FullAssumption == Full \in Nat \ {0}
ASSUME DurationsAssumption ==
    /\ Durations \subseteq Nat \ {0} /\ FtbDuration \in Nat \ {0}
    /\ \A d \in Durations \cup {FtbDuration} : Full % d = 0
ASSUME ElapsedAssumption == MaxElapsed \in Nat

Levels == 0 .. Full

Dsk == [level : Levels, target : {0, Full}, dur : Durations,
        tie : BOOLEAN, tieRun : BOOLEAN, tieFrom : Levels]

VARIABLES
    program, preview,
    transDur, autoActive, age, tbarActive, tbarPos,
    ftbLevel, ftbTarget,
    dsk,
    ticked,     \* lastTick_ >= 0
    engagedAt   \* history: each keyer's target when it last joined a transition

buses == <<program, preview>>
transition == <<autoActive, age, tbarActive, tbarPos>>
ftb == <<ftbLevel, ftbTarget>>
coreVars == <<buses, transition, transDur, ftb, dsk, ticked, engagedAt>>

Active == autoActive \/ tbarActive
Toggled(target) == IF 2 * target > Full THEN 0 ELSE Full

Init ==
    /\ program \in Sources /\ preview \in Sources
    /\ transDur \in Durations
    /\ autoActive = FALSE /\ age = 0 /\ tbarActive = FALSE /\ tbarPos = 0
    /\ ftbLevel = 0 /\ ftbTarget = 0
    /\ \E d \in Durations :
          dsk = [k \in Keyers |-> [level |-> 0, target |-> 0, dur |-> d,
                                   tie |-> FALSE, tieRun |-> FALSE, tieFrom |-> 0]]
    /\ ticked = FALSE
    /\ engagedAt = [k \in Keyers |-> 0]

------------------------------------------------------------------------------
(* Starting, landing and abandoning a transition *)

NoTransition == autoActive' = FALSE /\ age' = 0 /\ tbarActive' = FALSE /\ tbarPos' = 0

\* armTiedKeyers
Armed(d) == IF d.tie THEN [d EXCEPT !.tieRun = TRUE, !.tieFrom = d.level,
                                    !.target = Toggled(d.target)]
            ELSE d

Arm ==
    /\ dsk' = [k \in Keyers |-> Armed(dsk[k])]
    /\ engagedAt' = [k \in Keyers |-> IF dsk[k].tie THEN dsk[k].target ELSE engagedAt[k]]

\* Faulty variant: a cut leaves the tied keyers alone.
LandedRiders(d) ==
    IF d.tieRun THEN [d EXCEPT !.level = d.target, !.tieRun = FALSE] ELSE d

\* completeTransition: riding keyers land with the buses; with no transition
\* running this is a cut, the next transition of the tied keyers.
Landed(d) ==
    IF d.tieRun THEN [d EXCEPT !.level = d.target, !.tieRun = FALSE]
    ELSE IF d.tie /\ ~Active
         THEN [d EXCEPT !.target = Toggled(d.target), !.level = Toggled(d.target)]
    ELSE d

Complete(d) ==
    /\ program' = preview /\ preview' = program
    /\ dsk' = [k \in Keyers |-> Landed(d[k])]
    /\ NoTransition

\* Faulty variant: keyers are not sent back.
KeepTarget(d) == [d EXCEPT !.tieRun = FALSE]

\* cancelTransition, for one keyer.
SentBack(d) == IF d.tieRun THEN [d EXCEPT !.tieRun = FALSE,
                                          !.target = IF 2 * d.tieFrom > Full THEN Full ELSE 0]
               ELSE d

Cancel ==
    /\ dsk' = [k \in Keyers |-> SentBack(dsk[k])]
    /\ NoTransition

------------------------------------------------------------------------------
(* The control surface *)

SetProgram(s) ==
    /\ program' = s
    /\ Cancel
    /\ UNCHANGED <<preview, transDur, ftb, ticked, engagedAt>>

SetPreview(s) ==
    /\ preview' = s
    /\ Cancel
    /\ UNCHANGED <<program, transDur, ftb, ticked, engagedAt>>

SetTransition(d) ==
    /\ transDur' = d
    /\ UNCHANGED <<buses, transition, ftb, dsk, ticked, engagedAt>>

Cut ==
    /\ Complete(dsk)
    /\ UNCHANGED <<transDur, ftb, ticked, engagedAt>>

AutoTransition ==
    /\ ~Active
    /\ autoActive' = TRUE /\ age' = 0
    /\ Arm
    /\ UNCHANGED <<buses, transDur, tbarActive, tbarPos, ftb, ticked>>

TbarBegin ==
    /\ ~Active
    /\ tbarActive' = TRUE
    /\ Arm
    /\ UNCHANGED <<buses, transDur, autoActive, age, tbarPos, ftb, ticked>>

\* Full travel lands the transition.
TbarSet(p) ==
    /\ tbarActive
    /\ IF p < Full
         THEN /\ tbarPos' = p
              /\ UNCHANGED <<buses, autoActive, age, tbarActive, dsk>>
         ELSE Complete(dsk)
    /\ UNCHANGED <<transDur, ftb, ticked, engagedAt>>

FadeToBlack ==
    /\ ftbTarget' = Toggled(ftbTarget)
    /\ UNCHANGED <<buses, transition, transDur, ftbLevel, dsk, ticked, engagedAt>>

ChangeDsk(d) ==
    /\ dsk' = d
    /\ UNCHANGED <<buses, transition, transDur, ftb, ticked, engagedAt>>

DskToggle(k) == ChangeDsk([dsk EXCEPT ![k].target = Toggled(@)])
SetDskDuration(k, d) == ChangeDsk([dsk EXCEPT ![k].dur = d])

\* Faulty variant: an untied keyer goes on riding.
SetDskTieOnly(k, b) == ChangeDsk([dsk EXCEPT ![k].tie = b])

\* Untying a keyer in a transition leaves it to its own ramp.
SetDskTie(k, b) ==
    ChangeDsk([dsk EXCEPT ![k].tie = b, ![k].tieRun = @ /\ b])

------------------------------------------------------------------------------
(* A rendered tick, e ticks after the one before *)

Ramp(level, target, e, dur) ==
    LET step == e * (Full \div dur)
    IN  IF level < target THEN (IF level + step < target THEN level + step ELSE target)
        ELSE (IF level - step > target THEN level - step ELSE target)

Elapsed(e) == IF ticked THEN e ELSE 0

Ramped(d, e) == IF d.tieRun THEN d
                ELSE [d EXCEPT !.level = Ramp(d.level, d.target, Elapsed(e), d.dur)]

Ridden(d, a) == IF Active /\ d.tieRun
                THEN [d EXCEPT !.level = d.tieFrom + ((d.target - d.tieFrom) * a) \div Full]
                ELSE d

\* Faulty variant: each tick moves the start of the transition.
AgeOfTick(e) == 1

\* autoTransition was called in the iteration of the tick itself, so the first
\* tick of a transition has age 1 however many were skipped before it.
AgeAfter(e) == IF age = 0 THEN 1 ELSE age + e

Ramps(e) ==
    /\ ftbLevel' = Ramp(ftbLevel, ftbTarget, Elapsed(e), FtbDuration)
    /\ ticked' = TRUE
    /\ UNCHANGED <<ftbTarget, transDur, engagedAt>>

\* The share of preview in the mix.
Alpha(e) == IF autoActive THEN AgeAfter(e) * (Full \div transDur) ELSE tbarPos

\* The frame of this tick shows the landed state.
TickLands(e) ==
    /\ autoActive /\ AgeAfter(e) >= transDur
    /\ Ramps(e)
    /\ Complete([k \in Keyers |-> Ramped(dsk[k], e)])

TickRuns(e) ==
    /\ ~(autoActive /\ AgeAfter(e) >= transDur)
    /\ Ramps(e)
    /\ age' = IF autoActive THEN AgeAfter(e) ELSE 0
    /\ dsk' = [k \in Keyers |-> Ridden(Ramped(dsk[k], e), Alpha(e))]
    /\ UNCHANGED <<buses, autoActive, tbarActive, tbarPos>>

Tick(e) == TickLands(e) \/ TickRuns(e)

Command ==
    \/ \E s \in Sources : SetProgram(s) \/ SetPreview(s)
    \/ \E d \in Durations : SetTransition(d)
    \/ Cut \/ AutoTransition \/ TbarBegin \/ FadeToBlack
    \/ \E p \in Levels : TbarSet(p)
    \/ \E k \in Keyers :
          \/ DskToggle(k)
          \/ \E d \in Durations : SetDskDuration(k, d)
          \/ \E b \in BOOLEAN : SetDskTie(k, b)

Ticks == \E e \in 1 .. MaxElapsed : Tick(e)

Next == Command \/ Ticks

Spec == Init /\ [][Next]_coreVars

\* The render loop ticks for as long as the engine runs.
FairSpec == Spec /\ WF_coreVars(Ticks)

------------------------------------------------------------------------------
(* Properties *)

TypeOK ==
    /\ program \in Sources /\ preview \in Sources
    /\ transDur \in Durations /\ age \in Nat
    /\ autoActive \in BOOLEAN /\ tbarActive \in BOOLEAN
    /\ tbarPos \in Levels
    /\ ftbLevel \in Levels /\ ftbTarget \in {0, Full}
    /\ dsk \in [Keyers -> Dsk]
    /\ ticked \in BOOLEAN
    /\ engagedAt \in [Keyers -> {0, Full}]

\* One transition at a time, the T-bar at rest without one, and a keyer rides
\* only a transition that is running and only while it is tied.
OneTransition ==
    /\ ~(autoActive /\ tbarActive)
    /\ ~tbarActive => tbarPos = 0
    /\ tbarPos < Full
    /\ \A k \in Keyers : dsk[k].tieRun => dsk[k].tie /\ Active

\* Keyer state after the next transition lands (look-ahead preview).
WillBeOn(k) == (dsk[k].target = Full) /= (dsk[k].tie /\ ~dsk[k].tieRun)

Lands == Cut \/ (tbarActive /\ TbarSet(Full)) \/ (\E e \in 1 .. MaxElapsed : TickLands(e))

\* However a transition lands, the keyers are then what the look-ahead preview
\* showed before it, and those that ride it have arrived.  A keyer tied while
\* the transition runs is another matter: the preview shows it toggled, and it
\* stays as it is.
LandsAsPreviewed ==
    [][ \A k \in Keyers :
          Lands /\ (Active => dsk[k].tieRun \/ ~dsk[k].tie) =>
              /\ dsk'[k].target = Full <=> WillBeOn(k)
              /\ dsk[k].tieRun => dsk'[k].level = dsk[k].target ]_coreVars

Cancels == Active /\ \E s \in Sources : SetProgram(s) \/ SetPreview(s)

\* Abandoning a transition sends the keyers that ride it back to the state they
\* had before it, if they were at rest when it began (one that was still on its
\* way is sent back to where it was coming from).
RestingKeyersRestored ==
    [][ \A k \in Keyers :
          Cancels /\ dsk[k].tieRun /\ dsk[k].tieFrom = engagedAt[k]
              => dsk'[k].target = engagedAt[k] /\ ~dsk'[k].tieRun ]_coreVars

\* An AUTO lands or is abandoned, whatever is done to its duration.
AutoEnds == autoActive ~> ~autoActive

\* A keyer that is left alone gets where it is going, at its own rate or with
\* the transition it rides.
KeyersSettle ==
    \A k \in Keyers, t \in {0, Full} :
        dsk[k].target = t ~> (dsk[k].level = t \/ dsk[k].target # t
                              \/ (tbarActive /\ dsk[k].tieRun))

\* Every ramp comes to its end.
RampsEnd == AutoEnds /\ KeyersSettle

==============================================================================
