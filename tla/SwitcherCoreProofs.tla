------------------------- MODULE SwitcherCoreProofs -------------------------
(***************************************************************************)
(* For any number of sources and keyers and any durations: levels stay in  *)
(* range, at most one transition runs and keyers ride only that one, and   *)
(* landing or abandoning it leaves the keyers where they should be.        *)
(***************************************************************************)
EXTENDS SwitcherCore, TLAPS

IInv == TypeOK /\ OneTransition

USE FullAssumption, DurationsAssumption, ElapsedAssumption

------------------------------------------------------------------------------
(* Arithmetic of levels *)

\* A share of a transition that has not ended is a level.
LEMMA ShareIsLevel ==
    ASSUME NEW d \in Durations \cup {FtbDuration}, NEW a \in Nat, a <= d
    PROVE  a * (Full \div d) \in Levels
<1>1. Full \in Nat /\ d \in Nat /\ d > 0 /\ Full % d = 0
  OBVIOUS
<1> DEFINE q == Full \div d
<1>2. q \in Nat /\ Full = d * q
  BY <1>1
<1>3. a * q >= 0 /\ a * q \in Int
  BY <1>2
<1>4. a * q <= d * q
  BY <1>1, <1>2
<1> QED BY <1>2, <1>3, <1>4 DEF Levels

\* The step of a ramp is a number of levels.
LEMMA StepIsNat ==
    ASSUME NEW d \in Durations \cup {FtbDuration}, NEW e \in Nat
    PROVE  e * (Full \div d) \in Nat
<1>1. Full \div d \in Nat
  OBVIOUS
<1> QED BY <1>1

\* A ramp stays among the levels.
LEMMA RampIsLevel ==
    ASSUME NEW l \in Levels, NEW t \in {0, Full}, NEW e \in Nat,
           NEW d \in Durations \cup {FtbDuration}
    PROVE  Ramp(l, t, e, d) \in Levels
<1> DEFINE step == e * (Full \div d)
<1>1. step \in Nat
  BY StepIsNat
<1> HIDE DEF step
<1>2. Ramp(l, t, e, d) =
        IF l < t THEN (IF l + step < t THEN l + step ELSE t)
        ELSE (IF l - step > t THEN l - step ELSE t)
  BY DEF Ramp, step
<1> QED BY <1>1, <1>2 DEF Levels

\* Riding from one level to a target stays among the levels.
LEMMA RideIsLevel ==
    ASSUME NEW f \in Levels, NEW t \in {0, Full}, NEW a \in Levels
    PROVE  f + ((t - f) * a) \div Full \in Levels
<1> DEFINE x == (t - f) * a
<1>1. f \in 0 .. Full /\ a \in 0 .. Full /\ t \in Int /\ Full > 0 /\ x \in Int
  BY DEF Levels
<1>2. CASE t = Full
  <2>1. x >= 0 /\ x <= (Full - f) * Full
    BY <1>1, <1>2
  <2>2. x \div Full >= 0 /\ x \div Full <= Full - f /\ x \div Full \in Int
    BY <2>1, <1>1
  <2> HIDE DEF x
  <2>3. f + x \div Full \in Levels
    BY <2>2, <1>1 DEF Levels
  <2> QED BY <2>3 DEF x
<1>3. CASE t = 0
  <2>1. x <= 0 /\ x >= (0 - f) * Full
    BY <1>1, <1>3
  <2>2. x \div Full <= 0 /\ x \div Full >= 0 - f /\ x \div Full \in Int
    BY <2>1, <1>1
  <2> HIDE DEF x
  <2>3. f + x \div Full \in Levels
    BY <2>2, <1>1 DEF Levels
  <2> QED BY <2>3 DEF x
<1> QED BY <1>2, <1>3

------------------------------------------------------------------------------
(* What happens to one keyer *)

\* Every step of a keyer yields a keyer; the ones that end a transition also
\* end the ride.
LEMMA KeyerSteps ==
    ASSUME NEW d \in Dsk
    PROVE  /\ Armed(d) \in Dsk /\ ((d.tieRun => d.tie) => (Armed(d).tieRun => Armed(d).tie))
           /\ Landed(d) \in Dsk /\ ~Landed(d).tieRun
           /\ SentBack(d) \in Dsk /\ ~SentBack(d).tieRun
           /\ \A e \in Nat : Ramped(d, e) \in Dsk
           /\ \A e \in Nat : Ramped(d, e).tieRun = d.tieRun /\ Ramped(d, e).tie = d.tie
           /\ \A a \in Levels : Ridden(d, a) \in Dsk
           /\ \A a \in Levels : Ridden(d, a).tieRun = d.tieRun /\ Ridden(d, a).tie = d.tie
<1>1. Armed(d) \in Dsk /\ ((d.tieRun => d.tie) => (Armed(d).tieRun => Armed(d).tie))
  BY DEF Armed, Dsk, Toggled
<1>2. Landed(d) \in Dsk /\ ~Landed(d).tieRun
  <2>1. d.target \in Levels /\ Toggled(d.target) \in {0, Full} \cap Levels
    BY DEF Dsk, Toggled, Levels
  <2>2. CASE d.tieRun
    BY <2>1, <2>2 DEF Landed, Dsk
  <2>3. CASE ~d.tieRun /\ d.tie /\ ~Active
    BY <2>1, <2>3 DEF Landed, Dsk
  <2>4. CASE ~d.tieRun /\ ~(d.tie /\ ~Active)
    BY <2>4 DEF Landed
  <2> QED BY <2>2, <2>3, <2>4
<1>3. SentBack(d) \in Dsk /\ ~SentBack(d).tieRun
  BY DEF SentBack, Dsk
<1>4. ASSUME NEW e \in Nat
      PROVE  /\ Ramped(d, e) \in Dsk
             /\ Ramped(d, e).tieRun = d.tieRun /\ Ramped(d, e).tie = d.tie
  <2>1. Elapsed(e) \in Nat
    BY DEF Elapsed
  <2>2. d.level \in Levels /\ d.target \in {0, Full} /\ d.dur \in Durations
    BY DEF Dsk
  <2>3. Ramp(d.level, d.target, Elapsed(e), d.dur) \in Levels
    BY <2>1, <2>2, RampIsLevel
  <2> QED BY <2>3 DEF Ramped, Dsk
<1>5. ASSUME NEW a \in Levels
      PROVE  /\ Ridden(d, a) \in Dsk
             /\ Ridden(d, a).tieRun = d.tieRun /\ Ridden(d, a).tie = d.tie
  <2>1. d.tieFrom + ((d.target - d.tieFrom) * a) \div Full \in Levels
    BY RideIsLevel DEF Dsk
  <2> QED BY <2>1 DEF Ridden, Dsk
<1> QED BY <1>1, <1>2, <1>3, <1>4, <1>5

------------------------------------------------------------------------------
(* The invariant *)

\* Landing and abandoning leave well-formed keyers, none of which rides.
LEMMA CompleteKeeps ==
    ASSUME IInv, NEW d \in [Keyers -> Dsk], Complete(d)
    PROVE  /\ dsk' \in [Keyers -> Dsk] /\ \A k \in Keyers : ~dsk'[k].tieRun
           /\ program' \in Sources /\ preview' \in Sources
           /\ autoActive' = FALSE /\ age' = 0 /\ tbarActive' = FALSE /\ tbarPos' = 0
BY KeyerSteps DEF Complete, NoTransition, IInv, TypeOK

\* Abandoning a transition leaves well-formed keyers, none of which rides.
LEMMA CancelKeeps ==
    ASSUME IInv, Cancel
    PROVE  /\ dsk' \in [Keyers -> Dsk] /\ \A k \in Keyers : ~dsk'[k].tieRun
           /\ autoActive' = FALSE /\ age' = 0 /\ tbarActive' = FALSE /\ tbarPos' = 0
BY KeyerSteps DEF Cancel, NoTransition, IInv, TypeOK

\* Starting a transition leaves well-formed keyers; only tied ones ride.
LEMMA ArmKeeps ==
    ASSUME IInv, Arm
    PROVE  /\ dsk' \in [Keyers -> Dsk] /\ \A k \in Keyers : dsk'[k].tieRun => dsk'[k].tie
           /\ engagedAt' \in [Keyers -> {0, Full}]
<1>1. \A k \in Keyers : dsk[k] \in Dsk /\ (dsk[k].tieRun => dsk[k].tie)
  BY DEF IInv, TypeOK, OneTransition
<1>2. \A k \in Keyers : dsk[k].target \in {0, Full} /\ engagedAt[k] \in {0, Full}
  BY <1>1 DEF IInv, TypeOK, Dsk
<1> QED BY <1>1, <1>2, KeyerSteps DEF Arm

\* One case per method.
LEMMA InvStep ==
    ASSUME IInv, [Next]_coreVars
    PROVE  IInv'
<1> USE DEF buses, transition, ftb
<1> DEFINE Resting == /\ dsk' \in [Keyers -> Dsk] /\ \A k \in Keyers : ~dsk'[k].tieRun
                      /\ autoActive' = FALSE /\ age' = 0
                      /\ tbarActive' = FALSE /\ tbarPos' = 0
<1>0. /\ TypeOK /\ OneTransition /\ \A l \in {0, Full} : Toggled(l) \in {0, Full}
      /\ 0 \in Levels /\ Full > 0
  BY DEF IInv, Toggled, Levels
<1>1. ASSUME NEW s \in Sources, SetProgram(s)
      PROVE  IInv'
  <2>1. Resting
    BY <1>1, CancelKeeps DEF SetProgram
  <2> QED BY <1>0, <1>1, <2>1 DEF SetProgram, IInv, TypeOK, OneTransition
<1>2. ASSUME NEW s \in Sources, SetPreview(s)
      PROVE  IInv'
  <2>1. Resting
    BY <1>2, CancelKeeps DEF SetPreview
  <2> QED BY <1>0, <1>2, <2>1 DEF SetPreview, IInv, TypeOK, OneTransition
<1>3. ASSUME NEW d \in Durations, SetTransition(d)
      PROVE  IInv'
  BY <1>0, <1>3 DEF SetTransition, IInv, TypeOK, OneTransition, Active
<1>4. CASE Cut
  <2>1. dsk \in [Keyers -> Dsk] /\ Complete(dsk)
    BY <1>0, <1>4 DEF Cut, TypeOK
  <2>2. Resting /\ program' \in Sources /\ preview' \in Sources
    BY <2>1, CompleteKeeps
  <2> QED BY <1>0, <1>4, <2>2 DEF Cut, IInv, TypeOK, OneTransition
<1>5. CASE AutoTransition
  <2>1. /\ dsk' \in [Keyers -> Dsk] /\ \A k \in Keyers : dsk'[k].tieRun => dsk'[k].tie
        /\ engagedAt' \in [Keyers -> {0, Full}]
    BY <1>5, ArmKeeps DEF AutoTransition
  <2> QED BY <1>0, <1>5, <2>1 DEF AutoTransition, IInv, TypeOK, OneTransition, Active
<1>6. CASE TbarBegin
  <2>1. /\ dsk' \in [Keyers -> Dsk] /\ \A k \in Keyers : dsk'[k].tieRun => dsk'[k].tie
        /\ engagedAt' \in [Keyers -> {0, Full}]
    BY <1>6, ArmKeeps DEF TbarBegin
  <2> QED BY <1>0, <1>6, <2>1 DEF TbarBegin, IInv, TypeOK, OneTransition, Active
<1>7. ASSUME NEW p \in Levels, TbarSet(p)
      PROVE  IInv'
  <2>1. CASE p < Full
    BY <1>0, <1>7, <2>1 DEF TbarSet, IInv, TypeOK, OneTransition, Active
  <2>2. CASE ~(p < Full)
    <3>1. dsk \in [Keyers -> Dsk] /\ Complete(dsk)
      BY <1>0, <1>7, <2>2 DEF TbarSet, TypeOK
    <3>2. Resting /\ program' \in Sources /\ preview' \in Sources
      BY <3>1, CompleteKeeps
    <3> QED BY <1>0, <1>7, <3>2 DEF TbarSet, IInv, TypeOK, OneTransition
  <2> QED BY <2>1, <2>2
<1>8. CASE FadeToBlack
  BY <1>0, <1>8 DEF FadeToBlack, IInv, TypeOK, OneTransition, Active
<1>9. ASSUME NEW k \in Keyers, DskToggle(k)
      PROVE  IInv'
  <2>1. dsk[k] \in Dsk
    BY <1>0 DEF TypeOK
  <2>2. Toggled(dsk[k].target) \in {0, Full}
    BY <1>0, <2>1 DEF Dsk
  <2>3. dsk' \in [Keyers -> Dsk] /\ \A j \in Keyers :
          dsk'[j].tieRun = dsk[j].tieRun /\ dsk'[j].tie = dsk[j].tie
    BY <1>0, <1>9, <2>2 DEF DskToggle, ChangeDsk, TypeOK, Dsk
  <2> QED BY <1>0, <1>9, <2>3
        DEF DskToggle, ChangeDsk, IInv, TypeOK, OneTransition, Active
<1>10. ASSUME NEW k \in Keyers, NEW d \in Durations, SetDskDuration(k, d)
       PROVE  IInv'
  <2>1. dsk' \in [Keyers -> Dsk] /\ \A j \in Keyers :
          dsk'[j].tieRun = dsk[j].tieRun /\ dsk'[j].tie = dsk[j].tie
    BY <1>0, <1>10 DEF SetDskDuration, ChangeDsk, TypeOK, Dsk
  <2> QED BY <1>0, <1>10, <2>1
        DEF SetDskDuration, ChangeDsk, IInv, TypeOK, OneTransition, Active
<1>11. ASSUME NEW k \in Keyers, NEW b \in BOOLEAN, SetDskTie(k, b)
       PROVE  IInv'
  <2>1. \A j \in Keyers : dsk[j] \in Dsk /\ (dsk[j].tieRun => dsk[j].tie)
    BY <1>0 DEF TypeOK, OneTransition
  <2> DEFINE tied == [dsk EXCEPT ![k].tie = b]
  <2>2. dsk' = [tied EXCEPT ![k].tieRun = @ /\ b] /\ tied[k].tieRun = dsk[k].tieRun
    BY <1>0, <1>11, <2>1 DEF SetDskTie, ChangeDsk, TypeOK, Dsk
  <2>3. tied \in [Keyers -> Dsk] /\ tied[k].tie = b
        /\ \A j \in Keyers : j # k => tied[j] = dsk[j]
    BY <1>0, <2>1 DEF TypeOK, Dsk
  <2> HIDE DEF tied
  <2>4. dsk' \in [Keyers -> Dsk] /\ \A j \in Keyers :
          dsk'[j].tieRun => dsk'[j].tie /\ dsk[j].tieRun
    BY <2>1, <2>2, <2>3 DEF Dsk
  <2> QED BY <1>0, <1>11, <2>4
        DEF SetDskTie, ChangeDsk, IInv, TypeOK, OneTransition, Active
<1>12. ASSUME NEW e \in 1 .. MaxElapsed, Tick(e)
       PROVE  IInv'
  <2>1. e \in Nat /\ AgeAfter(e) \in Nat /\ Elapsed(e) \in Nat
    BY <1>0 DEF AgeAfter, Elapsed, TypeOK
  <2>2. ftbLevel' \in Levels /\ ftbTarget' = ftbTarget /\ ticked' \in BOOLEAN
        /\ transDur' = transDur /\ engagedAt' = engagedAt
    <3>1. Ramps(e)
      BY <1>12 DEF Tick, TickLands, TickRuns
    <3>2. ftbLevel \in Levels /\ ftbTarget \in {0, Full}
      BY <1>0 DEF TypeOK
    <3>3. Ramp(ftbLevel, ftbTarget, Elapsed(e), FtbDuration) \in Levels
      BY <2>1, <3>2, RampIsLevel
    <3> QED BY <3>1, <3>3 DEF Ramps
  <2> DEFINE ramped == [k \in Keyers |-> Ramped(dsk[k], e)]
  <2>3. ramped \in [Keyers -> Dsk] /\ \A k \in Keyers :
          ramped[k].tieRun = dsk[k].tieRun /\ ramped[k].tie = dsk[k].tie
    <3>1. \A k \in Keyers : dsk[k] \in Dsk
      BY <1>0 DEF TypeOK
    <3>2. \A k \in Keyers : /\ Ramped(dsk[k], e) \in Dsk
                           /\ Ramped(dsk[k], e).tieRun = dsk[k].tieRun
                           /\ Ramped(dsk[k], e).tie = dsk[k].tie
      BY <2>1, <3>1, KeyerSteps
    <3> QED BY <3>2
  <2>4. CASE TickLands(e)
    <3>1. Complete(ramped)
      BY <2>4 DEF TickLands
    <3> HIDE DEF ramped
    <3>2. Resting /\ program' \in Sources /\ preview' \in Sources
      BY <2>3, <3>1, CompleteKeeps
    <3> QED BY <1>0, <2>2, <3>2 DEF IInv, TypeOK, OneTransition
  <2>5. CASE TickRuns(e)
    <3>1. Alpha(e) \in Levels
      <4>1. CASE autoActive
        BY <1>0, <2>1, <2>5, <4>1, ShareIsLevel DEF Alpha, TickRuns, TypeOK
      <4>2. CASE ~autoActive
        BY <1>0, <4>2 DEF Alpha, TypeOK
      <4> QED BY <4>1, <4>2
    <3>2. dsk' = [k \in Keyers |-> Ridden(ramped[k], Alpha(e))]
      BY <2>5 DEF TickRuns
    <3> HIDE DEF ramped
    <3>3. \A k \in Keyers : /\ Ridden(ramped[k], Alpha(e)) \in Dsk
                           /\ Ridden(ramped[k], Alpha(e)).tieRun = ramped[k].tieRun
                           /\ Ridden(ramped[k], Alpha(e)).tie = ramped[k].tie
      BY <2>3, <3>1, KeyerSteps
    <3>4. dsk' \in [Keyers -> Dsk] /\ \A k \in Keyers :
            dsk'[k].tieRun = dsk[k].tieRun /\ dsk'[k].tie = dsk[k].tie
      BY <2>3, <3>2, <3>3
    <3> QED BY <1>0, <2>1, <2>2, <2>5, <3>4
          DEF TickRuns, IInv, TypeOK, OneTransition, Active
  <2> QED BY <1>12, <2>4, <2>5 DEF Tick
<1>13. CASE UNCHANGED coreVars
  BY <1>0, <1>13 DEF coreVars, IInv, TypeOK, OneTransition, Active
<1> QED BY <1>1, <1>2, <1>3, <1>4, <1>5, <1>6, <1>7, <1>8, <1>9, <1>10, <1>11, <1>12, <1>13
      DEF Next, Command, Ticks

------------------------------------------------------------------------------
(* Theorems *)

\* Levels, targets and progress stay in range however ramps, durations and
\* skipped ticks fall, and at most one transition runs, the T-bar at rest
\* without one, keyers riding only while it runs and they are tied.
THEOREM CoreCorrect == Spec => []IInv
<1>1. Init => IInv
  <2> SUFFICES ASSUME Init PROVE IInv
    OBVIOUS
  <2>1. 0 \in Levels /\ 0 < Full
    BY DEF Levels
  <2>2. PICK d \in Durations :
          dsk = [k \in Keyers |-> [level |-> 0, target |-> 0, dur |-> d,
                                   tie |-> FALSE, tieRun |-> FALSE, tieFrom |-> 0]]
    BY DEF Init
  <2>3. dsk \in [Keyers -> Dsk] /\ \A k \in Keyers : ~dsk[k].tieRun
    BY <2>1, <2>2 DEF Dsk
  <2> QED BY <2>1, <2>3 DEF Init, IInv, TypeOK, OneTransition
<1>2. IInv /\ [Next]_coreVars => IInv'
  BY InvStep
<1> QED BY <1>1, <1>2, PTL DEF Spec

\* The levels and targets the compositor is given are always in range.
THEOREM CoreTypeCorrect == Spec => []TypeOK
<1>1. IInv => TypeOK
  BY DEF IInv
<1> QED BY <1>1, CoreCorrect, PTL

\* AUTO and the T-bar never drive the mix together, and no keyer is left
\* riding a transition that is over (it would never move again).
THEOREM OneTransitionAtATime == Spec => []OneTransition
<1>1. IInv => OneTransition
  BY DEF IInv
<1> QED BY <1>1, CoreCorrect, PTL

\* However a transition lands - cut, T-bar travel or AUTO's last tick - the
\* keyers are what the look-ahead preview promised.
THEOREM LandingKeepsPromise == Spec => LandsAsPreviewed
<1>1. ASSUME IInv, Lands, NEW k \in Keyers, Active => dsk[k].tieRun \/ ~dsk[k].tie
      PROVE  /\ dsk'[k].target = Full <=> WillBeOn(k)
             /\ dsk[k].tieRun => dsk'[k].level = dsk[k].target
  <2> DEFINE Promise(d) == /\ d.target = Full <=> WillBeOn(k)
                           /\ dsk[k].tieRun => d.level = dsk[k].target
  <2>1. dsk[k] \in Dsk /\ Full > 0 /\ (dsk[k].tieRun => Active)
    BY <1>1 DEF IInv, TypeOK, OneTransition
  <2>2. ASSUME NEW d \in Dsk, d.tie = dsk[k].tie, d.tieRun = dsk[k].tieRun,
               d.target = dsk[k].target
        PROVE  Promise(Landed(d))
    BY <1>1, <2>1, <2>2 DEF Landed, WillBeOn, Toggled, Dsk
  <2>3. CASE Cut
    <3>1. dsk'[k] = Landed(dsk[k])
      BY <2>3 DEF Cut, Complete
    <3> QED BY <2>1, <2>2, <3>1
  <2>4. CASE TbarSet(Full)
    <3>1. dsk'[k] = Landed(dsk[k])
      <4>1. ~(Full < Full)
        BY <2>1
      <4> QED BY <2>4, <4>1 DEF TbarSet, Complete
    <3> QED BY <2>1, <2>2, <3>1
  <2>5. ASSUME NEW e \in 1 .. MaxElapsed, TickLands(e)
        PROVE  Promise(dsk'[k])
    <3>1. dsk'[k] = Landed(Ramped(dsk[k], e))
      BY <2>5 DEF TickLands, Complete
    <3>2. Ramped(dsk[k], e) \in Dsk /\ Ramped(dsk[k], e).tieRun = dsk[k].tieRun
          /\ Ramped(dsk[k], e).tie = dsk[k].tie
      BY <2>1, KeyerSteps
    <3>3. Ramped(dsk[k], e).target = dsk[k].target
      BY <2>1 DEF Ramped, Dsk
    <3> QED BY <2>2, <3>1, <3>2, <3>3
  <2> QED BY <1>1, <2>3, <2>4, <2>5 DEF Lands
<1>2. IInv => [ \A k \in Keyers :
                  Lands /\ (Active => dsk[k].tieRun \/ ~dsk[k].tie) =>
                    /\ dsk'[k].target = Full <=> WillBeOn(k)
                    /\ dsk[k].tieRun => dsk'[k].level = dsk[k].target ]_coreVars
  BY <1>1
<1> QED BY <1>2, CoreCorrect, PTL DEF LandsAsPreviewed

\* Assigning a bus mid-transition sends the keyers that were at rest when it
\* began back to the state they had.
THEOREM AbandoningRestores == Spec => RestingKeyersRestored
<1>1. ASSUME IInv, NEW k \in Keyers, Cancels, dsk[k].tieRun, dsk[k].tieFrom = engagedAt[k]
      PROVE  dsk'[k].target = engagedAt[k] /\ ~dsk'[k].tieRun
  <2>1. dsk[k] \in Dsk /\ engagedAt[k] \in {0, Full}
    BY <1>1 DEF IInv, TypeOK
  <2>2. dsk'[k] = SentBack(dsk[k])
    BY <1>1 DEF Cancels, SetProgram, SetPreview, Cancel
  <2>3. (2 * dsk[k].tieFrom > Full) = (engagedAt[k] = Full)
    BY <1>1, <2>1
  <2> QED BY <1>1, <2>1, <2>2, <2>3 DEF SentBack, Dsk
<1>2. IInv => [ \A k \in Keyers :
                  Cancels /\ dsk[k].tieRun /\ dsk[k].tieFrom = engagedAt[k]
                    => dsk'[k].target = engagedAt[k] /\ ~dsk'[k].tieRun ]_coreVars
  BY <1>1
<1> QED BY <1>2, CoreCorrect, PTL DEF RestingKeyersRestored

==============================================================================
