----------------------------- MODULE OmtReceive -----------------------------
(***************************************************************************)
(* One OMT input (omt/OmtInput::run).                                      *)
(* The receive thread owns the receiver: it recreates it after 3 s without *)
(* a picture, tells the sender of the connection its tally, and uploads    *)
(* every picture through the slots of a ring that is rebuilt when the      *)
(* format changes.  The render thread only stores the tally and lets go of *)
(* frames.  libomt is external: it delivers pictures with or without a     *)
(* matte and with or without usable time stamps, or nothing.               *)
(***************************************************************************)
EXTENDS Integers

CONSTANTS Slots,       \* slots of an upload ring
          Tallies,     \* values of tally_ (program and preview bits)
          BadLimit,    \* bad cadences in a row that are put up with (8)
          MaxEvents    \* bound on tally changes, quiet spells and failures

Unsent == "0xFF"
OmtAssumption == Unsent \notin Tallies /\ BadLimit \in Nat /\ MaxEvents \in Nat

VARIABLES recv,        \* the receiver exists
          tally, applied,   \* tally_ and appliedTally_
          told,        \* what the sender of this connection has been told
          connected, everConnected, reconnects,
          alphaConn,   \* alphaThisConn
          ring,        \* the ring's pixel format: "none", "uyvy", "uyva"
          busy,        \* slots whose frame somebody still holds
          matte,       \* each slot's staging matte: filled opaque, or of an old picture
          opaque,      \* slotAlphaOpaque_
          shown,       \* matte of the last published frame, and what it sent
          stamps,      \* haveSrcTs, the cadence since, badCadence, ptsSynth
          events

conn == <<recv, applied, told, connected, everConnected, reconnects>>
pixels == <<alphaConn, ring, busy, matte, opaque, shown>>
vars == <<tally, conn, pixels, stamps, events>>

NoMatte == [sent |-> "none", matte |-> "none"]
NewStamps == [have |-> FALSE, gap |-> FALSE, bad |-> 0, synth |-> FALSE]

Init ==
  /\ recv = FALSE /\ applied = Unsent /\ told = Unsent
  /\ tally \in Tallies
  /\ connected = FALSE /\ everConnected = FALSE /\ reconnects = 0
  /\ alphaConn = FALSE /\ ring = "none"
  /\ busy = {} /\ matte = [s \in Slots |-> "old"] /\ opaque = {}
  /\ shown = NoMatte
  /\ stamps = NewStamps /\ events = 0

---------------------------------------------------------------------------
(* The render thread.                                                      *)
SetTally ==
  /\ events < MaxEvents /\ events' = events + 1
  /\ tally' \in Tallies \ {tally}
  /\ UNCHANGED <<conn, pixels, stamps>>

LetGo == /\ \E s \in busy : busy' = busy \ {s}
         /\ UNCHANGED <<tally, conn, alphaConn, ring, matte, opaque, shown,
                        stamps, events>>

---------------------------------------------------------------------------
(* The receive thread.                                                     *)

\* A new connection has been told nothing.
TallyAfresh == Unsent

\* No receiver: it is created and everything judged per connection starts over.
Connect ==
  /\ ~recv /\ recv' = TRUE
  /\ applied' = TallyAfresh /\ told' = Unsent
  /\ reconnects' = IF everConnected THEN 1 ELSE reconnects
  /\ stamps' = NewStamps /\ alphaConn' = FALSE
  /\ UNCHANGED <<tally, connected, everConnected, ring, busy, matte, opaque,
                 shown, events>>

ConnectFails ==
  /\ ~recv /\ events < MaxEvents /\ events' = events + 1
  /\ UNCHANGED <<tally, conn, pixels, stamps>>

\* The top of every pass: a tally that differs is sent.
SendTally ==
  /\ recv /\ applied # tally
  /\ applied' = tally /\ told' = tally
  /\ UNCHANGED <<tally, recv, connected, everConnected, reconnects, pixels,
                 stamps, events>>

\* 3 s without a picture: the receiver is given up (the sender may be back
\* under another port).
GoneQuiet ==
  /\ recv /\ applied = tally /\ events < MaxEvents /\ events' = events + 1
  /\ recv' = FALSE /\ connected' = FALSE
  /\ UNCHANGED <<tally, applied, told, everConnected, reconnects, pixels, stamps>>

\* The ring a picture goes to.  Once a connection has shown a matte, its plain
\* pictures keep to the ring with a matte.
Wanted(alpha) ==
  IF alpha \/ (alphaConn /\ ring = "uyva") THEN "uyva" ELSE "uyvy"

\* Faulty variant: a slot stays known as opaque when a matte is copied into it.
OpaqueForever(known, s, alpha) == known \cup {s}

\* Slots whose staging matte is known to be opaque after a picture in slot s.
OpaqueAfter(known, s, alpha) == IF alpha THEN known \ {s} ELSE known \cup {s}

\* What the staging matte of slot s shows of the picture copied to it: its own
\* matte, or a plane filled once and left alone while it is known to be opaque.
Copied(known, s, alpha) ==
  IF alpha THEN "own" ELSE IF s \notin known THEN "opaque" ELSE matte[s]

\* The stamp of a picture: it has none, its distance from the stamp stored
\* before is a frame, or it is not (the sender jumped, or pictures were dropped
\* in between: stamps are looked at only when a slot was had).
Stamped(stamp) ==
  IF stamps.synth THEN stamps
  ELSE IF stamp = "none" THEN [stamps EXCEPT !.synth = TRUE]
  ELSE LET off == stamps.have /\ (stamp = "jump" \/ stamps.gap)
           bad == IF off THEN stamps.bad + 1 ELSE IF stamps.have THEN 0 ELSE stamps.bad
       IN [have |-> TRUE, gap |-> FALSE, bad |-> IF bad > BadLimit THEN BadLimit ELSE bad,
           synth |-> bad > BadLimit]

\* One picture.  A new format makes a new ring, whose slots are free; with no
\* free slot the picture is dropped.
Picture(alpha, stamp) ==
  LET want  == Wanted(alpha)
      held  == IF want = ring THEN busy ELSE {}
      known == IF want = ring THEN opaque ELSE {}
  IN /\ recv /\ applied = tally
     /\ connected' = TRUE /\ everConnected' = TRUE
     /\ alphaConn' = (alphaConn \/ alpha)
     /\ ring' = want
     /\ \/ \E s \in Slots \ held :
             /\ busy' = held \cup {s}
             /\ IF want = "uyvy"
                  THEN opaque' = {} /\ shown' = NoMatte /\ UNCHANGED matte
                  ELSE /\ opaque' = OpaqueAfter(known, s, alpha)
                       /\ shown' = [sent |-> IF alpha THEN "own" ELSE "opaque",
                                    matte |-> Copied(known, s, alpha)]
                       /\ matte' = [matte EXCEPT ![s] = IF shown'.matte = "opaque"
                                                         THEN "opaque" ELSE "old"]
             /\ stamps' = Stamped(stamp)
        \/ /\ Slots \subseteq held
           /\ busy' = held /\ stamps' = [stamps EXCEPT !.gap = TRUE]
           /\ UNCHANGED <<matte, opaque, shown>>
     /\ UNCHANGED <<tally, recv, applied, told, reconnects, events>>

Receive == \E alpha \in BOOLEAN, stamp \in {"none", "next", "jump"} : Picture(alpha, stamp)

Next == SetTally \/ LetGo \/ Connect \/ ConnectFails \/ SendTally \/ GoneQuiet \/ Receive

Spec == Init /\ [][Next]_vars

\* The receive thread keeps turning.
Fairness == WF_vars(Connect) /\ WF_vars(SendTally)

FairSpec == Spec /\ Fairness

---------------------------------------------------------------------------
Stamps == [have : BOOLEAN, gap : BOOLEAN, bad : 0..BadLimit, synth : BOOLEAN]

TypeOK ==
  /\ {recv, connected, everConnected, alphaConn} \subseteq BOOLEAN
  /\ tally \in Tallies /\ {applied, told} \subseteq Tallies \cup {Unsent}
  /\ reconnects \in 0..1 /\ ring \in {"none", "uyvy", "uyva"}
  /\ busy \subseteq Slots /\ opaque \subseteq Slots
  /\ matte \in [Slots -> {"old", "opaque"}]
  /\ shown \in [sent : {"none", "own", "opaque"}, matte : {"none", "own", "opaque", "old"}]
  /\ stamps \in Stamps
  /\ events \in 0..MaxEvents

\* A picture is never shown with the matte of an earlier one: it has its own, or
\* it is opaque (the staging copy and slotAlphaOpaque_).
MatteIsThePictures == shown.matte = shown.sent

\* The sender of the connection that lasts ends up told the tally of now, not
\* the one an earlier connection was told (appliedTally_ = 0xFF).
TallyReachesSender == <>[](recv /\ told = tally)
=============================================================================
