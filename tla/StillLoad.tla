----------------------------- MODULE StillLoad ------------------------------
(***************************************************************************)
(* The still image (in/StillInput): one thread opens a file, feeds its     *)
(* packets to the decoder until a picture could be published, and ends.    *)
(* FFmpeg is external: a file opens or not, holds packets of the image and *)
(* of other streams, and its decoder may hold a picture back until it is   *)
(* drained at the end of the file.  A picture may fail to convert.         *)
(***************************************************************************)
EXTENDS Integers, Sequences

CONSTANT MaxPackets       \* bound on the packets of a file

VARIABLES file,        \* opens, and its packets: "image", "bad", "other"
          delay,       \* pictures the decoder holds back until drained
          step,        \* the thread: "open", "read", "receive", "drain", "done"
          decoder,     \* pictures in the decoder
          stopping,    \* the destructor has run (stopFlag_ and the stop token)
          mailbox,     \* the published picture
          connected, frames

vars == <<file, delay, step, decoder, stopping, mailbox, connected, frames>>

Strings(S) == UNION {[1..n -> S] : n \in 0..MaxPackets}
Files == [opens : BOOLEAN, packets : Strings({"image", "bad", "other"})]

Init ==
  /\ file \in Files /\ delay \in 0..1
  /\ step = "open" /\ decoder = << >> /\ stopping = FALSE
  /\ mailbox = "none" /\ connected = FALSE /\ frames = 0

Destroy == /\ ~stopping /\ stopping' = TRUE
           /\ UNCHANGED <<file, delay, step, decoder, mailbox, connected, frames>>

\* Opening finds no decodable image (or the interrupt callback ends it): the
\* thread gives up and does not try again.
Open == /\ step = "open"
        /\ step' = IF file.opens /\ ~stopping THEN "read" ELSE "done"
        /\ UNCHANGED <<file, delay, decoder, stopping, mailbox, connected, frames>>

\* At the end of the file the decoder is told to give up what it holds.
AtEnd == "drain"

Read ==
  /\ step = "read"
  /\ IF stopping THEN step' = "done" /\ UNCHANGED <<file, decoder>>
     ELSE IF file.packets = << >> THEN step' = AtEnd /\ UNCHANGED <<file, decoder>>
     ELSE /\ file' = [file EXCEPT !.packets = Tail(@)]
          /\ IF Head(file.packets) = "other" THEN UNCHANGED <<step, decoder>>
             ELSE decoder' = Append(decoder, Head(file.packets)) /\ step' = "receive"
  /\ UNCHANGED <<delay, stopping, mailbox, connected, frames>>

\* publishFrame: the picture is converted, uploaded and published; only then does
\* the input count as connected.  A picture that cannot be converted is passed over.
Publish ==
  IF Head(decoder) = "image"
    THEN mailbox' = "image" /\ connected' = TRUE /\ frames' = 1 /\ step' = "done"
    ELSE UNCHANGED <<mailbox, connected, frames, step>>

Receive ==
  /\ step \in {"receive", "drain"}
  /\ LET held == IF step = "drain" THEN 0 ELSE delay
     IN IF stopping \/ Len(decoder) <= held
          THEN /\ step' = IF step = "drain" THEN "done" ELSE "read"
               /\ UNCHANGED <<decoder, mailbox, connected, frames>>
          ELSE decoder' = Tail(decoder) /\ Publish
  /\ UNCHANGED <<file, delay, stopping>>

Next == Destroy \/ Open \/ Read \/ Receive

Spec == Init /\ [][Next]_vars
Fairness == WF_vars(Open \/ Read \/ Receive)

FairSpec == Spec /\ Fairness

---------------------------------------------------------------------------
TypeOK ==
  /\ file \in Files /\ delay \in 0..1 /\ frames \in 0..1
  /\ step \in {"open", "read", "receive", "drain", "done"}
  /\ decoder \in Strings({"image", "bad"})
  /\ {stopping, connected} \subseteq BOOLEAN /\ mailbox \in {"none", "image"}

\* A file that opens and holds a picture that can be shown is shown, the picture
\* the decoder keeps to the end of the file included, unless the input is
\* destroyed first (run, publishFrame).
StillAppears ==
  (step = "open" /\ file.opens /\ \E i \in DOMAIN file.packets : file.packets[i] = "image")
    ~> ((connected /\ mailbox = "image") \/ stopping)
=============================================================================
