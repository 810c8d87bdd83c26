---------------------------- MODULE MultiviewFeed ----------------------------
(***************************************************************************)
(* The multiview on its way to the browsers.  The GPU writes it into one   *)
(* of a few read-back slots per tick; the render thread stamps the slot    *)
(* before it submits the tick, and afterwards says which tick is complete. *)
(* The encode thread copies that slot with no lock and looks at the stamp  *)
(* again (Engine::copyMultiview), compresses the copy, stores it and bumps *)
(* a number; the thread of the sockets gives it to a browser that has not  *)
(* had that number (web/WebServer).  The GPU is external: it runs what it  *)
(* was given in order.                                                     *)
(***************************************************************************)
EXTENDS Integers

CONSTANTS Slots,        \* kReadbackSlots
          InFlight,     \* kFramesInFlight
          MaxTicks,     \* bound: ticks
          MaxEvents     \* bound: browsers that come, encodes that fail

FeedAssumption == {Slots, InFlight} \subseteq Nat \ {0} /\ {MaxTicks, MaxEvents} \subseteq Nat

VARIABLES value,       \* ticks recorded
          stamp,       \* rbStamp_
          submitted,   \* ticks given to the GPU
          ready,       \* mvReady_
          step,        \* render thread: "record", "submit", "tell"
          done,        \* ticks the GPU has completed
          drawing,     \* it is writing the next one's slot
          pixels,      \* the slots: the tick of their upper and lower half
          enc,         \* encode thread: step, v, tries, the copy
          seq,         \* the tick it copied last
          frame, frameSeq,   \* frame_, frameSeq_
          failed,      \* the last tick whose compression failed
          hand,        \* socket thread: the number and frame it has taken
          clientSeq,   \* the browser's frameSeq
          watching,    \* a browser is connected
          shown,       \* the frames it was given: the newest
          events

render == <<value, stamp, submitted, ready, step>>
gpu == <<done, drawing, pixels>>
encoder == <<enc, seq, frame, frameSeq, failed>>
browser == <<hand, clientSeq, watching, shown, events>>
vars == <<render, gpu, encoder, browser>>

Blank == [top |-> 0, bottom |-> 0]
Idle == [step |-> "idle", v |-> 0, tries |-> 0, copy |-> Blank]
NoHand == [seq |-> 0, frame |-> Blank, step |-> "load"]

Init ==
  /\ value = 0 /\ submitted = 0 /\ ready = 0 /\ step = "record"
  /\ stamp = [s \in 0 .. Slots - 1 |-> 0]
  /\ done = 0 /\ drawing = FALSE /\ pixels = [s \in 0 .. Slots - 1 |-> Blank]
  /\ enc = Idle /\ seq = 0 /\ frame = Blank /\ frameSeq = 0 /\ failed = 0
  /\ hand = NoHand /\ clientSeq = 0 /\ watching = FALSE /\ shown = Blank /\ events = 0

---------------------------------------------------------------------------
(* The render thread and the GPU.                                          *)

\* A tick waits out the submission that used its command buffer.
Record ==
  /\ step = "record" /\ value < MaxTicks /\ value + 1 - InFlight <= done
  /\ step' = "submit" /\ value' = value + 1
  /\ stamp' = [stamp EXCEPT ![(value + 1) % Slots] = value + 1]
  /\ UNCHANGED <<submitted, ready, gpu, encoder, browser>>

Submit ==
  /\ step = "submit" /\ step' = "tell" /\ submitted' = value
  /\ UNCHANGED <<value, stamp, ready, gpu, encoder, browser>>

Tell ==
  /\ step = "tell" /\ step' = "record" /\ ready' = done
  /\ UNCHANGED <<value, stamp, submitted, gpu, encoder, browser>>

Draw ==
  /\ ~drawing /\ done < submitted /\ drawing' = TRUE
  /\ pixels' = [pixels EXCEPT ![(done + 1) % Slots].top = done + 1]
  /\ UNCHANGED <<done, render, encoder, browser>>

Drawn ==
  /\ drawing /\ drawing' = FALSE /\ done' = done + 1
  /\ pixels' = [pixels EXCEPT ![(done + 1) % Slots].bottom = done + 1]
  /\ UNCHANGED <<render, encoder, browser>>

---------------------------------------------------------------------------
(* The encode thread.                                                      *)

\* Nobody watching and a frame there: it idles.  Nothing new: it waits.
Look ==
  /\ enc.step = "idle" /\ (watching \/ seq = 0)
  /\ ready # 0 /\ ready # seq
  /\ enc' = [step |-> "upper", v |-> ready, tries |-> 1, copy |-> Blank]
  /\ UNCHANGED <<render, gpu, seq, frame, frameSeq, failed, browser>>

CopyUpper ==
  /\ enc.step = "upper"
  /\ enc' = [enc EXCEPT !.step = "lower", !.copy.top = pixels[enc.v % Slots].top]
  /\ UNCHANGED <<render, gpu, seq, frame, frameSeq, failed, browser>>

CopyLower ==
  /\ enc.step = "lower"
  /\ enc' = [enc EXCEPT !.step = "check", !.copy.bottom = pixels[enc.v % Slots].bottom]
  /\ UNCHANGED <<render, gpu, seq, frame, frameSeq, failed, browser>>

\* Faulty variant: the stamp is not looked at again.
StillFree(v) == TRUE

\* Nobody has been given the slot since.
StillOurs(v) == stamp[v % Slots] = v

\* A slot given away is tried once more with what is complete by then.
Check ==
  /\ enc.step = "check"
  /\ IF StillOurs(enc.v)
       THEN enc' = [enc EXCEPT !.step = "encode"] /\ seq' = enc.v
       ELSE /\ enc' = IF enc.tries = 1 /\ ready # seq
                        THEN [step |-> "upper", v |-> ready, tries |-> 2, copy |-> Blank]
                        ELSE Idle
            /\ UNCHANGED seq
  /\ UNCHANGED <<render, gpu, frame, frameSeq, failed, browser>>

EncodeFails ==
  /\ enc.step = "encode" /\ events < MaxEvents /\ events' = events + 1
  /\ enc' = Idle /\ failed' = enc.v
  /\ UNCHANGED <<render, gpu, seq, frame, frameSeq, hand, clientSeq, watching, shown>>

Encode ==
  /\ enc.step = "encode" /\ enc' = [enc EXCEPT !.step = "store"]
  /\ UNCHANGED <<render, gpu, seq, frame, frameSeq, failed, browser>>

Store ==
  /\ enc.step = "store" /\ enc' = [enc EXCEPT !.step = "bump"]
  /\ frame' = enc.copy
  /\ UNCHANGED <<render, gpu, seq, frameSeq, failed, browser>>

Bump ==
  /\ enc.step = "bump" /\ enc' = Idle /\ frameSeq' = frameSeq + 1
  /\ UNCHANGED <<render, gpu, seq, frame, failed, browser>>

---------------------------------------------------------------------------
(* The socket thread and one browser.                                      *)
Load ==
  /\ hand.step = "load" /\ frameSeq # 0
  /\ hand' = [hand EXCEPT !.step = "take", !.seq = frameSeq]
  /\ UNCHANGED <<render, gpu, encoder, clientSeq, watching, shown, events>>

Take ==
  /\ hand.step = "take" /\ hand' = [hand EXCEPT !.step = "give", !.frame = frame]
  /\ UNCHANGED <<render, gpu, encoder, clientSeq, watching, shown, events>>

\* A browser whose queue is too full for it waits for the next round.
Give(full) ==
  /\ hand.step = "give" /\ hand' = NoHand
  /\ IF watching /\ clientSeq # hand.seq /\ ~full
       THEN clientSeq' = hand.seq /\ shown' = hand.frame
       ELSE UNCHANGED <<clientSeq, shown>>
  /\ UNCHANGED <<render, gpu, encoder, watching, events>>

Come ==
  /\ ~watching /\ hand.step = "load" /\ watching' = TRUE
  /\ clientSeq' = 0 /\ shown' = Blank
  /\ UNCHANGED <<render, gpu, encoder, hand, events>>

Go ==
  /\ watching /\ hand.step = "load" /\ watching' = FALSE
  /\ events < MaxEvents /\ events' = events + 1
  /\ UNCHANGED <<render, gpu, encoder, hand, clientSeq, shown>>

Gpu == Draw \/ Drawn
Renderer == Record \/ Submit \/ Tell
Encoder == Look \/ CopyUpper \/ CopyLower \/ Check \/ Encode \/ EncodeFails \/ Store \/ Bump
Sockets == Load \/ Take \/ Give(FALSE)

Next == Renderer \/ Gpu \/ Encoder \/ Sockets \/ Give(TRUE) \/ Come \/ Go

Spec == Init /\ [][Next]_vars

\* The threads run, the GPU finishes, a browser drains its queue now and then.
Fairness ==
  /\ WF_vars(Renderer) /\ WF_vars(Gpu) /\ WF_vars(Encoder)
  /\ WF_vars(Load \/ Take) /\ SF_vars(Give(FALSE))

FairSpec == Spec /\ Fairness

---------------------------------------------------------------------------
Halves == [top : 0 .. MaxTicks, bottom : 0 .. MaxTicks]

TypeOK ==
  /\ {value, submitted, ready, done, seq, frameSeq, failed} \subseteq 0 .. MaxTicks
  /\ pixels \in [0 .. Slots - 1 -> Halves] /\ frame \in Halves /\ shown \in Halves
  /\ enc.copy \in Halves /\ events \in 0 .. MaxEvents

\* A browser is never given a picture put together from two ticks, nor one older
\* than the one it shows, although the copy takes no lock while the GPU and the
\* render thread go on (copyMultiview's stamp).
MultiviewIntact ==
  [][ Give(FALSE) => shown'.top = shown'.bottom /\ (watching => shown'.top >= shown.top) ]_vars

\* A browser that drains its queue ends up with the last picture the engine
\* declared complete, unless that one could not be compressed (encodeLoop's order
\* of store and bump, the two numbers compared in run).
LastPictureReaches ==
  []<>(~watching \/ shown.top = ready \/ failed = ready)
=============================================================================
