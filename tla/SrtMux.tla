-------------------------------- MODULE SrtMux --------------------------------
(***************************************************************************)
(* The packets of an SRT output between its encoders and the connection    *)
(* (out/SrtOutput, muxLoop).  The encode thread and the mixer push packets *)
(* into two rings whatever the connection does; the mux thread opens the   *)
(* connection when it has a packet and a second has passed since the last  *)
(* failure, drops packets while there is none, and writes the rest.  The   *)
(* peer is external: it can be reached or not, opening blocks until it is  *)
(* decided, and a write may fail.                                          *)
(***************************************************************************)
EXTENDS Integers, SequencesExt

CONSTANTS RingSize,     \* places of a packet ring
          MaxFaults     \* bound on what the network does

SrtAssumption == RingSize \in Nat \ {0} /\ MaxFaults \in Nat

VARIABLES rings,       \* pkts_ and audioPkts_: packets born before ("old") or
                       \* after ("new") the connection was made
          hand,        \* the packet the mux thread has taken: kind and age
          step,        \* the mux thread: "pop", "open", "flush", "write", "closed"
          connected,   \* oc_ is open
          backoff,     \* now < nextRetryNs
          reachable,   \* the peer answers
          stopping,    \* stopFlag_ and the stop token
          stale,       \* an old packet has been written
          sent,        \* a packet has been written on this connection
          faults

vars == <<rings, hand, step, connected, backoff, reachable, stopping, stale, sent, faults>>

Streams == {"video", "audio"}
Empty == [k \in Streams |-> << >>]
NoPacket == [kind |-> "none", age |-> "none"]

Init ==
  /\ rings = Empty /\ hand = NoPacket /\ step = "pop"
  /\ connected = FALSE /\ backoff = FALSE /\ reachable \in BOOLEAN
  /\ stopping = FALSE /\ stale = FALSE /\ sent = FALSE /\ faults = 0

---------------------------------------------------------------------------
(* The encode thread and the mixer: a packet that finds its ring full is    *)
(* dropped, nobody waits.                                                   *)
Push(k) ==
  /\ ~stopping /\ Len(rings[k]) < RingSize
  /\ rings' = [rings EXCEPT ![k] = Append(@, "new")]
  /\ UNCHANGED <<hand, step, connected, backoff, reachable, stopping, stale, sent, faults>>

---------------------------------------------------------------------------
(* The mux thread.                                                         *)
First == IF rings["video"] # << >> THEN "video" ELSE "audio"

\* A packet in hand decides: write it, try to connect, or drop it.
Pop ==
  /\ step = "pop" /\ ~stopping /\ rings[First] # << >>
  /\ rings' = [rings EXCEPT ![First] = Tail(@)]
  /\ IF connected \/ ~backoff
       THEN /\ hand' = [kind |-> First, age |-> Head(rings[First])]
            /\ step' = IF connected THEN "write" ELSE "open"
       ELSE UNCHANGED <<hand, step>>
  /\ UNCHANGED <<connected, backoff, reachable, stopping, stale, sent, faults>>

Aged == [k \in Streams |-> [i \in DOMAIN rings[k] |-> "old"]]

\* interruptCb ends a blocking open or write once stopFlag_ is set.
Interrupted == stopping

\* openMux: it succeeds when the peer answers; the packets there are now are
\* older than the connection.  It fails when the peer does not, or when the
\* interrupt callback sees stopFlag_: a second passes before the next attempt.
Open ==
  /\ step = "open"
  /\ \/ /\ reachable /\ connected' = TRUE /\ sent' = FALSE
        /\ rings' = Aged /\ hand' = [hand EXCEPT !.age = "old"]
        /\ step' = "flush" /\ UNCHANGED backoff
     \/ /\ ~reachable \/ Interrupted
        /\ backoff' = TRUE /\ hand' = NoPacket /\ step' = "pop"
        /\ UNCHANGED <<rings, connected, sent>>
  /\ UNCHANGED <<reachable, stopping, stale, faults>>

\* The backlog and the packet in hand are dropped: the viewer joins at now.
\* (The loop pops until both rings are empty, much faster than they fill.)
Dropped == rings' = Empty /\ step' = "pop" /\ hand' = NoPacket

Flush == /\ step = "flush" /\ Dropped
         /\ UNCHANGED <<connected, backoff, reachable, stopping, stale, sent, faults>>

\* The packet is written, or the write fails and the connection is closed.
Write ==
  /\ step = "write" /\ step' = "pop" /\ hand' = NoPacket
  /\ \/ sent' = TRUE /\ stale' = (stale \/ hand.age = "old") /\ UNCHANGED <<connected, backoff, faults>>
     \/ /\ faults < MaxFaults \/ ~reachable
        /\ faults' = IF reachable THEN faults + 1 ELSE faults
        /\ connected' = FALSE /\ backoff' = TRUE /\ UNCHANGED <<sent, stale>>
  /\ UNCHANGED <<rings, reachable, stopping>>

Leave ==
  /\ step = "pop" /\ stopping
  /\ step' = "closed" /\ connected' = FALSE
  /\ UNCHANGED <<rings, hand, backoff, reachable, stopping, stale, sent, faults>>

---------------------------------------------------------------------------
Second == /\ backoff /\ backoff' = FALSE
          /\ UNCHANGED <<rings, hand, step, connected, reachable, stopping, stale, sent, faults>>

Peer == /\ faults < MaxFaults /\ faults' = faults + 1 /\ reachable' = ~reachable
        /\ UNCHANGED <<rings, hand, step, connected, backoff, stopping, stale, sent>>

Destroy == /\ ~stopping /\ stopping' = TRUE
           /\ UNCHANGED <<rings, hand, step, connected, backoff, reachable, stale, sent, faults>>

Mux  == Pop \/ Open \/ Flush \/ Write \/ Leave
Next == (\E k \in Streams : Push(k)) \/ Mux \/ Second \/ Peer \/ Destroy

Spec == Init /\ [][Next]_vars

\* The encoders go on, the mux thread turns (opening may block as long as the
\* peer does not answer and nobody interrupts it), a second passes.
Fairness ==
  /\ WF_vars(Mux /\ (step = "open" => reachable \/ Interrupted))
  /\ WF_vars(Second) /\ WF_vars(Push("video"))
  /\ SF_vars(Pop /\ step' = "open")

FairSpec == Spec /\ Fairness

---------------------------------------------------------------------------
TypeOK ==
  /\ \A k \in Streams : rings[k] \in Seq({"old", "new"}) /\ Len(rings[k]) <= RingSize
  /\ hand \in [kind : Streams \cup {"none"}, age : {"old", "new", "none"}]
  /\ step \in {"pop", "open", "flush", "write", "closed"} /\ faults \in 0..MaxFaults
  /\ {connected, backoff, reachable, stopping, stale, sent} \subseteq BOOLEAN

\* A viewer who connects gets nothing from before the connection: the backlog of
\* the handshake and the packet that started it are dropped (muxLoop).
JoinsAtNow == ~stale

\* An output whose peer can finally be reached is sending in the end, whatever
\* failed before; one that is destroyed ends, also in the middle of connecting.
EndsUpSending == <>[](IF stopping THEN step = "closed" ELSE reachable => connected /\ sent)
=============================================================================
