------------------------------ MODULE ControlPort ------------------------------
(***************************************************************************)
(* A control port: the TCP line server (ctl/ControlServer) or the web      *)
(* server's sockets (web/WebServer).  One thread polls every connection    *)
(* (30 ms at most), accepts one, reads what each polled client sent, and   *)
(* publishes the engine's state to the clients that follow it when it      *)
(* differs from what it published last.                                    *)
(*                                                                         *)
(* What a client sends is cut into units: a command in one piece or in two *)
(* (half a line, a WebSocket fragment), the request to follow the state    *)
(* (SUBSCRIBE, or the upgrade to a WebSocket), a ping, something malformed.*)
(* What it receives are states; NoState stands for any other reply.        *)
(* The sockets and the clients are external.  A client may hang up, and it *)
(* may stop reading for good.                                              *)
(***************************************************************************)
EXTENDS Integers, SequencesExt

CONSTANTS Clients,
          Talkers,      \* those that do more than come and go
          MaxClients,   \* kMaxClients
          QueueSize,    \* kMaxOutBuf, in messages
          InSize,       \* the longest accepted backlog of a client, in units
          Window,       \* messages a client's socket holds
          Limits        \* bounds to choose from: who connects, how many units each
                        \* of them sends, how often the engine's state changes

PortAssumption ==
  /\ {MaxClients, QueueSize, InSize, Window} \subseteq Nat \ {0}
  /\ Limits \subseteq [comers : SUBSET Clients, sends : Nat, moves : Nat]
  /\ Talkers \subseteq Clients

NoState == -1

VARIABLES
  web,       \* which server this is (fixed)
  limits,    \* the bounds (fixed)
  engine,    \* what a snapshot shows
  last,      \* lastState_
  moves,
  list,      \* clients_
  conn,      \* per client: follows, part, out, doomed (poisoned or closing)
  applied,   \* the commands applied for each client
  phase,     \* "poll", "read", "publish"
  todo,      \* clients still to visit in this phase
  ready,     \* those the poll reported
  push,      \* the state changed since the last round
  peer,      \* each client: "away", "waiting", "in", "gone"
  wire,      \* units sent and not yet received
  sends,     \* [n: units, cmds: commands, half: a first half is out]
  inbox,     \* messages in the client's socket
  reading,   \* the client still reads
  got        \* the state it saw last

server == <<last, list, conn, applied, phase, todo, ready, push>>
client == <<peer, wire, sends, inbox, reading, got>>
fixed == <<web, limits>>
vars == <<fixed, engine, moves, server, client>>

NewConn == [follows |-> FALSE, part |-> << >>, out |-> << >>, doomed |-> FALSE]

Init ==
  /\ web \in BOOLEAN /\ limits \in Limits
  /\ engine = 0 /\ last = NoState /\ moves = 0
  /\ list = << >> /\ conn = [c \in Clients |-> NewConn]
  /\ applied = [c \in Clients |-> << >>]
  /\ phase = "poll" /\ todo = << >> /\ ready = {} /\ push = FALSE
  /\ peer = [c \in Clients |-> "away"] /\ wire = [c \in Clients |-> << >>]
  /\ sends = [c \in Clients |-> [n |-> 0, cmds |-> 0, half |-> FALSE]]
  /\ inbox = [c \in Clients |-> << >>] /\ reading = [c \in Clients |-> TRUE]
  /\ got = [c \in Clients |-> NoState]

Listed(c) == c \in ToSet(list)

---------------------------------------------------------------------------
(* The clients and the engine                                              *)

Connect(c) ==
  /\ c \in limits.comers /\ peer[c] = "away" /\ peer' = [peer EXCEPT ![c] = "waiting"]
  /\ UNCHANGED <<fixed, engine, moves, server, wire, sends, inbox, reading, got>>

\* A browser upgrades before it says anything else; between two fragments it may
\* ping, while a line cannot be interrupted.
MaySend(c, kind) ==
  CASE kind = "follow" -> ~sends[c].half /\ (web => sends[c].n = 0)
    [] kind = "last" -> sends[c].half
    [] kind = "ping" -> (web => sends[c].n > 0) /\ (sends[c].half => web)
    [] OTHER -> ~sends[c].half /\ (web => sends[c].n > 0)

Send(c, kind) ==
  /\ peer[c] \in {"waiting", "in"} /\ sends[c].n < limits.sends /\ MaySend(c, kind)
  /\ LET cmd == IF kind \in {"whole", "first"} THEN sends[c].cmds + 1 ELSE sends[c].cmds IN
     /\ wire' = [wire EXCEPT ![c] = Append(@, [kind |-> kind, cmd |-> cmd])]
     /\ sends' = [sends EXCEPT ![c] = [n |-> @.n + 1, cmds |-> cmd,
                    half |-> kind = "first" \/ (@.half /\ kind # "last")]]
  /\ UNCHANGED <<fixed, engine, moves, server, peer, inbox, reading, got>>

HangUp(c) ==
  /\ peer[c] = "in" /\ peer' = [peer EXCEPT ![c] = "gone"]
  /\ UNCHANGED <<fixed, engine, moves, server, wire, sends, inbox, reading, got>>

StopReading(c) ==
  /\ peer[c] = "in" /\ reading[c] /\ reading' = [reading EXCEPT ![c] = FALSE]
  /\ UNCHANGED <<fixed, engine, moves, server, peer, wire, sends, inbox, got>>

Receive(c) ==
  /\ reading[c] /\ inbox[c] # << >>
  /\ inbox' = [inbox EXCEPT ![c] = Tail(@)]
  /\ got' = [got EXCEPT ![c] = IF Head(inbox[c]) = NoState THEN @ ELSE Head(inbox[c])]
  /\ UNCHANGED <<fixed, engine, moves, server, peer, wire, sends, reading>>

\* The render thread, or the other port: the state becomes another, or what it was.
Move ==
  /\ moves < limits.moves /\ moves' = moves + 1
  /\ engine' = 1 - engine
  /\ UNCHANGED <<fixed, server, client>>

---------------------------------------------------------------------------
(* The server                                                              *)

\* send: a full queue dooms the client.  The line server throws the queue and the
\* input away and drops the client on its next visit; the web server closes once
\* the queue is drained.
Queue(cn, m) ==
  IF Len(cn.out) < QueueSize THEN [cn EXCEPT !.out = Append(@, m)]
  ELSE IF web THEN [cn EXCEPT !.doomed = TRUE]
  ELSE [cn EXCEPT !.out = << >>, !.part = << >>, !.doomed = TRUE]

\* Whoever follows starts from what was published last.
Latest == IF last = NoState THEN engine ELSE last

\* One unit of a client, s = [cn, cmds]: the connection and what was applied.
Handle(s, u) ==
  IF s.cn.doomed THEN s
  ELSE CASE u.kind = "follow" -> [s EXCEPT !.cn = Queue([@ EXCEPT !.follows = TRUE], Latest)]
         [] u.kind = "ping" -> [s EXCEPT !.cn = Queue(@, NoState)]
         [] u.kind = "bad" ->
              LET q == Queue(s.cn, NoState)
              IN  [s EXCEPT !.cn = [q EXCEPT !.doomed = q.doomed \/ web]]
         [] u.kind = "whole" -> [s EXCEPT !.cmds = Append(@, u.cmd)]
         [] u.kind = "first" -> [s EXCEPT !.cn.part = <<u.cmd>>]
         [] u.kind = "last" -> [s EXCEPT !.cmds = @ \o s.cn.part, !.cn.part = << >>]

\* Faulty variant: what a read leaves incomplete is forgotten.
HandledAfresh(c) ==
  FoldLeft(Handle, [cn |-> [conn[c] EXCEPT !.part = << >>], cmds |-> applied[c]], wire[c])

Handled(c) == FoldLeft(Handle, [cn |-> conn[c], cmds |-> applied[c]], wire[c])

\* The poll, and the one connection it accepts; only those polled are read.
Poll ==
  /\ phase = "poll" /\ phase' = "read"
  /\ todo' = list
  /\ ready' = {c \in ToSet(list) : wire[c] # << >> \/ peer[c] = "gone"}
  /\ IF \E c \in Clients : peer[c] = "waiting"
       THEN \E c \in Clients :
              /\ peer[c] = "waiting"
              /\ IF Len(list) < MaxClients
                   THEN /\ list' = Append(list, c) /\ peer' = [peer EXCEPT ![c] = "in"]
                        /\ conn' = [conn EXCEPT ![c] = IF web THEN NewConn
                                                       ELSE Queue(NewConn, NoState)]
                   ELSE peer' = [peer EXCEPT ![c] = "gone"] /\ UNCHANGED <<list, conn>>
       ELSE UNCHANGED <<list, conn, peer>>
  /\ UNCHANGED <<fixed, engine, moves, last, applied, push, wire, sends, inbox, reading, got>>

Close(c) ==
  /\ list' = RemoveFirst(list, c)
  /\ conn' = [conn EXCEPT ![c] = NewConn]
  /\ peer' = [peer EXCEPT ![c] = "gone"]

Flooded(c) == Len(conn[c].part) + Len(wire[c]) > InSize

\* A client that hung up is closed before anything it sent is looked at.
ReadClient(c) ==
  /\ phase = "read" /\ todo # << >> /\ c = Head(todo) /\ todo' = Tail(todo)
  /\ IF conn[c].doomed /\ ~web THEN Close(c) /\ UNCHANGED <<applied, wire>>
     ELSE IF c \notin ready THEN UNCHANGED <<list, conn, peer, applied, wire>>
     ELSE IF peer[c] = "gone" \/ (Flooded(c) /\ ~web)
       THEN Close(c) /\ UNCHANGED <<applied, wire>>
     ELSE IF Flooded(c) \/ conn[c].doomed
       THEN /\ conn' = [conn EXCEPT ![c].doomed = TRUE]
            /\ wire' = [wire EXCEPT ![c] = << >>]
            /\ UNCHANGED <<list, peer, applied>>
     ELSE /\ conn' = [conn EXCEPT ![c] = Handled(c).cn]
          /\ applied' = [applied EXCEPT ![c] = Handled(c).cmds]
          /\ wire' = [wire EXCEPT ![c] = << >>]
          /\ UNCHANGED <<list, peer>>
  /\ UNCHANGED <<fixed, engine, moves, last, phase, ready, push, sends, inbox, reading, got>>

\* Faulty variant: what a client was told is taken for what all were told.
ChangedForNone == last = NoState

Changed == engine # last

Publish ==
  /\ phase = "read" /\ todo = << >> /\ todo' = list
  /\ phase' = IF list = << >> THEN "poll" ELSE "publish"
  /\ push' = Changed /\ last' = engine
  /\ UNCHANGED <<fixed, engine, moves, list, conn, applied, ready, client>>

Pushed(c) ==
  IF push /\ conn[c].follows /\ (web => ~conn[c].doomed) THEN Queue(conn[c], last) ELSE conn[c]

ClosesDrained(cn) == web /\ cn.doomed /\ cn.out = << >>

\* The state is queued and as much of the queue is written as the socket takes; a
\* write to a client that is gone may fail.
PublishTo(c) ==
  /\ phase = "publish" /\ todo # << >> /\ c = Head(todo)
  /\ todo' = Tail(todo) /\ phase' = IF Tail(todo) = << >> THEN "poll" ELSE "publish"
  /\ LET cn == Pushed(c)
         room == Window - Len(inbox[c])
         n == IF Len(cn.out) < room THEN Len(cn.out) ELSE room
         rest == [cn EXCEPT !.out = SubSeq(@, n + 1, Len(@))]
     IN \/ /\ peer[c] = "gone" /\ cn.out # << >>
           /\ Close(c) /\ UNCHANGED inbox
        \/ /\ inbox' = [inbox EXCEPT ![c] = @ \o SubSeq(cn.out, 1, n)]
           /\ IF ClosesDrained(rest) THEN Close(c)
              ELSE conn' = [conn EXCEPT ![c] = rest] /\ UNCHANGED <<list, peer>>
  /\ UNCHANGED <<fixed, engine, moves, last, applied, ready, push, wire, sends, reading, got>>

Turn == Poll \/ Publish \/ \E c \in Clients : ReadClient(c) \/ PublishTo(c)

Kinds == {"follow", "whole", "first", "last", "ping", "bad"}

World ==
  \/ Move
  \/ \E c \in Clients :
       \/ Connect(c) \/ HangUp(c)
       \/ c \in Talkers /\ (StopReading(c) \/ \E kind \in Kinds : Send(c, kind))

Next == Turn \/ World \/ \E c \in Clients : Receive(c)

Spec == Init /\ [][Next]_vars

\* The server's thread runs; a client that reads does so in the end.
Fairness == WF_vars(Turn) /\ \A c \in Clients : WF_vars(Receive(c))

FairSpec == Spec /\ Fairness

---------------------------------------------------------------------------
TypeOK ==
  /\ {engine} \subseteq {0, 1} /\ last \in {NoState, 0, 1} /\ moves \in 0 .. limits.moves
  /\ ToSet(list) \subseteq Clients /\ Len(list) <= MaxClients
  /\ \A c \in Clients :
       /\ Len(conn[c].out) <= QueueSize /\ Len(conn[c].part) <= 1
       /\ Len(inbox[c]) <= Window
       /\ peer[c] \in {"away", "waiting", "in", "gone"}
       /\ got[c] \in {NoState, 0, 1}
  /\ phase \in {"poll", "read", "publish"}

\* The commands of a connection are applied in the order they were sent, each once
\* and none skipped, however they are cut up and whatever else the client sends
\* (run's line and frame loops).  What was sent just before hanging up may be lost.
CommandsInOrder ==
  \A c \in Clients : \A i \in 1 .. Len(applied[c]) : applied[c][i] = i

\* A client that follows the state, keeps reading and is not thrown out ends up
\* seeing what the engine shows, whenever it began to follow (lastState_).
FollowersSeeState ==
  \A c \in Clients :
     []<>(~(Listed(c) /\ conn[c].follows /\ reading[c] /\ ~conn[c].doomed) \/ got[c] = engine)

\* "A client that stops reading for ~1 MiB of queued pushes is dropped"
\* (docs/remote-control.md): a doomed client is closed, by the web server only if
\* it reads what was queued before.
DoomedGo ==
  \A c \in Clients : conn[c].doomed ~> (~conn[c].doomed \/ (web /\ ~reading[c]))
=============================================================================
