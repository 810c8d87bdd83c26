----------------------------- MODULE WireFraming -----------------------------
(***************************************************************************)
(* How the web server takes what a browser sends apart (web/Http and the   *)
(* receiving loop of web/WebServer): requests with their bodies, one after *)
(* the other, and after an upgrade the frames of a WebSocket and the       *)
(* messages they make up; and the parameters of a query.                   *)
(*                                                                         *)
(* What arrives is a sequence of pieces that are received whole: a line of *)
(* a head without its end, "nl" (the end of a line), an element of a body  *)
(* or a payload, the first bytes of a frame, or "mask".                    *)
(***************************************************************************)
EXTENDS Integers, Sequences, SequencesExt, FiniteSetsExt

CONSTANTS MaxHead,     \* kMaxHead
          MaxBody,     \* maxBody
          MaxMessage   \* kMaxWsMessage

FramingAssumption == {MaxHead, MaxBody, MaxMessage} \subseteq Nat

Incomplete == [verdict |-> "incomplete"]
Bad == [verdict |-> "bad"]
Ok(consumed, value) == [verdict |-> "ok", consumed |-> consumed, value |-> value]

---------------------------------------------------------------------------
(* parseHttpRequest. A good request line is "get", a header "host",        *)
(* "upgrade", "len0", "len1" or "len2" (a Content-Length), "lenx" (one     *)
(* that is no number) or "chunked"; "odd" is no request line and no header.*)
LengthOf == [len0 |-> 0, len1 |-> 1, len2 |-> 2]

HeadEnds(in) == {i \in 1 .. Len(in) - 1 : in[i] = "nl" /\ in[i + 1] = "nl"}

\* A repeated header is joined to one value, which is no number any more.
BodyLengths(head) == SelectSeq(head, LAMBDA l : l \in DOMAIN LengthOf \cup {"lenx"})
BodyLength(head) == IF BodyLengths(head) = << >> THEN 0 ELSE LengthOf[Head(BodyLengths(head))]

GoodHead(head) ==
  /\ Len(head) > 0 /\ Head(head) = "get"
  /\ \A i \in 2 .. Len(head) : head[i] \notin {"odd", "get", "x", "chunked", "lenx"}
  /\ Len(BodyLengths(head)) <= 1
  /\ BodyLength(head) <= MaxBody

ParseHttp(in) ==
  IF HeadEnds(in) = {} THEN IF Len(in) > MaxHead THEN Bad ELSE Incomplete
  ELSE LET end == Min(HeadEnds(in)) - 1
           head == SelectSeq(SubSeq(in, 1, end), LAMBDA l : l # "nl")
           total == end + 2 + BodyLength(head)
       IN CASE end > MaxHead \/ (end > 0 /\ in[1] = "nl") \/ ~GoodHead(head) -> Bad
            [] Len(in) < total -> Incomplete
            [] OTHER -> Ok(total, [head |-> ToSet(head), body |-> SubSeq(in, end + 3, total)])

---------------------------------------------------------------------------
(* parseWsFrame, with the mask taken off. The first bytes of a frame are   *)
(* named, and this is what they say.                                       *)
First(op, fin, len) == [op |-> op, fin |-> fin, len |-> len, rsv |-> FALSE, masked |-> TRUE]

FirstBytes ==
  [text |-> First(1, TRUE, 1), textBegin |-> First(1, FALSE, 1), bytes |-> First(2, TRUE, 1),
   bytesBegin |-> First(2, FALSE, 1), more |-> First(0, FALSE, 1), last |-> First(0, TRUE, 1),
   lastLong |-> First(0, TRUE, 2), ping |-> First(9, TRUE, 1), pingBegin |-> First(9, FALSE, 1),
   close |-> First(8, TRUE, 0), large |-> First(1, TRUE, MaxMessage + 1),
   bare |-> [First(1, TRUE, 1) EXCEPT !.masked = FALSE], odd3 |-> First(3, TRUE, 1)]

Control == 8 .. 15

BadFrame(f) ==
  \/ f.rsv \/ ~f.masked \/ f.len > MaxMessage
  \/ f.op \in Control /\ (f.len > 125 \/ ~f.fin)

ParseWs(in) ==
  IF in = << >> THEN Incomplete
  ELSE LET f == FirstBytes[Head(in)]
       IN CASE BadFrame(f) -> Bad
            [] ~BadFrame(f) /\ Len(in) < 2 + f.len -> Incomplete
            [] OTHER -> Ok(2 + f.len, [op |-> f.op, fin |-> f.fin, payload |-> SubSeq(in, 3, 2 + f.len)])

\* The first bytes of a frame of n bytes, as the server writes them (wsFrame), and
\* the length read from them.
WsLengthBytes(n) ==
  CASE n < 126 -> <<n>>
    [] n \in 126 .. 65535 -> <<126, n \div 256, n % 256>>
    [] OTHER -> <<127>> \o [i \in 1 .. 8 |-> IF i < 5 THEN 0 ELSE (n \div 256 ^ (8 - i)) % 256]

WsLength(b) ==
  IF b[1] < 126 THEN b[1] ELSE FoldLeft(LAMBDA acc, x : acc * 256 + x, 0, Tail(b))

---------------------------------------------------------------------------
(* The receiving loop. A connection keeps what is not taken apart yet and  *)
(* the fragments of a message.                                             *)
Fresh == [in |-> << >>, ws |-> FALSE, closing |-> FALSE, op |-> 0, fragments |-> << >>,
          handled |-> << >>]

Handled(c, what, text) == [c EXCEPT !.handled = Append(@, [what |-> what, text |-> text])]
Refused(c) == [c EXCEPT !.closing = TRUE]

Request(c, r) ==
  IF "upgrade" \in r.head THEN [c EXCEPT !.ws = TRUE] ELSE Handled(c, "request", r.body)

Continued(c, f) ==
  LET all == c.fragments \o f.payload
      whole == IF c.op = 1 THEN Handled(c, "text", all) ELSE c
  IN CASE Len(all) > MaxMessage -> [c EXCEPT !.fragments = all, !.closing = TRUE]
       [] Len(all) <= MaxMessage /\ f.fin -> [whole EXCEPT !.fragments = << >>, !.op = 0]
       [] OTHER -> [c EXCEPT !.fragments = all]

Frame(c, f) ==
  CASE f.op = 0 -> Continued(c, f)
    [] f.op \in {1, 2} /\ ~f.fin -> [c EXCEPT !.op = f.op, !.fragments = f.payload]
    [] f.op = 1 /\ f.fin -> Handled(c, "text", f.payload)
    [] f.op = 9 -> Handled(c, "pong", f.payload)
    [] f.op = 10 \/ (f.op = 2 /\ f.fin) -> c
    [] OTHER -> Refused(c)

\* One turn of the loop: a request or a frame is taken off, if all of it is there.
TakeApart(c) ==
  LET p == IF c.ws THEN ParseWs(c.in) ELSE ParseHttp(c.in)
      rest == [c EXCEPT !.in = SubSeq(@, p.consumed + 1, Len(@))]
  IN CASE c.closing \/ p.verdict = "incomplete" -> c
       [] ~c.closing /\ p.verdict = "bad" -> Refused(c)
       [] OTHER -> IF c.ws THEN Frame(rest, p.value) ELSE Request(rest, p.value)

\* A turn that does anything takes an element at least, so these are enough.
Work(c) == FoldLeft(LAMBDA d, x : TakeApart(d), c, c.in)

\* Nothing is looked at once the connection is to be closed.
Receive(c, bytes) == IF c.closing THEN c ELSE Work([c EXCEPT !.in = @ \o bytes])

---------------------------------------------------------------------------
(* percentDecode and queryParam, over character codes.                     *)
HexVal(c) == CASE c \in 48 .. 57 -> c - 48 [] c \in 97 .. 102 -> c - 87
               [] c \in 65 .. 70 -> c - 55 [] OTHER -> -1

Escape(s, i) == s[i] = 37 /\ i + 2 <= Len(s) /\ HexVal(s[i + 1]) >= 0 /\ HexVal(s[i + 2]) >= 0

PercentDecode(s) ==
  LET from[i \in 1 .. Len(s) + 1] ==
        IF i > Len(s) THEN << >>
        ELSE IF Escape(s, i) THEN <<HexVal(s[i + 1]) * 16 + HexVal(s[i + 2])>> \o from[i + 3]
        ELSE <<s[i]>> \o from[i + 1]
  IN from[1]

\* The first of c in s, or the place after its end.
Find(s, c) == Min({i \in 1 .. Len(s) : s[i] = c} \cup {Len(s) + 1})

\* The value of the first pair that has the key; a pair begins at the start and after
\* every '&'.
QueryParam(query, key) ==
  LET begins == {1} \cup {i + 1 : i \in {j \in 1 .. Len(query) : query[j] = 38}}
      PairAt(i) == SubSeq(query, i, i + Find(SubSeq(query, i, Len(query)), 38) - 2)
      KeyAt(i) == SubSeq(PairAt(i), 1, Find(PairAt(i), 61) - 1)
      hits == {i \in begins : KeyAt(i) = key}
      pair == PairAt(Min(hits))
      value == PercentDecode(SubSeq(pair, Find(pair, 61) + 1, Len(pair)))
  IN IF hits = {} THEN << >> ELSE [i \in DOMAIN value |-> IF value[i] = 43 THEN 32 ELSE value[i]]

---------------------------------------------------------------------------
(* Properties, over bounded inputs.                                        *)
Ended(lines) == FlattenSeq([i \in DOMAIN lines |-> <<lines[i], "nl">>]) \o <<"nl">>
Heads == {<<"get">>, <<"odd">>, <<"get", "host", "len2">>, <<"get", "odd">>, <<"get", "len1">>,
          <<"get", "len1", "len1">>, <<"get", "len0", "chunked">>, <<"get", "lenx">>,
          <<"get", "host", "host", "host", "host">>, <<"get", "host", "host", "host", "host", "host">>}
Requests == {Ended(h) \o b : h \in Heads, b \in {<< >>, <<"x">>, <<"x", "nl">>}}

Frames == {<<f, "mask">> \o [i \in 1 .. FirstBytes[f].len |-> f] : f \in DOMAIN FirstBytes}

Streams == {r \o s : r, s \in Requests}
             \cup {Ended(<<"get", "upgrade">>) \o f \o g \o h : f, g, h \in Frames}

\* Where a stream is cut does not matter: what was handled, and what is kept, is the
\* same however it arrives. The one exception is a head as long as is allowed: with
\* part of the end behind it, it is too long while it is incomplete.
HeadFits(s) == \A i \in HeadEnds(s) : i - 1 # MaxHead
CutsDoNotMatter ==
  \A s \in {t \in Streams : HeadFits(t)}, cut \in 1 .. 12 :
    cut < Len(s) =>
      LET parts == Receive(Receive(Fresh, SubSeq(s, 1, cut)), SubSeq(s, cut + 1, Len(s)))
          whole == Receive(Fresh, s)
      IN parts.handled = whole.handled /\ parts.closing = whole.closing
           /\ (~whole.closing => parts = whole)

\* A length comes back from the bytes it is written in, at every change of their form.
LengthsSurvive ==
  \A n \in {0, 1, 125, 126, 127, 255, 256, 65535, 65536, 16777216} : WsLength(WsLengthBytes(n)) = n

\* A parameter that was escaped comes back, as long as it has no plus sign.
Hex(d) == IF d < 10 THEN 48 + d ELSE 55 + d
Escaped(s) ==
  FlattenSeq([i \in DOMAIN s |-> IF s[i] \in {37, 38, 61, 47, 32}
                                 THEN <<37, Hex(s[i] \div 16), Hex(s[i] % 16)>> ELSE <<s[i]>>])
QueriesComeBack ==
  \A v \in BoundedSeq({37, 38, 61, 47, 50, 65}, 4),
     before \in {<< >>, <<75, 61, 50, 38>>, <<75, 38>>} :
    QueryParam(before \o <<80, 61>> \o Escaped(v), <<80>>) = v
=============================================================================
