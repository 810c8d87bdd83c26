---------------------------- MODULE OutputSettings ----------------------------
(***************************************************************************)
(* The OUTPUTS tab (web/WebServer, applySettings and settingsJson) over    *)
(* the address of the SRT output (core/SrtUrl): the URL is the only stored *)
(* form, the page shows the fields it splits into, and an edit of one of   *)
(* them is folded back into it. With it the sizes and rates that the next  *)
(* start takes (Engine::start).                                            *)
(*                                                                         *)
(* A URL is a scheme, an authority (a sequence of tokens) and a query (a   *)
(* sequence of options); latencies are in steps of a quarter of a          *)
(* millisecond, a value that is not a number of its range is -1.           *)
(***************************************************************************)
EXTENDS Integers, SequencesExt

CONSTANTS Pasted,    \* URLs an operator pastes
          Hosts,     \* hosts an operator types, as token sequences
          Phrases,   \* passphrases, each with its length
          Shows,     \* show formats asked for: [w, h, n, d]
          MaxAsks    \* bound: settings messages

Numbered == {"latency", "pbkeylen"}

\* A latency and a key length carry numbers, the other options text.
Options == [key : Numbered, number : Int] \cup [key : STRING \ Numbered, text : STRING]

Urls == [scheme : {"none", "srt", "other"}, auth : Seq(STRING), query : Seq(Options)]

SettingsAssumption ==
  /\ MaxAsks \in Nat \ {0}
  /\ Pasted \subseteq Urls
  /\ Shows \subseteq [w : Int, h : Int, n : Int, d : Int]

VARIABLES stored,   \* cfg.srtUrl
          send,     \* cfg.srtSend
          show,     \* cfg.show
          asked,    \* the field the message last handled edits, with its value
          asks

vars == <<stored, send, show, asked, asks>>

Micros == 4   \* of the unit, in a millisecond
NoUrl == [scheme |-> "none", auth |-> << >>, query |-> << >>]

\* struct SrtUrl: a listener on 9710 at 120 ms.
Defaults == [mode |-> "listener", host |-> << >>, port |-> "9710", latency |-> 120,
             phrase |-> "", keyLen |-> 0, stream |-> "", extra |-> << >>]

Opt(k, v) == [key |-> k, text |-> v]
Num(k, n) == [key |-> k, number |-> n]

Modes == {"listener", "caller", "rendezvous"}
KeyLens == {0, 16, 24, 32}
Ports == {"9710", "9000", "0"}

---------------------------------------------------------------------------
(* SrtUrl::parse.                                                          *)
Upto(s, t) ==
  LET at == {i \in DOMAIN s : s[i] = t}
  IN IF at = {} THEN s ELSE SubSeq(s, 1, (CHOOSE i \in at : \A j \in at : i <= j) - 1)

LastColon(s) ==
  LET at == {i \in DOMAIN s : s[i] = ":"}
  IN IF at = {} THEN Len(s) + 1 ELSE CHOOSE i \in at : \A j \in at : i >= j

PortOf(s) == IF Len(s) = 1 /\ s[1] \in Ports THEN s[1] ELSE "0"

\* The host and the port of an authority; an address in brackets keeps its colons.
HostPort(auth) ==
  LET a == Upto(auth, "/")
      inner == Upto(Tail(a), "]")
      rest == SubSeq(a, Len(inner) + 3, Len(a))
      colon == LastColon(a)
  IN IF a # << >> /\ Head(a) = "["
       THEN [host |-> inner,
             port |-> PortOf(IF rest # << >> /\ Head(rest) = ":" THEN Tail(rest) ELSE << >>)]
       ELSE [host |-> SubSeq(a, 1, colon - 1), port |-> PortOf(SubSeq(a, colon + 1, Len(a)))]

Broken(auth) == auth # << >> /\ Head(auth) = "[" /\ "]" \notin ToSet(Upto(auth, "/"))

\* One option of the query: what has no field, or no value of its field, is kept.
Absorb(f, o) ==
  CASE o.key = "mode" /\ o.text \in Modes -> [f EXCEPT !.mode = o.text]
    [] o.key = "latency" /\ o.number >= 0 ->
         [f EXCEPT !.latency = (o.number + Micros \div 2) \div Micros]
    [] o.key = "passphrase" -> [f EXCEPT !.phrase = o.text]
    [] o.key = "pbkeylen" /\ o.number \in KeyLens -> [f EXCEPT !.keyLen = o.number]
    [] o.key = "streamid" -> [f EXCEPT !.stream = o.text]
    [] OTHER -> [f EXCEPT !.extra = Append(@, o)]

Parse(u) ==
  IF u.scheme # "srt" \/ Broken(u.auth) THEN Defaults
  ELSE LET hp == HostPort(u.auth)
       IN FoldLeft(Absorb,
                   [Defaults EXCEPT !.host = hp.host, !.port = hp.port,
                                    !.mode = "caller", !.latency = 0],
                   u.query)

---------------------------------------------------------------------------
(* SrtUrl::compose.                                                        *)
Bracketed(h) ==
  IF ":" \in ToSet(h) /\ Head(h) # "[" THEN <<"[">> \o h \o <<"]">> ELSE h

If(present, o) == IF present THEN <<o>> ELSE << >>

\* Faulty variant: the latency in the milliseconds of the field.
AsShown(ms) == ms

\* FFmpeg reads microseconds.
Written(ms) == ms * Micros

Compose(f) ==
  [scheme |-> "srt",
   auth |-> Bracketed(f.host) \o <<":", f.port>>,
   query |-> <<Opt("mode", f.mode)>>
               \o If(f.latency > 0, Num("latency", Written(f.latency)))
               \o If(f.phrase # "", Opt("passphrase", f.phrase))
               \o If(f.keyLen > 0, Num("pbkeylen", f.keyLen))
               \o If(f.stream # "", Opt("streamid", f.stream)) \o f.extra]

---------------------------------------------------------------------------
(* applySettings.                                                          *)
Even(n) == n % 2 = 0

\* Engine::start refuses any other.
Startable(s) ==
  s.w >= 2 /\ s.h >= 2 /\ Even(s.w) /\ Even(s.h) /\ s.n > 0 /\ s.d > 0

Within(s) == s.w >= 2 /\ s.h >= 2 /\ Even(s.w) /\ Even(s.h) /\ s.w <= 8192 /\ s.h <= 8192

Kept(s) ==
  [w |-> IF Within(s) THEN s.w ELSE show.w, h |-> IF Within(s) THEN s.h ELSE show.h,
   n |-> IF s.n > 0 /\ s.d > 0 /\ s.n \div s.d <= 240 THEN s.n ELSE show.n,
   d |-> IF s.n > 0 /\ s.d > 0 /\ s.n \div s.d <= 240 THEN s.d ELSE show.d]

NoAsk == << >>

Init ==
  /\ stored = NoUrl /\ send = TRUE
  /\ show = [w |-> 1920, h |-> 1080, n |-> 60000, d |-> 1001]
  /\ asked = NoAsk /\ asks = 0

Ask(a) == asks < MaxAsks /\ asks' = asks + 1 /\ asked' = a

\* The whole URL.
Paste(u) == Ask(NoAsk) /\ stored' = u /\ UNCHANGED <<send, show>>

\* A passphrase outside libsrt's 10..79 characters is refused, none at all is not.
Accepts(field, v) ==
  field = "phrase" => v.length = 0 \/ v.length \in 10 .. 79

Value(field, v) == IF field = "phrase" THEN v.text ELSE v

\* One of the fields: the other options of the stored URL are written back.
Edit(field, v) ==
  /\ Ask([x \in {field} |-> v])
  /\ stored' = Compose(IF Accepts(field, v) THEN [Parse(stored) EXCEPT ![field] = Value(field, v)]
                       ELSE Parse(stored))
  /\ UNCHANGED <<send, show>>

\* A port out of 1..65535, a mode or key length there is not, a '&' or '?': as it was.
Refuse(field) == Ask(NoAsk) /\ UNCHANGED <<stored, send, show>>

\* Switching on with nothing stored starts from a listener.
Switch(on) ==
  /\ Ask(NoAsk) /\ send' = on
  /\ stored' = IF on /\ stored = NoUrl THEN Compose(Defaults) ELSE stored
  /\ UNCHANGED show

SetShow(s) == Ask(NoAsk) /\ show' = Kept(s) /\ UNCHANGED <<stored, send>>

\* What is typed in each field.
Typed ==
  [host |-> Hosts, mode |-> Modes, port |-> Ports \ {"0"}, latency |-> {0, 120, 10000},
   phrase |-> Phrases, keyLen |-> KeyLens, stream |-> {"", "id"},
   extra |-> {<< >>, <<Opt("maxbw", "x")>>}]

Next ==
  \/ \E u \in Pasted : Paste(u)
  \/ \E field \in DOMAIN Typed : \E v \in Typed[field] : Edit(field, v)
  \/ \E field \in {"port", "mode", "keyLen", "host"} : Refuse(field)
  \/ \E on \in BOOLEAN : Switch(on)
  \/ \E s \in Shows : SetShow(s)

Spec == Init /\ [][Next]_vars

---------------------------------------------------------------------------
\* What is stored is a URL, or none, and the next start accepts the show format.
TypeOK ==
  /\ stored.scheme \in {"none", "srt", "other"}
  /\ send \in BOOLEAN /\ asks \in 0 .. MaxAsks
  /\ Startable(show)

\* A host typed in brackets is shown without them.
Bare(h) == IF h # << >> /\ Head(h) = "[" THEN SubSeq(h, 2, Len(h) - 1) ELSE h

Shown(field, v) == IF field = "host" THEN Bare(v) ELSE Value(field, v)

\* After an edit the page shows what was typed in that field, or what it showed when
\* that was refused, and what it showed in every other one: no option of the stored
\* URL, those without a field included, is lost, split or read in another unit on
\* the way through it (applySettings, SrtUrl::parse, SrtUrl::compose). The constants
\* leave out, in Hosts and Typed, what does not survive: a host with a slash, and an
\* option typed among the others whose key has a field of its own, as a second mode=
\* (WebServer.cpp:564, 595-600).
FieldsSurvive ==
  [][asks' # asks =>
       \A f \in DOMAIN asked' :
         Parse(stored') = IF Accepts(f, asked'[f])
                            THEN [Parse(stored) EXCEPT ![f] = Shown(f, asked'[f])]
                            ELSE Parse(stored)]_vars
=============================================================================
