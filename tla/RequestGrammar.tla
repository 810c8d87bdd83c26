---------------------------- MODULE RequestGrammar ----------------------------
(***************************************************************************)
(* What a line of the control protocol may do to the engine                *)
(* (ctl/ControlProtocol, parseLine; ctl/ControlApply, apply): a line is a  *)
(* sequence of words, in lower case; it is refused, ignored, or becomes    *)
(* one request, which apply checks against the engine and turns into a     *)
(* command, a recording request or an audio setting.                       *)
(*                                                                         *)
(* A word is its text and what it reads as: a whole number, a float, both  *)
(* or none. Floats are in thousandths; "nan" and "inf" read as floats.     *)
(***************************************************************************)
EXTENDS Integers, Sequences

CONSTANTS Inputs,     \* inputs of the engine
          Keyers,     \* kDskCount
          MaxFade     \* 600 frames

GrammarAssumption == Inputs \in Nat \ {0} /\ Keyers \in Nat \ {0} /\ MaxFade \in Nat \ {0}

Transitions == <<"mix", "wipelr", "wiperl", "wipetb", "wipebt", "wipebox", "wipecircle">>
OneSecond == 1000

Word(t) == [text |-> t, int |-> {}, float |-> {}]
Fin(v) == [kind |-> "fin", v |-> v]
Whole(n) == [text |-> "number", int |-> {n}, float |-> {Fin(1000 * n)}]
Fraction(v) == [text |-> "number", int |-> {}, float |-> {Fin(v)}]
Odd(kind) == [text |-> kind, int |-> {}, float |-> {[kind |-> kind, v |-> 0]}]

Numbers ==
  {Whole(n) : n \in {-1, 0, 1, Inputs, Inputs + 1, Keyers + 1, MaxFade + 1}}
    \cup {Fraction(v) : v \in {-1, 500, 1001}} \cup {Odd("nan"), Odd("inf")}
Verbs == {Word(t) : t \in {"cut", "auto", "ftb", "ping", "pgm", "preview", "transition", "tbar",
                           "dsk", "media", "record", "clean", "audio", "quit"}}
Actions == {Word(t) : t \in {"begin", "end", "on", "off", "toggle", "src", "fade", "tie", "afv",
                             "play", "pause", "restart", "next", "prev", "loop", "start", "stop",
                             "mute", "solo", "gain", "mix", "wipecircle", "film"}}
Firsts == Numbers \cup {w \in Actions : w.text \in {"begin", "end", "mix", "wipecircle", "film",
                                                     "start", "stop", "toggle"}}
Lasts == Numbers \cup {w \in Actions : w.text \in {"on", "off", "toggle", "film"}}

Seconds == Actions \cup {Whole(0), Whole(MaxFade), Whole(MaxFade + 1), Fraction(500)}

\* Lines with words left over are in it: some verbs refuse them.
Lines ==
  LET Long == {v \in Verbs : v.text \in {"pgm", "transition", "dsk", "media", "audio"}}
  IN {<<v>> : v \in Verbs} \cup {<<v, x>> : v \in Verbs, x \in Firsts}
       \cup {<<v, x, y>> : v \in Long, x \in Firsts, y \in Seconds}
       \cup {<<v, x, y, z>> : v \in Long, x \in Firsts, y \in Seconds, z \in Lasts}

---------------------------------------------------------------------------
(* parseLine: the requests a line may become, none when it is refused.     *)
Above(f, n) == f.kind = "inf" \/ (f.kind = "fin" /\ f.v > n)
Below(f, n) == f.kind = "fin" /\ f.v < n

Finite(w) == {f \in w.float : f.kind = "fin"}

\* Both comparisons are false of a NaN.
FloatIn(w, lo, hi) == {f \in Finite(w) : ~Below(f, lo) /\ ~Above(f, hi)}
IntIn(w, lo, hi) == {n \in w.int : n >= lo /\ n <= hi}

\* Numbered from one on the wire.
Index(w) == {n - 1 : n \in {m \in w.int : m >= 1}}

OnOff(w) == {b \in 0 .. 2 : w.text = <<"off", "on", "toggle">>[b + 1]}

Request(op, a, b, f) == [op |-> op, a |-> a, b |-> b, f |-> f]
Keep == Fin(-1000)

Plain(op) == {Request(op, 0, 0, Fin(0))}

Bus(l) ==
  IF Len(l) # 2 THEN {}
  ELSE {Request(IF l[1].text = "pgm" THEN "program" ELSE "preview", a, 0, Fin(0)) : a \in Index(l[2])}

TransitionOf(l) ==
  {Request("transition", i - 1, b, f) :
     i \in {k \in 1 .. Len(Transitions) : Transitions[k] = l[2].text},
     b \in IF Len(l) >= 3 THEN IntIn(l[3], 1, MaxFade) ELSE {0},
     f \in IF Len(l) >= 4 THEN FloatIn(l[4], 0, OneSecond) ELSE {Keep}}

Tbar(l) ==
  IF Len(l) # 2 THEN {}
  ELSE IF l[2].text \in {"begin", "end"} THEN Plain("tbar" \o l[2].text)
  ELSE {Request("tbarset", 0, 0, f) : f \in FloatIn(l[2], 0, OneSecond)}

\* A bare TIE or AFV toggles.
KeyerFlag(l) ==
  CASE Len(l) = 3 -> {2} [] Len(l) = 4 -> OnOff(l[4]) [] OTHER -> {}

Dsk(l) ==
  LET w == l[3].text
      Of(op, bs) == {Request(op, a, b, Fin(0)) : a \in Index(l[2]), b \in bs}
  IN CASE OnOff(l[3]) # {} -> Of("dsk", OnOff(l[3]))
       [] w = "src" /\ Len(l) = 4 -> Of("dsksrc", Index(l[4]))
       [] w = "fade" /\ Len(l) = 4 -> Of("dskfade", IntIn(l[4], 0, MaxFade))
       [] w \in {"tie", "afv"} -> Of(w, KeyerFlag(l))
       [] OTHER -> {}

Media(l) ==
  LET w == l[3].text
      Of(op, bs) == {Request(op, a, b, Fin(0)) : a \in Index(l[2]), b \in bs}
  IN CASE w \in {"play", "pause", "restart"} -> Of(w, {0})
       [] w = "next" -> Of("step", {1})
       [] w = "prev" -> Of("step", {-1})
       [] w = "loop" /\ Len(l) = 4 -> Of("loop", OnOff(l[4]) \ {2})
       [] OTHER -> {}

Record(l) ==
  IF l[2].text \in {"start", "stop", "toggle"} THEN Plain(l[1].text \o l[2].text) ELSE {}

Audio(l) ==
  LET w == l[3].text
  IN IF Len(l) # 4 THEN {}
     ELSE IF w = "gain"
       THEN {Request(w, a, 0, f) : a \in Index(l[2]), f \in FloatIn(l[4], 0, 4 * OneSecond)}
     ELSE {Request(w, a, b, Fin(0)) :
             a \in Index(l[2]), b \in IF w \in {"mute", "solo"} THEN OnOff(l[4]) ELSE {}}

ParseLine(l) ==
  LET verb == l[1].text
  IN CASE verb \in {"cut", "auto", "ftb", "ping"} -> Plain(verb)
       [] verb \in {"pgm", "preview"} -> Bus(l)
       [] verb = "transition" /\ Len(l) >= 2 -> TransitionOf(l)
       [] verb = "tbar" -> Tbar(l)
       [] verb = "dsk" /\ Len(l) >= 3 -> Dsk(l)
       [] verb = "media" /\ Len(l) >= 3 -> Media(l)
       [] verb \in {"record", "clean"} /\ Len(l) >= 2 -> Record(l)
       [] verb = "audio" /\ Len(l) >= 3 -> Audio(l)
       [] OTHER -> {}

---------------------------------------------------------------------------
(* apply: what the request does, none when it is out of this engine's range*)
(* or there is nothing to do. A recording that is asked for while one runs *)
(* is refused, a toggle stops it.                                          *)
InputOps == {"program", "preview", "play", "pause", "restart", "step", "loop"}
KeyerOps == {"dsk", "dsksrc", "dskfade", "tie", "afv"}

HasInput(i) == i \in 0 .. Inputs - 1
HasKeyer(k) == k \in 0 .. Keyers - 1

RecordTo(feed, op, running) ==
  CASE op = feed \o "stop" \/ (op = feed \o "toggle" /\ running) -> {<<"record", feed, "none">>}
    [] op \in {feed \o "start", feed \o "toggle"} /\ ~running -> {<<"record", feed, "path">>}
    [] OTHER -> {}

\* A flag is flipped or set, from what the mirror shows.
Flag(b, was) == IF b = 2 THEN ~was ELSE b = 1

Apply(r, e) ==
  CASE r.op \in InputOps -> IF HasInput(r.a) THEN {<<"post", r>>} ELSE {}
    [] r.op \in KeyerOps /\ (~HasKeyer(r.a) \/ (r.op = "dsksrc" /\ ~HasInput(r.b))) -> {}
    [] r.op = "dsk" -> IF Flag(r.b, e.on) # e.on THEN {<<"post", r>>} ELSE {}
    [] r.op \in {"tie", "afv"} -> {<<"post", [r EXCEPT !.b = IF Flag(@, e.on) THEN 1 ELSE 0]>>}
    [] r.op = "transition" ->
         {<<"post", [r EXCEPT !.b = IF @ > 0 THEN @ ELSE e.duration,
                              !.f = IF Below(@, 0) THEN e.softness ELSE @]>>}
    [] r.op \in {"mute", "solo", "gain"} -> IF e.audio /\ HasInput(r.a) THEN {<<"store", r>>} ELSE {}
    [] r.op = "ping" -> {}
    [] OTHER -> RecordTo("record", r.op, e.running) \cup RecordTo("clean", r.op, e.running)
                  \cup (IF r.op \in {"cut", "auto", "ftb", "tbarbegin", "tbarend", "tbarset",
                                     "dsksrc", "dskfade"} THEN {<<"post", r>>} ELSE {})

Engines == [on : BOOLEAN, audio : BOOLEAN, running : BOOLEAN,
            duration : {1, MaxFade}, softness : {Fin(0), Fin(1000)}]

---------------------------------------------------------------------------
\* The level a command carries is a number in the range of its verb.
Sound(r) ==
  /\ r.f.kind = "fin" /\ r.f.v \in 0 .. (IF r.op = "gain" THEN 4 * OneSecond ELSE OneSecond)
  /\ r.op \in InputOps \cup {"mute", "solo", "gain"} => HasInput(r.a)
  /\ r.op \in KeyerOps => HasKeyer(r.a)
  /\ r.op = "dsksrc" => HasInput(r.b)
  /\ r.op = "dskfade" => r.b \in 0 .. MaxFade
  /\ r.op = "transition" => r.a \in 0 .. Len(Transitions) - 1 /\ r.b \in 1 .. MaxFade

\* Whatever the line and the state of the engine, what reaches the render thread or
\* the mixer names an input and a keyer there is, and a level, a position, a
\* softness or a duration in its range: no not-a-number, which every range check
\* lets through (parseFloat, apply).
AcceptedInRange ==
  \A l \in Lines : \A r \in ParseLine(l) : \A e \in Engines :
    \A x \in Apply(r, e) : x[1] # "record" => Sound(x[2])
=============================================================================
