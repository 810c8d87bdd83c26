---------------------------- MODULE MCControlSide ----------------------------
(***************************************************************************)
(* ControlSide for TLC: the values of its constants, and beside its parts  *)
(* the texts that have no state: what the show file is written in          *)
(* (IniDialect), the lines of the protocol (RequestGrammar), what a        *)
(* browser sends (WireFraming) and the clock (MediaTicks).                 *)
(***************************************************************************)
EXTENDS ControlSide

Text == INSTANCE IniDialect
Framing == INSTANCE WireFraming WITH MaxHead <- 9, MaxBody <- 2, MaxMessage <- 3

Grammar == INSTANCE RequestGrammar WITH Inputs <- 8, Keyers <- 2, MaxFade <- 600

\* Rates with and without a fraction, and one of almost a tick per unit of time.
Clock == INSTANCE MediaTicks
  WITH Second <- 1000, Origin <- 17, Ticks <- 130,
       Rates <- {<<25, 1>>, <<30, 1>>, <<60, 1>>, <<2997, 100>>, <<2400, 101>>, <<7, 3>>, <<999, 1>>}

ASSUME TextAssumption ==
  Grammar!GrammarAssumption /\ Clock!ClockAssumption /\ Framing!FramingAssumption

\* Texts come back from the file as they went, a line of the protocol that is accepted
\* carries only numbers in range, what a browser sends is taken apart in the same way
\* however it arrives, and the ticks tile the time (IniFile, parseLine,
\* parseHttpRequest, parseWsFrame, MediaClock).
TextsMeanWhatTheySay ==
  part = "texts" =>
    /\ Text!TextsSurvive /\ Grammar!AcceptedInRange
    /\ Framing!CutsDoNotMatter /\ Framing!LengthsSurvive /\ Framing!QueriesComeBack
    /\ Clock!TicksTileTime

---------------------------------------------------------------------------
\* Values for the run. Two clients and one place, the second waits while the state
\* changes; and one client that sends more.
PortLimits == {[comers |-> {"c1", "c2"}, sends |-> 1, moves |-> 2],
               [comers |-> {"c1"}, sends |-> 3, moves |-> 0]}

Opt(k, v) == [key |-> k, text |-> v]
Num(k, n) == [key |-> k, number |-> n]
Srt(a, q) == [scheme |-> "srt", auth |-> a, query |-> q]

\* An empty URL, another scheme, a path and values of no field, an address in brackets,
\* one without its closing bracket, a bare host.
PastedUrls ==
  {[scheme |-> "none", auth |-> << >>, query |-> << >>],
   [scheme |-> "other", auth |-> <<"h">>, query |-> << >>],
   Srt(<<"h", ":", "9000", "/", "p">>,
       <<Num("latency", 7), Opt("mode", "late"),
         Opt("passphrase", "secret"), Opt("maxbw", "x")>>),
   Srt(<<"[", ":", ":", "h", "]", ":", "9000">>,
       <<Num("pbkeylen", 17), Num("latency", -1),
         Opt("mode", "rendezvous"), Opt("streamid", "id")>>),
   Srt(<<"[", "h">>, <<Opt("mode", "caller")>>), Srt(<<"h">>, << >>)}

SyncSettings == {-1, 1}

TypedHosts == {<< >>, <<"h">>, <<":", ":", "h">>, <<"[", ":", ":", "h", "]">>}

TypedPhrases == {[text |-> "", length |-> 0], [text |-> "short", length |-> 5],
                 [text |-> "tenletters", length |-> 10]}

AskedShows == {[w |-> 3840, h |-> 2160, n |-> 50, d |-> 1],
               [w |-> 1921, h |-> 1080, n |-> 25, d |-> 0], [w |-> 0, h |-> 2, n |-> 241, d |-> 1]}
=============================================================================
