----------------------------- MODULE MCEngineLoop -----------------------------
(* Requests for TLC: one of every kind, on two inputs and one keyer. *)
EXTENDS EngineLoop

Request(op, a, b) == [op |-> op, a |-> a, b |-> b]

EveryKind ==
    {Request("SetProgram", 1, 0), Request("SetPreview", 2, 0), Request("Cut", 0, 0),
     Request("Auto", 0, 0), Request("TbarBegin", 0, 0), Request("TbarSet", 1, 0),
     Request("TbarSet", Full, 0), Request("FadeToBlack", 0, 0),
     Request("SetTransition", 0, 0), Request("DskSet", 0, "ON"),
     Request("DskSet", 0, "OFF"), Request("DskSet", 0, "TOGGLE"),
     Request("DskTie", 0, "TOGGLE"), Request("SetDskSource", 0, 2),
     Request("SetDskFade", 0, 2)}

OnOnly == {Request("DskSet", 0, "ON")}
==============================================================================
