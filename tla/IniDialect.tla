------------------------------ MODULE IniDialect ------------------------------
(***************************************************************************)
(* The dialect of the show file: how IniFile writes a text and a list of   *)
(* texts as one value, and what it reads back from it.                     *)
(*                                                                         *)
(* A text is a sequence of characters, one of each sort the dialect tells  *)
(* apart: "a" and "1" are hexadecimal digits, "z" is any other letter (of  *)
(* the escapes, "n" and "x"), "," also a semicolon or an equals sign, "nl" *)
(* a newline, "ctl" the control character 1, "Inv" the rest of the marker  *)
(* @Invalid().                                                             *)
(***************************************************************************)
EXTENDS Integers, Sequences, SequencesExt

Hex == {"a", "1"}
Invalid == <<"@", "Inv">>

------------------------------------------------------------------------------
(* Writing *)

\* Faulty variant: nothing keeps a hexadecimal digit apart from the escape before it.
CharGreedy(s, i) ==
    CASE s[i] \in {"\\", "\""} -> <<"\\", s[i]>>
      [] s[i] = "nl" -> <<"\\", "n">>
      [] s[i] = "ctl" -> <<"\\", "x", "1">>
      [] OTHER -> <<s[i]>>

\* An escape of a control character is read to the last digit, so a pair of
\* quotes ends it where a digit follows.
CharOut(s, i) ==
    CASE s[i] \in {"\\", "\""} -> <<"\\", s[i]>>
      [] s[i] = "nl" -> <<"\\", "n">>
      [] s[i] = "ctl" ->
            <<"\\", "x", "1">> \o (IF i < Len(s) /\ s[i + 1] \in Hex THEN <<"\"", "\"">> ELSE << >>)
      [] OTHER -> <<s[i]>>

NeedsQuotes(s) ==
    \/ Head(s) = " " \/ Last(s) = " "
    \/ \E i \in DOMAIN s : s[i] = "," \/ Len(CharOut(s, i)) = 5

EscapeValue(s, inList) ==
    IF s = << >> THEN << >>
    ELSE LET body == (IF ~inList /\ Head(s) = "@" THEN <<"@">> ELSE << >>) \o
                     FlattenSeq([i \in DOMAIN s |-> CharOut(s, i)])
         IN  IF NeedsQuotes(s) THEN <<"\"">> \o body \o <<"\"">> ELSE body

EscapeList(items) ==
    IF items = << >> THEN Invalid
    ELSE FlattenSeq([i \in DOMAIN items |->
            (IF i > 1 THEN <<",", " ">> ELSE << >>) \o EscapeValue(items[i], TRUE)])

\* setList joins the items, save splits them again: one empty item is none.
Kept(items) == IF items = <<(<< >>)>> THEN << >> ELSE items

------------------------------------------------------------------------------
(* Reading *)

Scan0 == [mode |-> "text", quoted |-> FALSE, digits |-> << >>, cur |-> << >>, items |-> << >>]

\* The character of an escape: n is a newline, any other stands for itself.
Plain(c) == IF c = "n" THEN "nl" ELSE c

\* The character of a hexadecimal escape; "?" is one no text here has.
Code(digits) == IF digits = <<"1">> THEN "ctl" ELSE "?"

Flushed(st) ==
    IF st.mode # "hex" THEN st
    ELSE [st EXCEPT !.mode = "text", !.digits = << >>,
                    !.cur = IF st.digits = << >> THEN @ ELSE Append(@, Code(st.digits))]

Text(st, c) ==
    CASE c = "\"" -> [st EXCEPT !.quoted = ~@]
      [] c = "\\" -> [st EXCEPT !.mode = "escape"]
      [] c = "," /\ ~st.quoted ->
            [st EXCEPT !.items = Append(@, st.cur), !.cur = << >>, !.mode = "gap"]
      [] OTHER -> [st EXCEPT !.cur = Append(@, c)]

\* One character of unescapeValue: in an escape, in its digits, in the blanks
\* after a comma, or in the text.
Scan(st, c) ==
    CASE st.mode = "escape" /\ c = "x" -> [st EXCEPT !.mode = "hex"]
      [] st.mode = "escape" /\ c # "x" -> [st EXCEPT !.mode = "text", !.cur = Append(@, Plain(c))]
      [] st.mode = "hex" /\ c \in Hex -> [st EXCEPT !.digits = Append(@, c)]
      [] st.mode = "gap" /\ c = " " -> st
      [] OTHER -> Text([Flushed(st) EXCEPT !.mode = "text"], c)

TrimRight(s) ==
    LET kept == {i \in DOMAIN s : s[i] # " "} IN
    SubSeq(s, 1, IF kept = {} THEN 0 ELSE CHOOSE i \in kept : \A j \in kept : j <= i)

\* A value with a comma outside quotes is a list, of items without trailing blanks.
UnescapeValue(raw) ==
    IF raw = Invalid THEN [list |-> TRUE, items |-> << >>]
    ELSE LET literal == Len(raw) >= 2 /\ raw[1] = "@" /\ raw[2] = "@"
             end == Flushed(FoldLeft(Scan, Scan0, IF literal THEN Tail(raw) ELSE raw))
             all == Append(end.items, end.cur)
         IN  IF end.items = << >> THEN [list |-> FALSE, items |-> all]
             ELSE [list |-> TRUE, items |-> [i \in DOMAIN all |-> TrimRight(all[i])]]

\* load: a line's value without the blanks around it.
LoadValue(raw) == UnescapeValue(Reverse(TrimRight(Reverse(TrimRight(raw)))))

GetString(v) == IF v.list THEN FoldLeft(LAMBDA t, i : t \o <<",">> \o i, << >>, v.items) ELSE Head(v.items)

\* getList: a scalar is a list of one, an empty one a list of none.
GetList(v) == IF v.list THEN Kept(v.items) ELSE IF v.items = <<(<< >>)>> THEN << >> ELSE v.items

------------------------------------------------------------------------------
(* Properties *)

Chars == {"a", "z", ",", " ", "@", "\"", "\\", "nl", "ctl"}
Texts == BoundedSeq(Chars, 3) \cup [1..4 -> {"a", "ctl", " ", ",", "\\"}]
Names == BoundedSeq(Chars, 2) \ {<< >>}

\* The two ways the marks fail: one that is written inside the quotes of its
\* text is not seen, and a list is not marked but read as if it were.
HiddenMark(s) == s # << >> /\ Head(s) = "@" /\ NeedsQuotes(s)
FalseMark(items) == IsPrefix(<<"@", "@">>, Head(items)) /\ ~NeedsQuotes(Head(items))

\* But for these a text comes back from the file as it was saved, and so does a
\* playlist of names that do not end in a blank: the patches, URLs and clip names
\* an operator typed are the ones the next start uses, whatever punctuation is in
\* them.
TextsSurvive ==
    /\ \A s \in Texts : ~HiddenMark(s) => GetString(LoadValue(EscapeValue(s, FALSE))) = s
    /\ \A items \in {<<s>> : s \in Names} \cup (Names \X Names) :
          (\A i \in DOMAIN items : Last(items[i]) # " ") /\ ~FalseMark(items)
          => GetList(LoadValue(EscapeList(Kept(items)))) = items
=============================================================================
