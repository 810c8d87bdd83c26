-------------------------- MODULE ControlSideProofs --------------------------
(***************************************************************************)
(* Theorems about the parts between an operator and the engine, for every  *)
(* value of the constants: a part after the other, then all of them.       *)
(***************************************************************************)
EXTENDS ControlSide, FiniteSetTheorems, WellFoundedInduction, TLAPS

---------------------------------------------------------------------------
(* A loop over a sequence                                                  *)

\* A set of naturals that is not empty has a least one.
LEMMA LeastNat ==
  ASSUME NEW S \in SUBSET Nat, S # {}
  PROVE  \E n \in S : \A m \in S : n <= m
  <1> DEFINE Upto == {0 .. n : n \in S}
             Less == StrictSubsetOrdering(Nat)
  <1>1. PICK i \in Upto : \A j \in Upto : ~(<<j, i>> \in Less)
    <2>1. Upto \subseteq FiniteSubsetsOf(Nat) /\ Upto # {}
      <3>1. \A n \in S : 0 .. n \in SUBSET Nat /\ IsFiniteSet(0 .. n)
        BY FS_Interval
      <3> QED BY <3>1 DEF FiniteSubsetsOf
    <2> HIDE DEF Upto, Less
    <2> QED BY <2>1, FS_StrictSubsetOrderingWellFounded, WFMin DEF Less
  <1>2. PICK n \in S : i = 0 .. n
    BY <1>1
  <1>3. ASSUME NEW m \in S, m < n PROVE FALSE
    <2>1. /\ 0 .. m \in SUBSET Nat /\ 0 .. n \in SUBSET Nat
          /\ 0 .. m \subseteq 0 .. n /\ n \in 0 .. n /\ n \notin 0 .. m
      BY <1>3
    <2>2. 0 .. m \in Upto /\ 0 .. m # 0 .. n
      BY <2>1
    <2>3. <<0 .. m, 0 .. n>> \in Less
      BY <2>1, <2>2, Zenon DEF StrictSubsetOrdering
    <2> QED BY <1>1, <1>2, <2>2, <2>3
  <1> QED BY <1>3

Top(S) == CHOOSE x \in S : \A y \in S : x >= y

\* The greatest of a set that reaches up to n.
LEMMA TopIs ==
  ASSUME NEW n \in Nat \ {0}, NEW S \in SUBSET (1 .. n), n \in S
  PROVE  Top(S) = n /\ S \ {n} \in SUBSET (1 .. n - 1)
  <1>1. \A y \in S : n >= y
    OBVIOUS
  <1>2. ASSUME NEW x \in S, \A y \in S : x >= y PROVE x = n
    BY <1>2
  <1>3. S \ {n} \in SUBSET (1 .. n - 1)
    OBVIOUS
  <1> QED BY <1>1, <1>2, <1>3 DEF Top

\* A set of places that is not empty has a greatest one.
LEMMA TopExists ==
  ASSUME NEW n \in Nat, NEW S \in SUBSET (1 .. n), S # {}
  PROVE  Top(S) \in S
  <1> DEFINE Rest == {n - i : i \in S}
  <1>0. \A i \in S : n - i \in Nat
    OBVIOUS
  <1>1. Rest \in SUBSET Nat /\ Rest # {}
    BY <1>0
  <1>2. PICK k \in Rest : \A m \in Rest : k <= m
    <2> HIDE DEF Rest
    <2> QED BY <1>1, LeastNat
  <1>3. PICK i \in S : k = n - i
    OBVIOUS
  <1>4. ASSUME NEW j \in S PROVE i >= j
    <2>1. n - j \in Rest
      OBVIOUS
    <2>2. n - i <= n - j
      BY <1>2, <1>3, <2>1
    <2> QED BY <2>2
  <1> QED BY <1>4 DEF Top

\* The function a fold of the sequence w from b is defined by.
Folds(g, b, h, w, n) ==
  g = [S \in SUBSET (1 .. n) |->
         IF S = {} THEN b ELSE h[<<g[S \ {Top(S)}], w[Top(S)]>>]]

\* There is one, for a step h that stays in A.
LEMMA FoldExists ==
  ASSUME NEW A, NEW B, NEW b \in A, NEW h \in [A \X B -> A], NEW w \in Seq(B)
  PROVE  \E g \in [SUBSET (1 .. Len(w)) -> A] : Folds(g, b, h, w, Len(w))
  <1> DEFINE Good(n) == \E g \in [SUBSET (1 .. n) -> A] : Folds(g, b, h, w, n)
             Bad == {n \in 0 .. Len(w) : ~Good(n)}
  <1>0. Len(w) \in 0 .. Len(w)
    OBVIOUS
  <1> SUFFICES ASSUME Bad # {} PROVE FALSE
    <2>1. Len(w) \notin Bad => Good(Len(w))
      BY <1>0
    <2>2. Len(w) \notin Bad => \E g \in [SUBSET (1 .. Len(w)) -> A] : Folds(g, b, h, w, Len(w))
      BY <2>1
    <2> HIDE DEF Bad, Good
    <2> QED BY <2>2
  <1>1. PICK n \in Bad : \A m \in Bad : n <= m
    <2>1. Bad \in SUBSET Nat
      OBVIOUS
    <2> HIDE DEF Bad
    <2> QED BY <2>1, LeastNat
  <1>2. n \in 0 .. Len(w) /\ ~Good(n)
    OBVIOUS
  <1>3. n # 0
    <2> SUFFICES ASSUME n = 0 PROVE Good(0)
      BY <1>2
    <2> DEFINE g == [S \in SUBSET (1 .. 0) |-> b]
    <2>1. \A S \in SUBSET (1 .. 0) : S = {}
      OBVIOUS
    <2>2. g \in [SUBSET (1 .. 0) -> A]
      OBVIOUS
    <2>3. Folds(g, b, h, w, 0)
      BY <2>1 DEF Folds
    <2> HIDE DEF g
    <2> QED BY <2>2, <2>3
  <1>4. n \in Nat \ {0} /\ n - 1 \in 0 .. Len(w) /\ ~(n <= n - 1)
    BY <1>2, <1>3
  <1>5. Good(n - 1)
    BY <1>1, <1>4
  <1>6. PICK g \in [SUBSET (1 .. n - 1) -> A] : Folds(g, b, h, w, n - 1)
    BY <1>5
  <1> HIDE DEF Good, Bad
  <1> DEFINE f == [S \in SUBSET (1 .. n) |->
                     IF n \in S THEN h[<<g[S \ {n}], w[n]>>] ELSE g[S]]
  <1>7. \A S \in SUBSET (1 .. n) : n \notin S => S \in SUBSET (1 .. n - 1)
    BY <1>4
  <1>8. w[n] \in B
    BY <1>2, <1>4
  <1>9. \A S \in SUBSET (1 .. n) : n \in S => Top(S) = n /\ S \ {n} \in SUBSET (1 .. n - 1)
    BY <1>4, TopIs
  <1>10. f \in [SUBSET (1 .. n) -> A]
    BY <1>6, <1>7, <1>8, <1>9
  <1>11. ASSUME NEW S \in SUBSET (1 .. n)
         PROVE  f[S] = IF S = {} THEN b ELSE h[<<f[S \ {Top(S)}], w[Top(S)]>>]
    <2>1. CASE n \in S
      <3>1. f[S] = h[<<g[S \ {n}], w[n]>>]
        BY <2>1
      <3>2. S \ {n} \in SUBSET (1 .. n) /\ n \notin S \ {n}
        OBVIOUS
      <3>3. f[S \ {n}] = g[S \ {n}]
        BY <3>2
      <3> HIDE DEF f
      <3> QED BY <1>9, <2>1, <3>1, <3>3
    <2>2. CASE n \notin S
      <3>1. f[S] = g[S] /\ S \in SUBSET (1 .. n - 1)
        BY <1>7, <2>2
      <3>2. g[S] = IF S = {} THEN b ELSE h[<<g[S \ {Top(S)}], w[Top(S)]>>]
        BY <1>6, <3>1 DEF Folds
      <3>3. S \ {Top(S)} \in SUBSET (1 .. n) /\ n \notin S \ {Top(S)}
        BY <2>2
      <3>4. f[S \ {Top(S)}] = g[S \ {Top(S)}]
        BY <3>3
      <3> HIDE DEF f
      <3> QED BY <3>1, <3>2, <3>4
    <2> QED BY <2>1, <2>2
  <1>12. f = [S \in SUBSET (1 .. n) |->
                IF S = {} THEN b ELSE h[<<f[S \ {Top(S)}], w[Top(S)]>>]]
    <2> DEFINE e == [S \in SUBSET (1 .. n) |->
                       IF S = {} THEN b ELSE h[<<f[S \ {Top(S)}], w[Top(S)]>>]]
    <2>1. \A S \in SUBSET (1 .. n) : f[S] = e[S]
      <3> HIDE DEF f
      <3> QED BY <1>11
    <2>2. f = [S \in SUBSET (1 .. n) |-> f[S]]
      OBVIOUS
    <2>3. e = [S \in SUBSET (1 .. n) |-> e[S]]
      OBVIOUS
    <2> HIDE DEF f, e
    <2>4. f = e
      BY <2>1, <2>2, <2>3, Zenon
    <2> QED BY <2>4 DEF e
  <1>13. Folds(f, b, h, w, n)
    <2> HIDE DEF f
    <2> QED BY <1>12 DEF Folds
  <1> HIDE DEF f
  <1>14. Good(n)
    BY <1>10, <1>13 DEF Good
  <1> QED BY <1>2, <1>14

\* The first n of N items: the last of them, and those before it.
LEMMA Prefixes ==
  ASSUME NEW N \in Nat, NEW n \in 1 .. N
  PROVE  /\ n \in Nat \ {0} /\ 1 .. n # {} /\ 1 .. n \in SUBSET (1 .. N)
         /\ Top(1 .. n) = n /\ (1 .. n) \ {n} = 1 .. n - 1
  <1>1. n \in Nat \ {0} /\ n \in 1 .. n /\ n <= N
    OBVIOUS
  <1>2. 1 .. n \in SUBSET (1 .. N) /\ 1 .. n \in SUBSET (1 .. n) /\ 1 .. n # {}
    BY <1>1
  <1>3. (1 .. n) \ {n} = 1 .. n - 1
    BY <1>1
  <1> QED BY <1>1, <1>2, <1>3, TopIs

\* A list reads back from the file as it was written: no name of a file is empty.
LEMMA ListReadsBack ==
  ASSUME SideAssumption, NEW l \in Seq(Clips)
  PROVE  Save!DecodeList(Save!EncodeList(l)) = l
  <1>1. "" \notin Clips
    BY SideAssumption DEF SideAssumption, Save!SaveAssumption
  <1>2. CASE Len(l) = 0
    <2>1. Save!EncodeList(l) = [form |-> "invalid", text |-> << >>]
      BY <1>2 DEF Save!EncodeList
    <2>2. Save!EncodeList(l).form = "invalid"
      BY <2>1
    <2>3. Save!DecodeList(Save!EncodeList(l)) = << >>
      BY <2>2 DEF Save!DecodeList
    <2> QED BY <1>2, <2>3
  <1>3. CASE Len(l) # 0
    <2>1. Save!EncodeList(l).form # "invalid" /\ Save!EncodeList(l).text = l
      BY <1>3 DEF Save!EncodeList
    <2> DEFINE h == [p \in Seq(Clips) \X Clips |-> Append(p[1], p[2])]
               N == Len(l)
               taken(k, x) == IF x = "" THEN k ELSE Append(k, x)
               Iter(g) == g = [S \in SUBSET DOMAIN l |->
                                 IF S = {} THEN << >>
                                 ELSE LET m == Save!Max(S) IN taken(g[S \ {m}], l[m])]
    <2>2. Save!DecodeList(Save!EncodeList(l)) = (CHOOSE g : Iter(g))[DOMAIN l]
      BY <2>1 DEF Save!DecodeList, Save!FoldLeft, Save!MapThenFoldSet
    <2>3. DOMAIN l = 1 .. N /\ N \in Nat
      OBVIOUS
    <2>4. h \in [Seq(Clips) \X Clips -> Seq(Clips)] /\ << >> \in Seq(Clips)
      OBVIOUS
    <2>5. \A k \in Seq(Clips), x \in Clips : h[<<k, x>>] = taken(k, x)
      BY <1>1
    <2> HIDE DEF h
    <2>6. PICK g \in [SUBSET (1 .. N) -> Seq(Clips)] : Folds(g, << >>, h, l, N)
      BY <2>4, FoldExists
    <2>7. Iter(g)
      <3> DEFINE e == [S \in SUBSET (1 .. N) |->
                         IF S = {} THEN << >> ELSE taken(g[S \ {Top(S)}], l[Top(S)])]
                 k == [S \in SUBSET (1 .. N) |->
                         IF S = {} THEN << >> ELSE h[<<g[S \ {Top(S)}], l[Top(S)]>>]]
      <3>1. ASSUME NEW S \in SUBSET (1 .. N), S # {}
            PROVE  taken(g[S \ {Top(S)}], l[Top(S)]) = h[<<g[S \ {Top(S)}], l[Top(S)]>>]
        <4>1. Top(S) \in 1 .. N /\ S \ {Top(S)} \in SUBSET (1 .. N)
          BY <2>3, <3>1, TopExists
        <4>2. g[S \ {Top(S)}] \in Seq(Clips) /\ l[Top(S)] \in Clips
          BY <2>6, <4>1
        <4> QED BY <2>5, <4>2
      <3>2. e = k
        <4> HIDE DEF taken
        <4> QED BY <3>1
      <3>3. g = e
        BY <2>6, <3>2 DEF Folds
      <3> HIDE DEF e, k, h
      <3>4. \A S : Save!Max(S) = Top(S)
        BY DEF Save!Max, Top
      <3> QED BY <2>3, <3>3, <3>4 DEF e
    <2>8. PICK f : f = (CHOOSE it : Iter(it)) /\ Iter(f)
      BY <2>7
    <2>9. \A S : Save!Max(S) = Top(S)
      BY DEF Save!Max, Top
    <2>10. f[1 .. 0] = << >> /\ \A n \in 1 .. N : f[1 .. n] = taken(f[1 .. n - 1], l[n])
      <3> HIDE DEF N
      <3>1. f[1 .. 0] = << >>
        <4>1. 1 .. 0 = {} /\ {} \in SUBSET DOMAIN l
          OBVIOUS
        <4> QED BY <2>8, <4>1
      <3>2. ASSUME NEW n \in 1 .. N PROVE f[1 .. n] = taken(f[1 .. n - 1], l[n])
        <4>0. N \in Nat
          BY <2>3
        <4>1. /\ n \in Nat \ {0} /\ 1 .. n # {} /\ 1 .. n \in SUBSET DOMAIN l
              /\ Top(1 .. n) = n /\ (1 .. n) \ {n} = 1 .. n - 1
          BY <2>3, <4>0, Prefixes
        <4> HIDE DEF taken
        <4> QED BY <2>8, <2>9, <4>1
      <3> QED BY <3>1, <3>2
    <2> HIDE DEF Iter, N
    <2> DEFINE Bad == {n \in 0 .. N : f[1 .. n] # SubSeq(l, 1, n)}
    <2>11. ASSUME Bad # {} PROVE FALSE
      <3>1. PICK n \in Bad : \A m \in Bad : n <= m
        <4>1. Bad \in SUBSET Nat
          OBVIOUS
        <4> HIDE DEF Bad
        <4> QED BY <2>11, <4>1, LeastNat
      <3>2. n \in 0 .. N /\ f[1 .. n] # SubSeq(l, 1, n)
        OBVIOUS
      <3>3. SubSeq(l, 1, 0) = << >>
        OBVIOUS
      <3>4. n \in 1 .. N
        <4>1. n # 0
          BY <2>10, <3>2, <3>3
        <4> QED BY <2>3, <3>2, <4>1
      <3>5. n - 1 \in 0 .. N /\ ~(n <= n - 1)
        BY <2>3, <3>4
      <3>6. f[1 .. n - 1] = SubSeq(l, 1, n - 1)
        BY <3>1, <3>5
      <3> HIDE DEF Bad
      <3>7. l[n] # "" /\ f[1 .. n] = Append(f[1 .. n - 1], l[n])
        <4>1. l[n] \in Clips
          BY <2>3, <3>4
        <4>2. l[n] # ""
          BY <1>1, <4>1
        <4>3. f[1 .. n] = taken(f[1 .. n - 1], l[n])
          BY <2>10, <3>4
        <4> QED BY <4>2, <4>3
      <3>8. SubSeq(l, 1, n) = Append(SubSeq(l, 1, n - 1), l[n])
        BY <2>3, <3>4
      <3> QED BY <3>2, <3>6, <3>7, <3>8
    <2>12. f[1 .. N] = SubSeq(l, 1, N)
      BY <2>3, <2>11
    <2>13. SubSeq(l, 1, N) = l
      BY DEF N
    <2> QED BY <2>2, <2>3, <2>8, <2>12, <2>13
  <1> QED BY <1>2, <1>3

---------------------------------------------------------------------------
(* The show file                                                           *)

\* Widths an engine starts with; what an item of collect() can be.
EvenWidths == {w \in Nat : w % 2 = 0 /\ w >= 2}
Names == Clips \cup {""}

Collected ==
  [width : EvenWidths, type : {"omt", "media"}, ref : Names, list : Seq(Clips),
   fade : 1 .. MaxFade, gain : 0 .. MaxGain]

\* A player plays its list, and any other input has none.
Consistent ==
  {s \in Collected :
     /\ s.type # "media" => s.list = << >>
     /\ s.type = "media" => IF s.list = << >> THEN s.ref = "" ELSE s.ref = Head(s.list)}

Posts == [fade : 1 .. MaxFade] \cup {Save!Playlist(l) : l \in Seq(Clips) \ {<< >>}}

ShowFiles == {Save!Saved(s) : s \in Collected}

Values ==
  EvenWidths \cup {"omt", "media"} \cup Names \cup Seq(Clips) \cup (1 .. MaxFade) \cup (0 .. MaxGain)

\* A thread has read the first n parts of s.
HasRead(t, s, n) ==
  /\ got[t] \in Seq(Values) /\ Len(got[t]) = n
  /\ \A i \in 1 .. n : got[t][i] = s[Save!Parts[i]]

\* What a save makes of them.
Headed(s) == [s EXCEPT !.ref = IF s.list # << >> THEN Head(s.list) ELSE s.ref]

SaveSteps == {"idle", "collect", "open", "write", "rename", "note"}
Late == {"open", "write", "rename", "note"}

\* What the file may hold.
LEMMA SaveConstants ==
  ASSUME SideAssumption
  PROVE  /\ MaxFade \in Nat \ {0} /\ MaxGain \in Nat \ {0} /\ Widths \subseteq Nat
         /\ "" \notin Clips
  BY DEF SideAssumption, Save!SaveAssumption

\* What was written is read back as a show that an engine can start with, and unchanged
\* if it was one.
LEMMA LoadsWhole ==
  ASSUME SideAssumption, NEW s \in Collected
  PROVE  /\ Save!Loaded(Save!Saved(s)) \in Consistent
         /\ Save!Loaded(Save!Saved(s)).width = s.width
         /\ Save!Saved(s).kind = "show" /\ Save!Saved(s).width = s.width
         /\ s \in Consistent => Save!Loaded(Save!Saved(s)) = s
  <1> DEFINE f == Save!Saved(s)
             g == Save!Loaded(f)
  <1>e. PICK e : e = ""
    OBVIOUS
  <1>0. MaxFade \in Nat \ {0} /\ MaxGain \in Nat \ {0} /\ e \notin Clips
    BY <1>e, SaveConstants
  <1>1. /\ s.width \in EvenWidths /\ s.type \in {"omt", "media"} /\ s.ref \in Names
        /\ s.list \in Seq(Clips) /\ s.fade \in 1 .. MaxFade /\ s.gain \in 0 .. MaxGain
    BY DEF Collected
  <1>2. /\ f.kind = "show" /\ f.width = s.width /\ f.type = s.type /\ f.ref = s.ref
        /\ f.fade = s.fade /\ f.gain = s.gain
    BY DEF Save!Saved
  <1>3. f.list = IF s.type # "media" THEN Save!EncodeList(<< >>)
                 ELSE Save!EncodeList(IF s.list = << >> /\ s.ref # e THEN <<s.ref>> ELSE s.list)
    BY <1>e DEF Save!Saved
  <1>4. Save!LoadedList(f) =
          IF f.type # "media" THEN << >>
          ELSE IF Save!DecodeList(f.list) # << >> THEN Save!DecodeList(f.list)
          ELSE IF f.ref = e THEN << >> ELSE <<f.ref>>
    BY <1>e DEF Save!LoadedList
  <1>5. g = [width |-> IF f.width % 2 = 0 /\ f.width >= 2 THEN f.width ELSE Save!Fresh.width,
             type |-> f.type,
             ref |-> IF Save!LoadedList(f) = << >> THEN f.ref ELSE Head(Save!LoadedList(f)),
             list |-> Save!LoadedList(f),
             fade |-> Save!Clamp(f.fade, 1, MaxFade), gain |-> Save!Clamp(f.gain, 0, MaxGain)]
    BY <1>2 DEF Save!Loaded
  <1>6. Names = Clips \cup {e}
    BY <1>e DEF Names
  <1> HIDE DEF f, g
  <1>7. /\ g.width = s.width /\ g.type = s.type /\ g.list = Save!LoadedList(f)
        /\ g.ref = IF g.list = << >> THEN s.ref ELSE Head(g.list)
        /\ g.fade = s.fade /\ g.gain = s.gain
        /\ g = [width |-> g.width, type |-> g.type, ref |-> g.ref, list |-> g.list,
                fade |-> g.fade, gain |-> g.gain]
    BY <1>0, <1>1, <1>2, <1>5 DEF EvenWidths, Save!Clamp
  <1>8. g.list = IF s.type # "media" THEN << >>
                 ELSE IF s.list = << >> /\ s.ref # e THEN <<s.ref>> ELSE s.list
    <2>1. CASE s.type # "media"
      BY <1>2, <1>4, <1>7, <2>1
    <2> DEFINE l == IF s.list = << >> /\ s.ref # e THEN <<s.ref>> ELSE s.list
    <2>2. CASE s.type = "media"
      <3>1. l \in Seq(Clips)
        BY <1>1, <1>6
      <3>2. Save!DecodeList(f.list) = l
        BY <1>3, <2>2, <3>1, ListReadsBack
      <3>3. l = << >> => s.ref = e
        BY <1>1
      <3> QED BY <1>2, <1>4, <1>7, <2>2, <3>2, <3>3
    <2> QED BY <2>1, <2>2
  <1>9. g.list \in Seq(Clips) /\ g.ref \in Names
    <2>1. g.list \in Seq(Clips)
      BY <1>1, <1>6, <1>8
    <2>2. g.list # << >> => Head(g.list) \in Clips
      BY <2>1
    <2> QED BY <1>1, <1>6, <1>7, <2>1, <2>2
  <1>10. g \in Collected
    BY <1>1, <1>7, <1>9 DEF Collected
  <1>11. /\ g.type # "media" => g.list = << >>
         /\ g.type = "media" => IF g.list = << >> THEN g.ref = e ELSE g.ref = Head(g.list)
    BY <1>7, <1>8
  <1>12. g \in Consistent
    BY <1>e, <1>10, <1>11 DEF Consistent
  <1>13. ASSUME s \in Consistent PROVE g = s
    <2>1. /\ s.type # "media" => s.list = << >>
          /\ s.type = "media" => IF s.list = << >> THEN s.ref = e ELSE s.ref = Head(s.list)
      BY <1>e, <1>13 DEF Consistent
    <2>2. g.list = s.list
      BY <1>1, <1>8, <2>1
    <2>3. g.ref = s.ref
      BY <1>1, <1>7, <2>1, <2>2
    <2>4. s = [width |-> s.width, type |-> s.type, ref |-> s.ref, list |-> s.list,
               fade |-> s.fade, gain |-> s.gain]
      BY DEF Collected
    <2> QED BY <1>7, <2>2, <2>3, <2>4
  <1> QED BY <1>2, <1>7, <1>12, <1>13 DEF f, g

\* The state of a thread that has read everything.
LEMMA StateIs ==
  ASSUME NEW t \in Save!Threads, NEW s \in Collected, HasRead(t, s, 6)
  PROVE  Save!State(t) = Headed(s) /\ Headed(s) \in Collected
         /\ (s \in Consistent => Headed(s) = s)
  <1> DEFINE v(p) == got[t][CHOOSE i \in DOMAIN Save!Parts : Save!Parts[i] = p]
  <1>1. \A i \in 1 .. 6 : got[t][i] = s[Save!Parts[i]]
    BY DEF HasRead
  <1>2. /\ DOMAIN Save!Parts = 1 .. 6 /\ Save!Parts[1] = "width" /\ Save!Parts[2] = "type"
        /\ Save!Parts[3] = "ref" /\ Save!Parts[4] = "list" /\ Save!Parts[5] = "fade"
        /\ Save!Parts[6] = "gain"
    BY DEF Save!Parts
  <1>3. /\ v("width") = s.width /\ v("type") = s.type /\ v("ref") = s.ref
        /\ v("list") = s.list /\ v("fade") = s.fade /\ v("gain") = s.gain
    <2>1. (CHOOSE i \in DOMAIN Save!Parts : Save!Parts[i] = "width") = 1
      BY <1>2
    <2>2. (CHOOSE i \in DOMAIN Save!Parts : Save!Parts[i] = "type") = 2
      BY <1>2
    <2>3. (CHOOSE i \in DOMAIN Save!Parts : Save!Parts[i] = "ref") = 3
      BY <1>2
    <2>4. (CHOOSE i \in DOMAIN Save!Parts : Save!Parts[i] = "list") = 4
      BY <1>2
    <2>5. (CHOOSE i \in DOMAIN Save!Parts : Save!Parts[i] = "fade") = 5
      BY <1>2
    <2>6. (CHOOSE i \in DOMAIN Save!Parts : Save!Parts[i] = "gain") = 6
      BY <1>2
    <2>7. /\ v("width") = got[t][1] /\ v("type") = got[t][2] /\ v("ref") = got[t][3]
          /\ v("list") = got[t][4] /\ v("fade") = got[t][5] /\ v("gain") = got[t][6]
      BY <2>1, <2>2, <2>3, <2>4, <2>5, <2>6, Zenon
    <2>8. /\ got[t][1] = s.width /\ got[t][2] = s.type /\ got[t][3] = s.ref
          /\ got[t][4] = s.list /\ got[t][5] = s.fade /\ got[t][6] = s.gain
      BY <1>1, <1>2
    <2> HIDE DEF v
    <2> QED BY <2>7, <2>8
  <1>4. Save!State(t) =
          [width |-> v("width"), type |-> v("type"), list |-> v("list"),
           ref |-> IF v("list") # << >> THEN Head(v("list")) ELSE v("ref"),
           fade |-> v("fade"), gain |-> v("gain")]
    BY DEF Save!State
  <1> HIDE DEF v
  <1>5. s = [width |-> s.width, type |-> s.type, ref |-> s.ref, list |-> s.list,
             fade |-> s.fade, gain |-> s.gain]
    BY DEF Collected
  <1>6. Save!State(t) = Headed(s)
    BY <1>3, <1>4, <1>5 DEF Headed
  <1>7. s.list # << >> => Head(s.list) \in Names
    <2>1. s.list \in Seq(Clips)
      BY DEF Collected
    <2>2. s.list # << >> => Head(s.list) \in Clips
      BY <2>1
    <2> QED BY <2>2 DEF Names
  <1>8. Headed(s) \in Collected
    BY <1>7 DEF Collected, Headed
  <1>9. ASSUME s \in Consistent PROVE Headed(s) = s
    <2>1. s.list # << >> => s.ref = Head(s.list)
      BY <1>9 DEF Consistent
    <2> QED BY <1>5, <2>1 DEF Headed
  <1> QED BY <1>6, <1>8, <1>9

\* What is read next is one part of a state.
LEMMA OnePart ==
  ASSUME SideAssumption, NEW s \in Collected, NEW l \in Collected, NEW n \in 0 .. 5
  PROVE  /\ [s EXCEPT ![Save!Parts[n + 1]] = l[Save!Parts[n + 1]]] \in Collected
         /\ l[Save!Parts[n + 1]] \in Values
         /\ \A i \in 1 .. n : Save!Parts[i] # Save!Parts[n + 1]
         /\ DOMAIN s = {Save!Parts[i] : i \in 1 .. 6} /\ Len(Save!Parts) = 6
  <1>1. /\ Len(Save!Parts) = 6 /\ Save!Parts[1] = "width" /\ Save!Parts[2] = "type"
        /\ Save!Parts[3] = "ref" /\ Save!Parts[4] = "list" /\ Save!Parts[5] = "fade"
        /\ Save!Parts[6] = "gain"
    BY DEF Save!Parts
  <1>2. /\ l.width \in EvenWidths /\ l.type \in {"omt", "media"} /\ l.ref \in Names
        /\ l.list \in Seq(Clips) /\ l.fade \in 1 .. MaxFade /\ l.gain \in 0 .. MaxGain
    BY DEF Collected
  <1>4. /\ l.width \in Values /\ l.type \in Values /\ l.ref \in Values
        /\ l.list \in Values /\ l.fade \in Values /\ l.gain \in Values
    BY <1>2 DEF Values
  <1>5. \A i \in 1 .. n : Save!Parts[i] # Save!Parts[n + 1]
    BY <1>1
  <1>6. DOMAIN s = {Save!Parts[i] : i \in 1 .. 6}
    <2>1. DOMAIN s = {"width", "type", "ref", "list", "fade", "gain"}
      BY DEF Collected
    <2>2. 1 .. 6 = {1, 2, 3, 4, 5, 6}
      OBVIOUS
    <2> QED BY <1>1, <2>1, <2>2
  <1>7. [s EXCEPT ![Save!Parts[n + 1]] = l[Save!Parts[n + 1]]] \in Collected
    <2>1. CASE n = 0
      BY <1>1, <1>2, <2>1 DEF Collected
    <2>2. CASE n = 1
      BY <1>1, <1>2, <2>2 DEF Collected
    <2>3. CASE n = 2
      BY <1>1, <1>2, <2>3 DEF Collected
    <2>4. CASE n = 3
      BY <1>1, <1>2, <2>4 DEF Collected
    <2>5. CASE n = 4
      BY <1>1, <1>2, <2>5 DEF Collected
    <2>6. CASE n = 5
      BY <1>1, <1>2, <2>6 DEF Collected
    <2> QED BY <2>1, <2>2, <2>3, <2>4, <2>5, <2>6
  <1>8. l[Save!Parts[n + 1]] \in Values
    BY <1>1, <1>4
  <1> QED BY <1>1, <1>5, <1>6, <1>7, <1>8

\* A thread reads one part more, of the state l.
LEMMA ReadsOn ==
  ASSUME SideAssumption, NEW t \in Save!Threads, NEW s \in Collected, NEW l \in Collected,
         NEW n \in 0 .. 5, HasRead(t, s, n), got'[t] = Append(got[t], l[Save!Parts[n + 1]])
  PROVE  /\ \E r \in Collected : HasRead(t, r, n + 1)'
         /\ s = l => HasRead(t, l, n + 1)'
  <1> DEFINE p == Save!Parts
             r == [s EXCEPT ![p[n + 1]] = l[p[n + 1]]]
  <1>1. /\ r \in Collected /\ l[p[n + 1]] \in Values /\ \A i \in 1 .. n : p[i] # p[n + 1]
        /\ DOMAIN s = {p[i] : i \in 1 .. 6}
    BY OnePart
  <1> HIDE DEF p
  <1>2. r[p[n + 1]] = l[p[n + 1]] /\ \A i \in 1 .. n : r[p[i]] = s[p[i]]
    <2>1. n + 1 \in 1 .. 6 /\ \A i \in 1 .. n : i \in 1 .. 6
      OBVIOUS
    <2> QED BY <1>1, <2>1
  <1>3. s = l => r = l
    <2>1. s = [x \in DOMAIN s |-> s[x]]
      BY DEF Collected
    <2>2. \A x \in DOMAIN s : s = l => r[x] = l[x]
      BY <2>1
    <2>3. DOMAIN r = DOMAIN s /\ r = [x \in DOMAIN r |-> r[x]]
      OBVIOUS
    <2> HIDE DEF r
    <2> QED BY <2>1, <2>2, <2>3
  <1> HIDE DEF r
  <1>4. got[t] \in Seq(Values) /\ Len(got[t]) = n /\ \A i \in 1 .. n : got[t][i] = s[p[i]]
    BY DEF HasRead, p
  <1>5. got'[t] \in Seq(Values) /\ Len(got'[t]) = n + 1
        /\ got'[t][n + 1] = l[p[n + 1]] /\ \A i \in 1 .. n : got'[t][i] = got[t][i]
    <2> HIDE DEF Values
    <2>1. got'[t] = Append(got[t], l[p[n + 1]])
      BY DEF p
    <2> QED BY <1>1, <1>4, <2>1
  <1>6. ASSUME NEW i \in 1 .. n + 1 PROVE got'[t][i] = r[p[i]]
    <2>1. CASE i = n + 1
      BY <1>2, <1>5, <2>1
    <2>2. CASE i \in 1 .. n
      BY <1>2, <1>4, <1>5, <2>2
    <2>3. i = n + 1 \/ i \in 1 .. n
      OBVIOUS
    <2> QED BY <2>1, <2>2, <2>3
  <1>7. HasRead(t, r, n + 1)'
    BY <1>5, <1>6 DEF HasRead, p
  <1> QED BY <1>1, <1>3, <1>7

\* A posted command or patch leaves a state in one piece.
LEMMA ReplacingKeeps ==
  ASSUME SideAssumption, NEW l \in Consistent, NEW p \in Posts
  PROVE  Save!Replacing(l, p) \in Consistent
  <1>e. PICK e : e = ""
    OBVIOUS
  <1>0. \A s : s \in Consistent <=>
          /\ s \in Collected
          /\ s.type # "media" => s.list = << >>
          /\ s.type = "media" => IF s.list = << >> THEN s.ref = e ELSE s.ref = Head(s.list)
    BY <1>e DEF Consistent
  <1>1. l = [width |-> l.width, type |-> l.type, ref |-> l.ref, list |-> l.list,
             fade |-> l.fade, gain |-> l.gain]
    BY <1>0 DEF Collected
  <1>2. CASE p \in [fade : 1 .. MaxFade]
    <2>1. DOMAIN p = {"fade"} /\ p.fade \in 1 .. MaxFade
      BY <1>2
    <2>2. Save!Replacing(l, p) = [l EXCEPT !.fade = p.fade]
      BY <1>1, <2>1 DEF Save!Replacing
    <2> QED BY <1>0, <2>1, <2>2 DEF Collected
  <1>3. ASSUME NEW k \in Seq(Clips) \ {<< >>}, p = Save!Playlist(k)
        PROVE  Save!Replacing(l, p) \in Consistent
    <2>1. p = [type |-> "media", ref |-> Head(k), list |-> k]
      BY <1>3 DEF Save!Playlist
    <2>2. Save!Replacing(l, p) = [l EXCEPT !.type = "media", !.ref = Head(k), !.list = k]
      <3>1. DOMAIN p = {"type", "ref", "list"} /\ p.type = "media" /\ p.ref = Head(k) /\ p.list = k
        BY <2>1
      <3>2. DOMAIN l = {"width", "type", "ref", "list", "fade", "gain"}
        BY <1>1
      <3> DEFINE m == Save!Replacing(l, p)
      <3>3. /\ DOMAIN m = {"width", "type", "ref", "list", "fade", "gain"}
            /\ m = [x \in DOMAIN m |-> m[x]]
            /\ m.width = l.width /\ m.type = "media" /\ m.ref = Head(k) /\ m.list = k
            /\ m.fade = l.fade /\ m.gain = l.gain
        BY <3>1, <3>2 DEF Save!Replacing
      <3> HIDE DEF m
      <3>4. m = [l EXCEPT !.type = "media", !.ref = Head(k), !.list = k]
        BY <1>1, <3>3
      <3> QED BY <3>4 DEF m
    <2>3. Head(k) \in Names
      <3>1. Head(k) \in Clips
        OBVIOUS
      <3> QED BY <3>1 DEF Names
    <2> QED BY <1>0, <2>2, <2>3 DEF Collected
  <1> QED BY <1>2, <1>3 DEF Posts

\* One turn of the render loop keeps the engine's state whole.
LEMMA TickKeeps ==
  ASSUME SideAssumption, live \in Consistent, posted \in Seq(Posts), Save!Tick
  PROVE  live' \in Consistent
  <1> DEFINE N == Len(posted)
             Iter(g) == g = [S \in SUBSET DOMAIN posted |->
                               IF S = {} THEN live
                               ELSE LET m == Save!Max(S) IN Save!Replacing(g[S \ {m}], posted[m])]
             h == [p \in Consistent \X Posts |-> Save!Replacing(p[1], p[2])]
  <1>1. live' = (CHOOSE g : Iter(g))[DOMAIN posted]
    BY DEF Save!Tick, Save!FoldLeft, Save!MapThenFoldSet
  <1>2. DOMAIN posted = 1 .. N /\ N \in Nat
    OBVIOUS
  <1>3. h \in [Consistent \X Posts -> Consistent]
    BY ReplacingKeeps
  <1>4. \A l \in Consistent, p \in Posts : h[<<l, p>>] = Save!Replacing(l, p)
    OBVIOUS
  <1> HIDE DEF h
  <1>5. PICK g \in [SUBSET (1 .. N) -> Consistent] : Folds(g, live, h, posted, N)
    BY <1>3, FoldExists
  <1>6. \A S : Save!Max(S) = Top(S)
    BY DEF Save!Max, Top
  <1>7. Iter(g)
    <2> DEFINE e == [S \in SUBSET (1 .. N) |->
                       IF S = {} THEN live
                       ELSE Save!Replacing(g[S \ {Top(S)}], posted[Top(S)])]
               k == [S \in SUBSET (1 .. N) |->
                       IF S = {} THEN live ELSE h[<<g[S \ {Top(S)}], posted[Top(S)]>>]]
    <2>1. ASSUME NEW S \in SUBSET (1 .. N), S # {}
          PROVE  Save!Replacing(g[S \ {Top(S)}], posted[Top(S)])
                   = h[<<g[S \ {Top(S)}], posted[Top(S)]>>]
      <3>1. Top(S) \in 1 .. N /\ S \ {Top(S)} \in SUBSET (1 .. N)
        BY <1>2, <2>1, TopExists
      <3>2. g[S \ {Top(S)}] \in Consistent /\ posted[Top(S)] \in Posts
        BY <1>5, <3>1
      <3> QED BY <1>4, <3>2
    <2>2. e = k
      BY <2>1
    <2>3. g = e
      BY <1>5, <2>2 DEF Folds
    <2> HIDE DEF e, k
    <2> QED BY <1>2, <1>6, <2>3 DEF e
  <1>8. PICK f : f = (CHOOSE it : Iter(it)) /\ Iter(f)
    BY <1>7
  <1>9. f[1 .. 0] = live
        /\ \A n \in 1 .. N : f[1 .. n] = Save!Replacing(f[1 .. n - 1], posted[n])
    <2> HIDE DEF N
    <2>1. f[1 .. 0] = live
      <3>1. 1 .. 0 = {} /\ {} \in SUBSET DOMAIN posted
        OBVIOUS
      <3> QED BY <1>8, <3>1
    <2>2. ASSUME NEW n \in 1 .. N
          PROVE  f[1 .. n] = Save!Replacing(f[1 .. n - 1], posted[n])
      <3>0. N \in Nat
        BY <1>2
      <3>1. /\ n \in Nat \ {0} /\ 1 .. n # {} /\ 1 .. n \in SUBSET DOMAIN posted
            /\ Top(1 .. n) = n /\ (1 .. n) \ {n} = 1 .. n - 1
        BY <1>2, <3>0, Prefixes
      <3> QED BY <1>2, <1>6, <1>8, <3>1
    <2> QED BY <2>1, <2>2
  <1> HIDE DEF Iter, N
  <1> DEFINE Bad == {n \in 0 .. N : f[1 .. n] \notin Consistent}
  <1>10. ASSUME Bad # {} PROVE FALSE
    <2>1. PICK n \in Bad : \A m \in Bad : n <= m
      <3>1. Bad \in SUBSET Nat
        OBVIOUS
      <3> HIDE DEF Bad
      <3> QED BY <1>10, <3>1, LeastNat
    <2>2. n \in 0 .. N /\ f[1 .. n] \notin Consistent
      OBVIOUS
    <2>3. n \in 1 .. N
      <3>1. n # 0
        BY <1>9, <2>2
      <3> QED BY <1>2, <2>2, <3>1
    <2>4. n - 1 \in 0 .. N /\ ~(n <= n - 1)
      BY <1>2, <2>3
    <2>5. f[1 .. n - 1] \in Consistent
      BY <2>1, <2>4
    <2>6. posted[n] \in Posts
      BY <1>2, <2>3
    <2> QED BY <1>9, <2>2, <2>3, <2>5, <2>6, ReplacingKeeps
  <1>11. f[1 .. N] \in Consistent
    BY <1>2, <1>10
  <1> QED BY <1>1, <1>2, <1>8, <1>11

SaveShape ==
  /\ stage \in {"off", "up", "stopping", "exited", "unsaved"}
  /\ live \in Consistent /\ pending \in EvenWidths /\ posted \in Seq(Posts)
  /\ dirty \in BOOLEAN /\ everSaved \in BOOLEAN /\ rested \in BOOLEAN
  /\ at \in [Save!Threads -> SaveSteps] /\ fd \in [Save!Threads -> {"tmp", "disk", "gone"}]
  /\ got = [t \in Save!Threads |-> got[t]]
  /\ disk \in ShowFiles \cup {Save!NoFile}
  /\ tmp \in ShowFiles \cup {Save!NoFile, Save!Empty}

\* What a thread has read so far is the beginning of some state, complete before it
\* writes.
ReadSoFar ==
  \A t \in Save!Threads : at[t] # "idle" =>
    \E s \in Collected, n \in 0 .. 6 : HasRead(t, s, n) /\ (at[t] \in Late => n = 6)

\* The threads take turns, and main() is the last.
OneSaves ==
  /\ \A t \in Save!Threads, u \in Save!Threads : at[t] # "idle" /\ at[u] # "idle" => t = u
  /\ at["main"] # "idle" => stage = "stopping"
  /\ at["web"] # "idle" => stage = "up"
  /\ at["saver"] # "idle" => stage \in {"up", "stopping"}

\* What was written is what was read, and the state noted as saved is on the disk.
SavedInv ==
  /\ \A t \in Save!Threads :
       /\ at[t] = "write" => fd[t] = "tmp"
       /\ at[t] = "rename" => tmp = Save!Saved(Save!State(t))
       /\ at[t] = "note" => disk = Save!Saved(Save!State(t))
  /\ stage \in {"up", "stopping"} /\ everSaved /\ (\A t \in Save!Threads : at[t] # "note") =>
       disk = Save!Saved(lastSaved)

\* Once nothing was left to apply, main() reads the state that stays.
LastInv ==
  /\ stage = "stopping" /\ rested => posted = << >>
  /\ stage = "stopping" /\ rested /\ at["main"] # "idle" =>
       \E n \in 0 .. 6 : HasRead("main", Save!Current, n) /\ (at["main"] \in Late => n = 6)
  /\ Save!ExitKeepsEdits

SaveInv == SaveShape /\ ReadSoFar /\ OneSaves /\ SavedInv /\ LastInv

\* An engine without a show file.
LEMMA FreshIs == SideAssumption => Save!Fresh \in Consistent
  <1> SUFFICES ASSUME SideAssumption PROVE Save!Fresh \in Consistent
    OBVIOUS
  <1>e. PICK e : e = ""
    OBVIOUS
  <1>1. Save!Fresh = [width |-> 2, type |-> "omt", ref |-> e, list |-> << >>, fade |-> 1, gain |-> 1]
    BY <1>e DEF Save!Fresh
  <1>2. e \in Names
    BY <1>e DEF Names
  <1>3. 2 \in EvenWidths /\ 1 \in 1 .. MaxFade /\ 1 \in 0 .. MaxGain
    <2>1. MaxFade \in Nat \ {0} /\ MaxGain \in Nat \ {0}
      BY SaveConstants
    <2> QED BY <2>1 DEF EvenWidths
  <1>4. Save!Fresh \in Collected /\ Save!Fresh.type # "media" /\ Save!Fresh.list = << >>
    BY <1>1, <1>2, <1>3 DEF Collected
  <1> QED BY <1>4, Zenon DEF Consistent

\* What a start finds is a show it can start with.
LEMMA LoadsAny ==
  ASSUME SideAssumption, NEW f \in ShowFiles \cup {Save!NoFile}
  PROVE  Save!Loaded(f) \in Consistent
  <1>1. CASE f \in ShowFiles
    BY <1>1, LoadsWhole DEF ShowFiles
  <1>2. CASE f = Save!NoFile
    <2>1. Save!Loaded(f) = Save!Fresh
      BY <1>2 DEF Save!Loaded, Save!NoFile
    <2> QED BY <2>1, FreshIs
  <1> QED BY <1>1, <1>2

\* What the engine and the settings hold can be saved.
LEMMA CurrentIs ==
  ASSUME live \in Consistent, pending \in EvenWidths
  PROVE  /\ Save!Current \in Consistent /\ Save!Current \in Collected
         /\ \A i \in 1 .. 6 : Save!Reading(Save!Parts[i]) = Save!Current[Save!Parts[i]]
  <1>0. live \in Collected /\ (live.type # "media" => live.list = << >>)
    BY DEF Consistent
  <1>c. Save!Current = [live EXCEPT !.width = pending]
    BY DEF Save!Current
  <1> DEFINE c == Save!Current
  <1> HIDE DEF c
  <1>1. /\ c.width = pending /\ c.type = live.type /\ c.ref = live.ref /\ c.list = live.list
        /\ c.fade = live.fade /\ c.gain = live.gain /\ c \in Collected
    <2>1. live = [width |-> live.width, type |-> live.type, ref |-> live.ref, list |-> live.list,
                  fade |-> live.fade, gain |-> live.gain]
      BY <1>0 DEF Collected
    <2>2. /\ live.type \in {"omt", "media"} /\ live.ref \in Names /\ live.list \in Seq(Clips)
          /\ live.fade \in 1 .. MaxFade /\ live.gain \in 0 .. MaxGain
      BY <1>0 DEF Collected
    <2>3. c = [width |-> pending, type |-> live.type, ref |-> live.ref, list |-> live.list,
               fade |-> live.fade, gain |-> live.gain]
      BY <1>c, <2>1 DEF c
    <2> QED BY <2>2, <2>3 DEF Collected
  <1>2. c \in Consistent
    BY <1>1, Zenon DEF Consistent
  <1>3. ASSUME NEW p \in {"width", "type", "ref", "list", "fade", "gain"}
        PROVE  Save!Reading(p) = c[p]
    <2>1. Save!Reading(p) = CASE p = "width" -> pending
                              [] p = "list" -> IF live.type = "media" THEN live.list ELSE << >>
                              [] OTHER -> live[p]
      BY DEF Save!Reading
    <2>2. live.list = IF live.type = "media" THEN live.list ELSE << >>
      BY <1>0
    <2> QED BY <1>1, <2>1, <2>2
  <1>4. \A i \in 1 .. 6 : Save!Parts[i] \in {"width", "type", "ref", "list", "fade", "gain"}
    BY DEF Save!Parts
  <1> QED BY <1>1, <1>2, <1>3, <1>4 DEF c

\* A thread keeps what it has read while its reading stays.
LEMMA ReadStays ==
  ASSUME NEW t \in Save!Threads, got'[t] = got[t]
  PROVE  /\ \A s, n : HasRead(t, s, n) => HasRead(t, s, n)'
         /\ Save!State(t)' = Save!State(t)
  BY DEF HasRead, Save!State

\* A thread begins to collect.
LEMMA SaveBegins ==
  ASSUME SideAssumption, SaveInv, NEW t \in Save!Threads,
         \A u \in Save!Threads : at[u] = "idle",
         t = "main" => stage = "stopping" /\ pending' = pending, t # "main" => stage = "up",
         at' = [at EXCEPT ![t] = "collect"], got' = [got EXCEPT ![t] = << >>],
         UNCHANGED <<stage, live, posted, everSaved, lastSaved, fd, disk, tmp, rested>>,
         pending' \in EvenWidths, dirty' \in BOOLEAN
  PROVE  SaveInv'
  <1>1. /\ live \in Consistent /\ live \in Collected
        /\ at \in [Save!Threads -> SaveSteps] /\ got = [u \in Save!Threads |-> got[u]]
    BY DEF SaveInv, SaveShape, Consistent
  <1>2. at'[t] = "collect" /\ \A u \in Save!Threads \ {t} : at'[u] = "idle"
    BY <1>1
  <1>3. SaveShape'
    BY <1>1 DEF SaveInv, SaveShape, SaveSteps
  <1>4. got'[t] \in Seq(Values) /\ Len(got'[t]) = 0 /\ 1 .. 0 = {}
    <2>1. got'[t] = << >>
      BY <1>1
    <2>2. << >> \in Seq(Values) /\ Len(<< >>) = 0 /\ 1 .. 0 = {}
      OBVIOUS
    <2> QED BY <2>1, <2>2
  <1>5. ReadSoFar'
    <2>1. ASSUME NEW u \in Save!Threads, at'[u] # "idle"
          PROVE  \E s \in Collected, n \in 0 .. 6 : HasRead(u, s, n)' /\ (at'[u] \in Late => n = 6)
      <3>1. u = t /\ at'[u] \notin Late
        BY <1>2, <2>1 DEF Late
      <3>2. live \in Collected /\ 0 \in 0 .. 6 /\ HasRead(t, live, 0)'
        BY <1>1, <1>4 DEF HasRead
      <3> QED BY <3>1, <3>2
    <2> QED BY <2>1 DEF ReadSoFar
  <1>6. OneSaves'
    BY <1>2 DEF OneSaves, Save!Threads
  <1>7. SavedInv'
    <2>1. \A u \in Save!Threads : at'[u] \notin Late
      BY <1>2 DEF Late
    <2> QED BY <2>1 DEF SaveInv, SavedInv, Late
  <1>8. LastInv'
    <2>0. HasRead(t, Save!Current, 0)'
      BY <1>4 DEF HasRead
    <2>1. stage = "stopping" /\ rested => posted = << >>
      BY DEF SaveInv, LastInv
    <2>2. at'["main"] # "idle" => t = "main"
      BY <1>2 DEF Save!Threads
    <2>3. at'["main"] # "idle" =>
            \E n \in 0 .. 6 : HasRead("main", Save!Current, n)' /\ (at'["main"] \in Late => n = 6)
      <3>1. 0 \in 0 .. 6 /\ at'[t] \notin Late
        BY <1>2 DEF Late
      <3>2. HasRead(t, Save!Current, 0)'
        BY <2>0
      <3>3. ASSUME t = "main"
            PROVE  \E n \in 0 .. 6 : HasRead("main", Save!Current, n)' /\ (at'["main"] \in Late => n = 6)
        BY <3>1, <3>2, <3>3
      <3> QED BY <2>2, <3>3
    <2>4. stage # "exited"
      OBVIOUS
    <2> QED BY <2>1, <2>3, <2>4 DEF LastInv, Save!ExitKeepsEdits
  <1> QED BY <1>3, <1>5, <1>6, <1>7, <1>8 DEF SaveInv

\* The next step of a save.
LEMMA SaveGoesOn ==
  ASSUME SideAssumption, SaveInv, NEW t \in Save!Threads, NEW x \in Late,
         at[t] \in {"collect", "open", "write", "rename"},
         at' = [at EXCEPT ![t] = x], got' = got,
         \E s \in Collected : HasRead(t, s, 6),
         t = "main" /\ stage = "stopping" /\ rested => HasRead("main", Save!Current, 6),
         UNCHANGED <<stage, live, posted, pending, everSaved, lastSaved, rested>>,
         dirty' \in BOOLEAN, fd' \in [Save!Threads -> {"tmp", "disk", "gone"}],
         disk' \in ShowFiles \cup {Save!NoFile},
         tmp' \in ShowFiles \cup {Save!NoFile, Save!Empty},
         x = "write" => fd'[t] = "tmp",
         x = "rename" => tmp' = Save!Saved(Save!State(t)),
         IF x = "note" THEN disk' = Save!Saved(Save!State(t)) ELSE disk' = disk
  PROVE  SaveInv'
  <1>1. /\ at \in [Save!Threads -> SaveSteps] /\ got = [u \in Save!Threads |-> got[u]]
        /\ Late \subseteq SaveSteps /\ "idle" \notin Late
    BY DEF SaveInv, SaveShape, Late, SaveSteps
  <1>2. at'[t] = x /\ \A u \in Save!Threads \ {t} : at[u] = "idle" /\ at'[u] = "idle"
    <2>1. \A u \in Save!Threads \ {t} : at[u] = "idle"
      BY DEF SaveInv, OneSaves
    <2> QED BY <1>1, <2>1
  <1>3. \A u \in Save!Threads : /\ \A s, n : HasRead(u, s, n) => HasRead(u, s, n)'
                                /\ Save!State(u)' = Save!State(u)
    BY ReadStays
  <1>4. SaveShape'
    BY <1>1 DEF SaveInv, SaveShape
  <1>5. ReadSoFar'
    <2>1. ASSUME NEW u \in Save!Threads, at'[u] # "idle"
          PROVE  \E s \in Collected, n \in 0 .. 6 : HasRead(u, s, n)' /\ (at'[u] \in Late => n = 6)
      <3>1. u = t
        BY <1>2, <2>1
      <3>2. 6 \in 0 .. 6
        OBVIOUS
      <3> QED BY <1>3, <3>1, <3>2
    <2> QED BY <2>1 DEF ReadSoFar
  <1>6. OneSaves'
    <2>1. at[t] # "idle"
      OBVIOUS
    <2>2. \A u \in Save!Threads : at'[u] # "idle" => at[u] # "idle" /\ u = t
      BY <1>2, <2>1
    <2> QED BY <2>2 DEF SaveInv, OneSaves, Save!Threads
  <1>7. SavedInv'
    <2>1. \A u \in Save!Threads :
            /\ at'[u] = "write" => fd'[u] = "tmp"
            /\ at'[u] = "rename" => tmp' = Save!Saved(Save!State(u)')
            /\ at'[u] = "note" => disk' = Save!Saved(Save!State(u)')
      BY <1>2, <1>3
    <2>2. (\A u \in Save!Threads : at'[u] # "note") => x # "note" /\ \A u \in Save!Threads : at[u] # "note"
      BY <1>2
    <2> QED BY <2>1, <2>2 DEF SaveInv, SavedInv
  <1>8. LastInv'
    <2>1. at'["main"] # "idle" => t = "main"
      BY <1>2 DEF Save!Threads
    <2>2. Save!Current' = Save!Current
      BY DEF Save!Current
    <2>3. stage = "stopping" /\ rested /\ t = "main" => HasRead("main", Save!Current, 6)'
      BY <1>3, <2>2 DEF HasRead
    <2>4. stage = "stopping" /\ rested /\ at'["main"] # "idle" =>
            \E n \in 0 .. 6 : HasRead("main", Save!Current, n)' /\ (at'["main"] \in Late => n = 6)
      <3>1. 6 \in 0 .. 6
        OBVIOUS
      <3> QED BY <2>1, <2>3, <3>1
    <2>5. stage # "exited"
      BY <1>2 DEF SaveInv, OneSaves, Save!Threads
    <2> QED BY <2>4, <2>5 DEF SaveInv, LastInv, Save!ExitKeepsEdits
  <1> QED BY <1>4, <1>5, <1>6, <1>7, <1>8 DEF SaveInv

\* A save ends.
LEMMA SaveEnds ==
  ASSUME SideAssumption, SaveInv, NEW t \in Save!Threads, NEW ok \in BOOLEAN,
         at[t] # "idle", Save!Done(t, ok),
         UNCHANGED <<live, posted, pending, rested>>,
         dirty' \in BOOLEAN, everSaved' \in BOOLEAN,
         fd' \in [Save!Threads -> {"tmp", "disk", "gone"}],
         disk' \in ShowFiles \cup {Save!NoFile},
         tmp' \in ShowFiles \cup {Save!NoFile, Save!Empty},
         everSaved' => disk' = Save!Saved(lastSaved'),
         t = "main" /\ ok /\ rested => Save!Loaded(disk') = Save!Current
  PROVE  SaveInv'
  <1>1. /\ at \in [Save!Threads -> SaveSteps] /\ got = [u \in Save!Threads |-> got[u]]
    BY DEF SaveInv, SaveShape
  <1>2. /\ at' = [at EXCEPT ![t] = "idle"] /\ got' = [got EXCEPT ![t] = << >>]
        /\ stage' = IF t # "main" THEN stage ELSE IF ok THEN "exited" ELSE "unsaved"
    BY DEF Save!Done
  <1>3. \A u \in Save!Threads : at'[u] = "idle"
    BY <1>1, <1>2 DEF SaveInv, OneSaves
  <1>4. "idle" \in SaveSteps /\ "main" \in Save!Threads
    BY DEF SaveSteps, Save!Threads
  <1>5. SaveShape'
    <2>1. stage' \in {"off", "up", "stopping", "exited", "unsaved"}
      BY <1>2 DEF SaveInv, SaveShape
    <2>2. at' \in [Save!Threads -> SaveSteps] /\ got' = [u \in Save!Threads |-> got'[u]]
      BY <1>1, <1>2, <1>4
    <2> QED BY <2>1, <2>2 DEF SaveInv, SaveShape
  <1>6. ReadSoFar' /\ OneSaves'
    BY <1>3 DEF ReadSoFar, OneSaves, Save!Threads
  <1>7. SavedInv'
    BY <1>3 DEF SavedInv
  <1>8. LastInv'
    <2>1. stage' = "stopping" => stage = "stopping"
      BY <1>2
    <2>2. stage' = "exited" => t = "main" /\ ok
      <3>1. t # "main" => stage # "exited"
        BY DEF SaveInv, OneSaves, Save!Threads
      <3> QED BY <1>2, <3>1
    <2>3. Save!Current' = Save!Current
      BY DEF Save!Current
    <2>4. stage' = "exited" /\ rested' => Save!Loaded(disk') = Save!Current'
      BY <2>2, <2>3
    <2>5. at'["main"] = "idle"
      BY <1>3, <1>4
    <2> QED BY <2>1, <2>4, <2>5 DEF SaveInv, LastInv, Save!ExitKeepsEdits
  <1> QED BY <1>5, <1>6, <1>7, <1>8 DEF SaveInv

\* There is no show file in the beginning.
LEMMA SaveInit == SideAssumption /\ Save!Init => SaveInv
  <1> SUFFICES ASSUME SideAssumption, Save!Init PROVE SaveInv
    OBVIOUS
  <1>1. /\ stage = "off" /\ live = Save!Fresh /\ posted = << >> /\ pending = Save!Fresh.width
        /\ dirty = FALSE /\ everSaved = FALSE /\ rested = FALSE
        /\ at = [t \in Save!Threads |-> "idle"] /\ got = [t \in Save!Threads |-> << >>]
        /\ fd = [t \in Save!Threads |-> "gone"] /\ disk = Save!NoFile /\ tmp = Save!NoFile
    BY DEF Save!Init, Save!Idle
  <1>2. pending \in EvenWidths
    <2>1. Save!Fresh \in Collected
      BY FreshIs DEF Consistent
    <2> QED BY <1>1, <2>1 DEF Collected
  <1>3. live \in Consistent
    BY <1>1, FreshIs
  <1>4. << >> \in Seq(Posts)
    OBVIOUS
  <1>5. SaveShape
    BY <1>1, <1>2, <1>3, <1>4 DEF SaveShape, SaveSteps
  <1>6. \A t \in Save!Threads : at[t] = "idle"
    BY <1>1
  <1>7. ReadSoFar /\ OneSaves /\ SavedInv /\ LastInv
    BY <1>1, <1>6 DEF ReadSoFar, OneSaves, SavedInv, LastInv, Save!ExitKeepsEdits, Save!Threads
  <1> QED BY <1>5, <1>7 DEF SaveInv

\* While no thread moves, the engine and the settings may.
LEMMA EngineMoves ==
  ASSUME SideAssumption, SaveInv, UNCHANGED <<at, got, fd, disk, tmp>>,
         stage' \in {"off", "up", "stopping", "exited", "unsaved"}, live' \in Consistent,
         pending' \in EvenWidths, posted' \in Seq(Posts), dirty' \in BOOLEAN,
         everSaved' \in BOOLEAN, rested' \in BOOLEAN,
         stage' = stage \/ (\A t \in Save!Threads : at[t] = "idle") \/
           (stage = "up" /\ stage' = "stopping" /\ at["web"] = "idle"),
         stage' \in {"up", "stopping"} /\ everSaved' =>
           stage \in {"up", "stopping"} /\ everSaved /\ lastSaved' = lastSaved,
         stage' = "stopping" /\ rested' => posted' = << >>,
         stage' = "stopping" /\ rested' /\ at["main"] # "idle" =>
           stage = "stopping" /\ rested /\ UNCHANGED <<live, pending>>,
         stage' # "exited" \/ UNCHANGED <<stage, rested, live, pending>>
  PROVE  SaveInv'
  <1>1. SaveShape'
    BY DEF SaveInv, SaveShape
  <1>2. \A u \in Save!Threads : /\ \A s, n : HasRead(u, s, n) => HasRead(u, s, n)'
                                /\ Save!State(u)' = Save!State(u)
    BY ReadStays
  <1>3. ReadSoFar'
    BY <1>2 DEF SaveInv, ReadSoFar
  <1>4. OneSaves'
    BY DEF SaveInv, OneSaves, Save!Threads
  <1>5. SavedInv'
    BY <1>2 DEF SaveInv, SavedInv
  <1>6. LastInv'
    <2>1. CASE stage' = "stopping" /\ rested' /\ at["main"] # "idle"
      <3>1. Save!Current' = Save!Current
        BY <2>1 DEF Save!Current
      <3>2. PICK n \in 0 .. 6 : HasRead("main", Save!Current, n) /\ (at["main"] \in Late => n = 6)
        BY <2>1 DEF SaveInv, LastInv
      <3>3. HasRead("main", Save!Current, n)'
        <4>1. got'["main"] = got["main"]
          OBVIOUS
        <4> QED BY <3>1, <3>2, <4>1 DEF HasRead
      <3>4. \E k \in 0 .. 6 : HasRead("main", Save!Current, k)' /\ (at'["main"] \in Late => k = 6)
        BY <3>2, <3>3
      <3> QED BY <2>1, <3>4 DEF LastInv, Save!ExitKeepsEdits
    <2>2. CASE ~(stage' = "stopping" /\ rested' /\ at["main"] # "idle")
      <3>1. ASSUME stage' = "exited", rested' PROVE Save!Loaded(disk') = Save!Current'
        <4>1. UNCHANGED <<stage, rested, live, pending>>
          BY <3>1
        <4>2. Save!Loaded(disk) = Save!Current
          BY <3>1, <4>1 DEF SaveInv, LastInv, Save!ExitKeepsEdits
        <4>3. Save!Current' = Save!Current
          BY <4>1 DEF Save!Current
        <4> QED BY <4>2, <4>3
      <3> QED BY <2>2, <3>1 DEF LastInv, Save!ExitKeepsEdits
    <2> QED BY <2>1, <2>2
  <1> QED BY <1>1, <1>3, <1>4, <1>5, <1>6 DEF SaveInv

\* main(), the engine and the operator.
LEMMA WorldSaves ==
  ASSUME SideAssumption, SaveInv,
         Save!Launch \/ Save!Tick \/ Save!Edit \/ Save!EditSettings \/ Save!Quit \/ Save!Crash
           \/ Save!Again \/ Save!SaverWakes \/ Save!LastSave
  PROVE  SaveInv'
  <1>1. /\ stage \in {"off", "up", "stopping", "exited", "unsaved"}
        /\ live \in Consistent /\ pending \in EvenWidths /\ posted \in Seq(Posts)
        /\ dirty \in BOOLEAN /\ everSaved \in BOOLEAN /\ rested \in BOOLEAN
        /\ disk \in ShowFiles \cup {Save!NoFile}
    BY DEF SaveInv, SaveShape
  <1>2. /\ \A t \in Save!Threads, u \in Save!Threads : at[t] # "idle" /\ at[u] # "idle" => t = u
        /\ at["main"] # "idle" => stage = "stopping"
        /\ at["web"] # "idle" => stage = "up"
        /\ at["saver"] # "idle" => stage \in {"up", "stopping"}
    BY DEF SaveInv, OneSaves
  <1>3. Save!Threads = {"saver", "web", "main"}
    BY DEF Save!Threads
  <1>4. << >> \in Seq(Posts) /\ \A p \in Posts : Append(posted, p) \in Seq(Posts) /\ <<p>> \in Seq(Posts)
    BY <1>1
  <1>5. MaxFade \in Nat \ {0} /\ MaxGain \in Nat \ {0} /\ Widths \subseteq Nat
    BY SaveConstants
  <1>6. live \in Collected /\ \A l \in Consistent : l \in Collected
    BY <1>1 DEF Consistent
  <1>7. ASSUME NEW l \in Consistent, NEW f \in 1 .. MaxFade PROVE [l EXCEPT !.fade = f] \in Consistent
    <2>1. [fade |-> f] \in Posts
      BY DEF Posts
    <2>2. l = [width |-> l.width, type |-> l.type, ref |-> l.ref, list |-> l.list,
               fade |-> l.fade, gain |-> l.gain]
      BY <1>6 DEF Collected
    <2>3. Save!Replacing(l, [fade |-> f]) = [l EXCEPT !.fade = f]
      BY <2>2 DEF Save!Replacing
    <2> QED BY <2>1, <2>3, ReplacingKeeps
  <1>8. CASE Save!Launch
    <2> DEFINE s == Save!Loaded(disk)
    <2>1. /\ stage = "off" /\ live' = [s EXCEPT !.fade = 1] /\ posted' = <<[fade |-> s.fade]>>
          /\ pending' = s.width /\ stage' = "up" /\ dirty' = FALSE /\ everSaved' = FALSE
          /\ UNCHANGED <<at, got, fd, disk, tmp, rested>>
      BY <1>8 DEF Save!Launch, Save!threads, Save!files, Save!Fresh
    <2>2. s \in Consistent
      BY <1>1, LoadsAny
    <2> HIDE DEF s
    <2>3. s.fade \in 1 .. MaxFade /\ s.width \in EvenWidths
      BY <1>6, <2>2 DEF Collected
    <2>4. live' \in Consistent
      BY <1>5, <1>7, <2>1, <2>2
    <2>5. posted' \in Seq(Posts)
      <3>1. [fade |-> s.fade] \in Posts
        BY <2>3 DEF Posts
      <3> QED BY <1>4, <2>1, <3>1
    <2>6. \A t \in Save!Threads : at[t] = "idle"
      BY <1>2, <1>3, <2>1
    <2>7. pending' \in EvenWidths /\ dirty' \in BOOLEAN /\ everSaved' \in BOOLEAN /\ rested' \in BOOLEAN
      BY <1>1, <2>1, <2>3
    <2>8. stage' \in {"off", "up", "stopping", "exited", "unsaved"} /\ stage' # "stopping" /\ stage' # "exited"
          /\ ~everSaved'
      BY <2>1
    <2> QED BY <2>1, <2>4, <2>5, <2>6, <2>7, <2>8, EngineMoves
  <1>9. CASE Save!Tick
    <2>1. /\ posted # << >> /\ posted' = << >> /\ stage' = stage /\ stage # "exited"
          /\ UNCHANGED <<at, got, fd, disk, tmp, rested, pending, dirty, everSaved, lastSaved>>
      BY <1>9 DEF Save!Tick, Save!session, Save!threads, Save!files
    <2>2. live' \in Consistent
      BY <1>1, <1>9, TickKeeps
    <2>3. stage = "stopping" /\ rested => posted = << >>
      BY DEF SaveInv, LastInv
    <2> QED BY <1>1, <1>4, <2>1, <2>2, <2>3, EngineMoves
  <1>10. CASE Save!Edit
    <2>1. /\ stage = "up" /\ stage' = stage
          /\ UNCHANGED <<at, got, fd, disk, tmp, rested, pending, dirty, everSaved, lastSaved>>
      BY <1>10 DEF Save!Edit, Save!session, Save!threads, Save!files
    <2>2. live' \in Consistent /\ posted' \in Seq(Posts)
      <3>1. ASSUME NEW g \in {0, MaxGain}, live' = [live EXCEPT !.gain = g], posted' = posted
            PROVE  live' \in Consistent /\ posted' \in Seq(Posts)
        <4>1. g \in 0 .. MaxGain
          BY <1>5
        <4>2. live' \in Collected /\ live'.type = live.type /\ live'.list = live.list /\ live'.ref = live.ref
          BY <1>6, <3>1, <4>1 DEF Collected
        <4>3. live' \in Consistent
          BY <1>1, <4>2, Zenon DEF Consistent
        <4> QED BY <1>1, <3>1, <4>3
      <3>2. ASSUME NEW f \in {0, MaxFade}, posted' = Append(posted, [fade |-> Save!Clamp(f, 1, MaxFade)]),
                   live' = live
            PROVE  live' \in Consistent /\ posted' \in Seq(Posts)
        <4>1. Save!Clamp(f, 1, MaxFade) \in 1 .. MaxFade
          BY <1>5 DEF Save!Clamp
        <4>2. [fade |-> Save!Clamp(f, 1, MaxFade)] \in Posts
          BY <4>1 DEF Posts
        <4> QED BY <1>1, <1>4, <3>2, <4>2
      <3>3. ASSUME NEW l \in Save!BoundedSeq(Clips, 2) \ {<< >>},
                   posted' = Append(posted, Save!Playlist(l)), live' = live
            PROVE  live' \in Consistent /\ posted' \in Seq(Posts)
        <4>1. l \in Seq(Clips)
          <5>1. PICK m \in 0 .. 2 : l \in [1 .. m -> Clips]
            BY DEF Save!BoundedSeq, Save!SeqOf
          <5>2. m \in Nat
            OBVIOUS
          <5> QED BY <5>1, <5>2
        <4>2. Save!Playlist(l) \in Posts
          BY <4>1 DEF Posts
        <4> QED BY <1>1, <1>4, <3>3, <4>2
      <3> QED BY <1>10, <3>1, <3>2, <3>3 DEF Save!Edit
    <2> QED BY <1>1, <2>1, <2>2, EngineMoves
  <1>11. CASE Save!EditSettings
    <2>1. /\ stage = "up" /\ at["web"] = "idle" /\ at["saver"] = "idle" /\ dirty' = TRUE
          /\ at' = [at EXCEPT !["web"] = "collect"] /\ got' = [got EXCEPT !["web"] = << >>]
          /\ UNCHANGED <<stage, live, posted, everSaved, lastSaved, fd, disk, tmp, rested>>
          /\ \E w \in Widths : pending' = IF w % 2 = 0 /\ w >= 2 THEN w ELSE pending
      BY <1>11 DEF Save!EditSettings, Save!files
    <2>2. pending' \in EvenWidths
      BY <1>1, <1>5, <2>1 DEF EvenWidths
    <2>3. \A u \in Save!Threads : at[u] = "idle"
      BY <1>2, <1>3, <2>1
    <2> QED BY <1>3, <2>1, <2>2, <2>3, SaveBegins
  <1>12. CASE Save!Quit
    <2>1. /\ stage = "up" /\ at["web"] = "idle" /\ stage' = "stopping" /\ rested' = (posted = << >>)
          /\ UNCHANGED <<live, posted, pending, dirty, everSaved, lastSaved, at, got, fd, disk, tmp>>
      BY <1>12 DEF Save!Quit, Save!session, Save!threads, Save!files
    <2>2. at["main"] = "idle" /\ rested' \in BOOLEAN
      BY <1>2, <2>1
    <2> QED BY <1>1, <2>1, <2>2, EngineMoves
  <1>13. CASE Save!Crash
    <2>1. /\ stage' = "off" /\ posted' = << >> /\ at' = [t \in Save!Threads |-> "idle"]
          /\ got' = [t \in Save!Threads |-> << >>] /\ fd' = [t \in Save!Threads |-> "gone"]
          /\ UNCHANGED <<live, pending, dirty, everSaved, lastSaved, disk, tmp, rested>>
      BY <1>13 DEF Save!Crash, Save!session, Save!files, Save!Idle
    <2>2. SaveShape'
      BY <1>4, <2>1 DEF SaveInv, SaveShape, SaveSteps
    <2>3. \A t \in Save!Threads : at'[t] = "idle"
      BY <2>1
    <2> QED BY <1>3, <2>1, <2>2, <2>3
            DEF SaveInv, ReadSoFar, OneSaves, SavedInv, LastInv, Save!ExitKeepsEdits
  <1>14. CASE Save!Again
    <2>1. /\ stage \in {"exited", "unsaved"} /\ stage' = "off"
          /\ UNCHANGED <<live, posted, pending, dirty, everSaved, lastSaved, at, got, fd, disk, tmp, rested>>
      BY <1>14 DEF Save!Again, Save!session, Save!threads, Save!files
    <2>2. \A t \in Save!Threads : at[t] = "idle"
      BY <1>2, <1>3, <2>1
    <2> QED BY <1>1, <2>1, <2>2, EngineMoves
  <1>15. CASE Save!SaverWakes
    <2>1. /\ stage = "up" /\ at["web"] = "idle" /\ at["saver"] = "idle"
          /\ at' = [at EXCEPT !["saver"] = "collect"] /\ got' = [got EXCEPT !["saver"] = << >>]
          /\ UNCHANGED <<stage, live, posted, pending, dirty, everSaved, lastSaved, fd, disk, tmp, rested>>
      BY <1>15 DEF Save!SaverWakes, Save!session, Save!files
    <2>2. \A u \in Save!Threads : at[u] = "idle"
      BY <1>2, <1>3, <2>1
    <2> QED BY <1>1, <1>3, <2>1, <2>2, SaveBegins
  <1>16. CASE Save!LastSave
    <2>1. /\ stage = "stopping" /\ at["saver"] = "idle" /\ at["main"] = "idle"
          /\ at' = [at EXCEPT !["main"] = "collect"] /\ got' = [got EXCEPT !["main"] = << >>]
          /\ UNCHANGED <<stage, live, posted, pending, dirty, everSaved, lastSaved, fd, disk, tmp, rested>>
      BY <1>16 DEF Save!LastSave, Save!session, Save!files
    <2>2. \A u \in Save!Threads : at[u] = "idle"
      BY <1>2, <1>3, <2>1
    <2> QED BY <1>1, <1>3, <2>1, <2>2, SaveBegins
  <1> QED BY <1>8, <1>9, <1>10, <1>11, <1>12, <1>13, <1>14, <1>15, <1>16

\* The steps of a save.
LEMMA ThreadSaves ==
  ASSUME SideAssumption, SaveInv, NEW t \in Save!Threads, Save!Save(t) \/ Save!SaveFails(t)
  PROVE  SaveInv'
  <1>1. /\ live \in Consistent /\ pending \in EvenWidths
        /\ dirty \in BOOLEAN /\ everSaved \in BOOLEAN /\ rested \in BOOLEAN
        /\ at \in [Save!Threads -> SaveSteps] /\ fd \in [Save!Threads -> {"tmp", "disk", "gone"}]
        /\ got = [u \in Save!Threads |-> got[u]]
        /\ disk \in ShowFiles \cup {Save!NoFile}
        /\ tmp \in ShowFiles \cup {Save!NoFile, Save!Empty}
    BY DEF SaveInv, SaveShape
  <1>2. /\ Save!Current \in Consistent /\ Save!Current \in Collected
        /\ \A i \in 1 .. 6 : Save!Reading(Save!Parts[i]) = Save!Current[Save!Parts[i]]
        /\ Len(Save!Parts) = 6
    BY <1>1, CurrentIs DEF Save!Parts
  <1>3. at[t] # "idle" => \E s \in Collected, n \in 0 .. 6 : HasRead(t, s, n) /\ (at[t] \in Late => n = 6)
    BY DEF SaveInv, ReadSoFar
  <1>4. at[t] # "idle" => /\ \A u \in Save!Threads \ {t} : at[u] = "idle"
                          /\ stage = "stopping" \/ t # "main"
    BY DEF SaveInv, OneSaves
  <1>5. stage = "stopping" /\ rested /\ t = "main" /\ at[t] # "idle" =>
          \E n \in 0 .. 6 : HasRead(t, Save!Current, n) /\ (at[t] \in Late => n = 6)
    BY DEF SaveInv, LastInv
  <1>6. \A s, m, n : HasRead(t, s, m) /\ Len(got[t]) = n => m = n
    BY DEF HasRead
  \* Before the note nothing is noted that is not on the disk.
  <1>7. ASSUME at[t] # "idle", at[t] # "note", everSaved PROVE disk = Save!Saved(lastSaved)
    <2>1. \A u \in Save!Threads : at[u] # "note"
      BY <1>4, <1>7
    <2>2. stage \in {"up", "stopping"}
      BY <1>7 DEF SaveInv, OneSaves, Save!Threads
    <2> QED BY <1>7, <2>1, <2>2 DEF SaveInv, SavedInv
  \* What has been read is a state, and main()'s is what stays.
  <1>8. ASSUME at[t] # "idle", at[t] \in Late \/ Len(got[t]) = 6
        PROVE  /\ \E s \in Collected : HasRead(t, s, 6)
               /\ Save!Saved(Save!State(t)) \in ShowFiles
               /\ t = "main" /\ stage = "stopping" /\ rested => HasRead("main", Save!Current, 6)
               /\ t = "main" /\ rested => Save!Loaded(Save!Saved(Save!State(t))) = Save!Current
    <2>1. PICK s \in Collected : HasRead(t, s, 6)
      BY <1>3, <1>6, <1>8
    <2>2. Save!State(t) \in Collected
      BY <2>1, StateIs
    <2>3. Save!Saved(Save!State(t)) \in ShowFiles
      BY <2>2 DEF ShowFiles
    <2>4. t = "main" /\ stage = "stopping" /\ rested => HasRead("main", Save!Current, 6)
      BY <1>5, <1>6, <1>8
    <2>5. ASSUME t = "main", rested PROVE Save!Loaded(Save!Saved(Save!State(t))) = Save!Current
      <3>1. HasRead(t, Save!Current, 6)
        BY <1>4, <1>8, <2>4, <2>5
      <3>2. Save!State(t) = Save!Current
        BY <1>2, <3>1, StateIs
      <3> QED BY <1>2, <3>2, LoadsWhole
    <2> QED BY <2>1, <2>3, <2>4, <2>5
  <1>9. {"open", "write", "rename", "note"} \subseteq Late /\ "main" \in Save!Threads
    BY DEF Late, Save!Threads
  <1>10. CASE Save!Collect(t)
    <2>1. /\ at[t] = "collect" /\ Len(got[t]) < 6
          /\ got' = [got EXCEPT ![t] = Append(@, Save!Reading(Save!Parts[Len(@) + 1]))]
          /\ UNCHANGED <<stage, live, posted, pending, dirty, everSaved, lastSaved, at, fd, disk, tmp, rested>>
      BY <1>2, <1>10 DEF Save!Collect, Save!session, Save!files
    <2>2. PICK s \in Collected, n \in 0 .. 6 : HasRead(t, s, n)
      BY <1>3, <2>1
    <2>3. Len(got[t]) = n /\ n \in 0 .. 5
      <3>1. Len(got[t]) = n
        BY <2>2 DEF HasRead
      <3> QED BY <2>1, <2>2, <3>1
    <2>c. PICK c \in Collected : c = Save!Current
      BY <1>2
    <2>4. got'[t] = Append(got[t], c[Save!Parts[n + 1]])
      <3>1. n + 1 \in 1 .. 6
        BY <2>3
      <3>2. Save!Reading(Save!Parts[n + 1]) = c[Save!Parts[n + 1]]
        BY <1>2, <2>c, <3>1
      <3>3. got'[t] = Append(got[t], Save!Reading(Save!Parts[Len(got[t]) + 1]))
        BY <1>1, <2>1
      <3> QED BY <2>3, <3>2, <3>3
    <2>5. ASSUME NEW r \in Collected, HasRead(t, r, n)
          PROVE  /\ \E q \in Collected : HasRead(t, q, n + 1)'
                 /\ r = c => HasRead(t, c, n + 1)'
      BY <2>3, <2>4, <2>5, ReadsOn
    <2>6. \A u \in Save!Threads \ {t} : got'[u] = got[u]
      BY <1>1, <2>1
    <2>7. got' = [u \in Save!Threads |-> got'[u]]
      BY <1>1, <2>1
    <2>8. SaveShape'
      BY <2>1, <2>7 DEF SaveInv, SaveShape
    <2>9. n + 1 \in 0 .. 6
      BY <2>3
    <2>10. ReadSoFar'
      <3>1. ASSUME NEW u \in Save!Threads, at'[u] # "idle"
            PROVE  \E r \in Collected, k \in 0 .. 6 : HasRead(u, r, k)' /\ (at'[u] \in Late => k = 6)
        <4>1. u = t /\ at'[u] \notin Late
          BY <1>4, <2>1, <3>1 DEF Late
        <4>2. \E q \in Collected : HasRead(t, q, n + 1)'
          BY <2>2, <2>5
        <4> QED BY <2>9, <4>1, <4>2
      <3> QED BY <3>1 DEF ReadSoFar
    <2>11. OneSaves'
      BY <2>1 DEF SaveInv, OneSaves
    <2>12. SavedInv'
      <3>1. \A u \in Save!Threads : at[u] \notin Late
        BY <1>4, <2>1 DEF Late
      <3> QED BY <2>1, <3>1 DEF SaveInv, SavedInv, Late
    <2>13. LastInv'
      <3>1. Save!Current' = c
        BY <2>1, <2>c DEF Save!Current
      <3>2. ASSUME stage = "stopping", rested, at["main"] # "idle"
            PROVE  \E k \in 0 .. 6 : HasRead("main", c, k)' /\ (at'["main"] \in Late => k = 6)
        <4>1. t = "main" /\ at'[t] \notin Late
          BY <1>4, <1>9, <2>1, <3>2 DEF Late
        <4>2. HasRead(t, c, n)
          BY <1>5, <1>6, <2>1, <2>3, <2>c, <3>2, <4>1
        <4>3. HasRead(t, c, n + 1)'
          BY <2>5, <4>2
        <4> QED BY <2>9, <4>1, <4>3
      <3>3. ASSUME stage = "stopping", rested, at["main"] # "idle"
            PROVE  (\E k \in 0 .. 6 : HasRead("main", Save!Current, k) /\ (at["main"] \in Late => k = 6))'
        BY <3>1, <3>2, <3>3 DEF HasRead
      <3>4. Save!ExitKeepsEdits'
        <4>1. stage' = stage /\ stage # "exited"
          BY <1>4, <2>1 DEF SaveInv, OneSaves, Save!Threads
        <4> QED BY <4>1 DEF Save!ExitKeepsEdits
      <3> QED BY <2>1, <3>3, <3>4 DEF SaveInv, LastInv
    <2> QED BY <2>8, <2>10, <2>11, <2>12, <2>13 DEF SaveInv
  <1>11. CASE Save!Decide(t)
    <2>1. /\ at[t] = "collect" /\ Len(got[t]) = 6
          /\ UNCHANGED <<live, posted, pending, everSaved, lastSaved, fd, disk, tmp, rested>>
      BY <1>2, <1>11 DEF Save!Decide, Save!files
    <2>2. CASE everSaved /\ ~dirty /\ Save!State(t) = lastSaved
      <3>1. Save!Done(t, TRUE) /\ dirty' = dirty
        BY <1>11, <2>2 DEF Save!Decide
      <3>2. disk = Save!Saved(lastSaved)
        BY <1>7, <2>1, <2>2
      <3>3. t = "main" /\ rested => Save!Loaded(disk) = Save!Current
        BY <1>8, <2>1, <2>2, <3>2
      <3> QED BY <1>1, <2>1, <3>1, <3>2, <3>3, SaveEnds
    <2>3. CASE ~(everSaved /\ ~dirty /\ Save!State(t) = lastSaved)
      <3>1. dirty' = FALSE /\ at' = [at EXCEPT ![t] = "open"] /\ UNCHANGED <<stage, got>>
        BY <1>11, <2>3 DEF Save!Decide
      <3> QED BY <1>1, <1>8, <1>9, <2>1, <3>1, SaveGoesOn
    <2> QED BY <2>2, <2>3
  <1>12. CASE Save!Open(t)
    <2>1. /\ at[t] = "open" /\ tmp' = Save!Empty /\ fd' = [fd EXCEPT ![t] = "tmp"]
          /\ at' = [at EXCEPT ![t] = "write"]
          /\ UNCHANGED <<stage, live, posted, pending, dirty, everSaved, lastSaved, got, disk, rested>>
      BY <1>12 DEF Save!Open, Save!session
    <2>2. at[t] # "idle" /\ at[t] \in Late
      BY <2>1 DEF Late
    <2>3. fd' \in [Save!Threads -> {"tmp", "disk", "gone"}] /\ fd'[t] = "tmp"
      BY <1>1, <2>1
    <2> QED BY <1>1, <1>8, <1>9, <2>1, <2>2, <2>3, SaveGoesOn
  <1>13. CASE Save!Write(t)
    <2>1. /\ at[t] = "write" /\ tmp' = (IF fd[t] = "tmp" THEN Save!Saved(Save!State(t)) ELSE tmp)
          /\ disk' = (IF fd[t] = "disk" THEN Save!Saved(Save!State(t)) ELSE disk)
          /\ fd' = [fd EXCEPT ![t] = "gone"] /\ at' = [at EXCEPT ![t] = "rename"]
          /\ UNCHANGED <<stage, live, posted, pending, dirty, everSaved, lastSaved, got, rested>>
      BY <1>13 DEF Save!Write, Save!session
    <2>2. at[t] # "idle" /\ at[t] \in Late
      BY <2>1 DEF Late
    <2>3. fd[t] = "tmp"
      BY <2>1 DEF SaveInv, SavedInv
    <2>4. tmp' = Save!Saved(Save!State(t)) /\ disk' = disk
      BY <2>1, <2>3
    <2>5. fd' \in [Save!Threads -> {"tmp", "disk", "gone"}]
      BY <1>1, <2>1
    <2> QED BY <1>1, <1>8, <1>9, <2>1, <2>2, <2>4, <2>5, SaveGoesOn
  <1>14. CASE Save!Rename(t)
    <2>1. at[t] = "rename" /\ UNCHANGED <<live, posted, pending, dirty, everSaved, lastSaved, rested>>
      BY <1>14 DEF Save!Rename, Save!session
    <2>2. at[t] # "idle" /\ at[t] \in Late
      BY <2>1 DEF Late
    <2>3. tmp = Save!Saved(Save!State(t))
      BY <2>1 DEF SaveInv, SavedInv
    <2>4. tmp # Save!NoFile
      <3>1. tmp.kind = "show" /\ Save!NoFile.kind = "none"
        BY <2>3 DEF Save!Saved, Save!NoFile
      <3> QED BY <3>1
    <2>5. /\ disk' = tmp /\ tmp' = Save!NoFile /\ fd' = [u \in Save!Threads |-> Save!Renamed(fd[u])]
          /\ at' = [at EXCEPT ![t] = "note"] /\ UNCHANGED <<stage, got>>
      BY <1>14, <2>4 DEF Save!Rename
    <2>6. fd' \in [Save!Threads -> {"tmp", "disk", "gone"}]
      BY <2>5 DEF Save!Renamed
    <2>7. disk' = Save!Saved(Save!State(t)) /\ disk' \in ShowFiles
      BY <1>8, <2>2, <2>3, <2>5
    <2> QED BY <1>1, <1>8, <1>9, <2>1, <2>2, <2>5, <2>6, <2>7, SaveGoesOn
  <1>15. CASE Save!Note(t)
    <2>1. /\ at[t] = "note" /\ lastSaved' = Save!State(t) /\ everSaved' = TRUE /\ Save!Done(t, TRUE)
          /\ UNCHANGED <<live, posted, pending, dirty, fd, disk, tmp, rested>>
      BY <1>15 DEF Save!Note, Save!files
    <2>2. at[t] # "idle" /\ at[t] \in Late
      BY <2>1 DEF Late
    <2>3. disk = Save!Saved(Save!State(t))
      BY <2>1 DEF SaveInv, SavedInv
    <2>4. t = "main" /\ rested => Save!Loaded(disk) = Save!Current
      BY <1>8, <2>2, <2>3
    <2> QED BY <1>1, <2>1, <2>2, <2>3, <2>4, SaveEnds
  <1>16. CASE Save!SaveFails(t)
    <2>1. /\ at[t] \in {"open", "write", "rename"} /\ Save!Done(t, FALSE)
          /\ tmp' = (IF at[t] = "rename" THEN Save!NoFile ELSE tmp)
          /\ fd' = (IF at[t] # "rename" THEN fd
                    ELSE [u \in Save!Threads |-> IF fd[u] = "tmp" THEN "gone" ELSE fd[u]])
          /\ UNCHANGED <<live, posted, pending, dirty, everSaved, lastSaved, disk, rested>>
      BY <1>16 DEF Save!SaveFails, Save!session
    <2>2. tmp' \in ShowFiles \cup {Save!NoFile, Save!Empty}
      BY <1>1, <2>1
    <2>3. fd' \in [Save!Threads -> {"tmp", "disk", "gone"}]
      BY <1>1, <2>1
    <2>4. at[t] # "idle" /\ (everSaved => disk = Save!Saved(lastSaved))
      BY <1>7, <2>1
    <2> QED BY <1>1, <2>1, <2>2, <2>3, <2>4, SaveEnds
  <1> QED BY <1>10, <1>11, <1>12, <1>13, <1>14, <1>15, <1>16 DEF Save!Save

\* Every step of the show file keeps the invariant.
LEMMA SaveStep == SideAssumption /\ SaveInv /\ Save!Next => SaveInv'
  BY WorldSaves, ThreadSaves DEF Save!Next

\* What a restart would read is a whole show.
LEMMA SaveWhole == SideAssumption /\ SaveInv => Save!FileWhole /\ Save!ExitKeepsEdits
  <1> SUFFICES ASSUME SideAssumption, SaveInv PROVE Save!FileWhole /\ Save!ExitKeepsEdits
    OBVIOUS
  <1>1. disk \in ShowFiles \cup {Save!NoFile}
    BY DEF SaveInv, SaveShape
  <1>2. CASE disk \in ShowFiles
    <2>1. PICK s \in Collected : disk = Save!Saved(s)
      BY <1>2 DEF ShowFiles
    <2>2. disk.kind = "show" /\ Save!Loaded(disk).width = disk.width
      BY <2>1, LoadsWhole
    <2> QED BY <2>2 DEF Save!FileWhole, SaveInv, LastInv
  <1>3. CASE disk = Save!NoFile
    <2>1. disk.kind = "none"
      BY <1>3 DEF Save!NoFile
    <2> QED BY <2>1 DEF Save!FileWhole, SaveInv, LastInv
  <1> QED BY <1>1, <1>2, <1>3

\* The types of the show file's variables follow from the invariant.
LEMMA SaveTypes == SideAssumption /\ SaveInv => Save!TypeOK
  <1> SUFFICES ASSUME SideAssumption, SaveInv PROVE Save!TypeOK
    OBVIOUS
  <1>1. live \in Collected /\ pending \in Nat
    BY DEF SaveInv, SaveShape, Consistent, EvenWidths
  <1>2. live.fade \in 1 .. MaxFade /\ live.gain \in 0 .. MaxGain
    BY <1>1 DEF Collected
  <1>3. \A f \in ShowFiles \cup {Save!NoFile, Save!Empty} : f.kind \in {"none", "empty", "show"}
    <2>1. \A f \in ShowFiles : f.kind = "show"
      BY LoadsWhole DEF ShowFiles
    <2>2. Save!NoFile.kind = "none" /\ Save!Empty.kind = "empty"
      BY DEF Save!NoFile, Save!Empty
    <2> QED BY <2>1, <2>2
  <1> QED BY <1>1, <1>2, <1>3 DEF SaveInv, SaveShape, SaveSteps, Save!TypeOK

---------------------------------------------------------------------------
(* A control port                                                          *)

\* The messages, what is left of a command, the connections, what a client sends.
States == {Port!NoState, 0, 1}
Pieces == {<< >>} \cup {<<k>> : k \in Nat}
Conns ==
  [follows : BOOLEAN, part : Pieces, out : {o \in Seq(States) : Len(o) <= QueueSize},
   doomed : BOOLEAN]
Units == [kind : Port!Kinds, cmd : Nat]

PortShape ==
  /\ web \in BOOLEAN /\ limits \in Limits /\ moves \in 0 .. limits.moves
  /\ engine \in {0, 1} /\ last \in States /\ push \in BOOLEAN
  /\ phase \in {"poll", "read", "publish"}
  /\ list \in Seq(Clients) /\ Len(list) <= MaxClients /\ todo \in Seq(Clients)
  /\ conn \in [Clients -> Conns] /\ applied \in [Clients -> Seq(Nat)]
  /\ peer \in [Clients -> {"away", "waiting", "in", "gone"}]
  /\ wire \in [Clients -> Seq(Units)]
  /\ sends \in [Clients -> [n : Nat, cmds : Nat, half : BOOLEAN]]
  /\ inbox \in [Clients -> {o \in Seq(States) : Len(o) <= Window}]
  /\ reading \in [Clients -> BOOLEAN] /\ seenState \in [Clients -> States]

\* The server visits those it has accepted.
Accepted ==
  /\ \A i \in 1 .. Len(list) : peer[list[i]] \in {"in", "gone"}
  /\ \A i \in 1 .. Len(todo) : peer[todo[i]] \in {"in", "gone"}
  /\ \A c \in Clients :
       peer[c] \in {"away", "waiting"} => conn[c] = Port!NewConn /\ applied[c] = << >>

InOrder(cmds) == \A i \in 1 .. Len(cmds) : cmds[i] = i

\* The units of w number the commands from n on, h says before which of them, and at the
\* end, half a command is out.
Numbered(w, n, h) ==
  /\ h \in [1 .. Len(w) + 1 -> BOOLEAN]
  /\ \A i \in 1 .. Len(w) :
       /\ w[i].cmd = (IF i = 1 THEN n ELSE w[i - 1].cmd)
                       + (IF w[i].kind \in {"whole", "first"} THEN 1 ELSE 0)
       /\ w[i].kind = "whole" => ~h[i] /\ ~h[i + 1]
       /\ w[i].kind = "first" => ~h[i] /\ h[i + 1]
       /\ w[i].kind = "last" => h[i] /\ ~h[i + 1]
       /\ w[i].kind \notin {"whole", "first", "last"} => h[i + 1] = h[i]

\* What has been applied and half a command make a beginning of what is sent.
Begun(cmds, piece, n, half) ==
  /\ InOrder(cmds) /\ n = Len(cmds) + (IF half THEN 1 ELSE 0)
  /\ piece = IF half THEN <<Len(cmds) + 1>> ELSE << >>

Sent(w, n, m) == m = IF w = << >> THEN n ELSE w[Len(w)].cmd

Chain(c) ==
  \E n \in Nat, h \in [1 .. Len(wire[c]) + 1 -> BOOLEAN] :
    /\ Begun(applied[c], conn[c].part, n, h[1])
    /\ Numbered(wire[c], n, h)
    /\ Sent(wire[c], n, sends[c].cmds) /\ sends[c].half = h[Len(wire[c]) + 1]

PortInv ==
  /\ PortShape /\ Accepted /\ Port!CommandsInOrder
  /\ \A c \in Clients : peer[c] # "gone" /\ ~conn[c].doomed => Chain(c)

\* The sizes of the queues.
LEMMA PortConstants ==
  ASSUME SideAssumption
  PROVE  /\ MaxClients \in Nat \ {0} /\ QueueSize \in Nat \ {0} /\ InSize \in Nat \ {0}
         /\ Window \in Nat \ {0} /\ Limits \subseteq [comers : SUBSET Clients, sends : Nat, moves : Nat]
         /\ Talkers \subseteq Clients
  BY DEF SideAssumption, Port!PortAssumption

\* A message more, or the end of the client.
LEMMA QueueKeeps ==
  ASSUME SideAssumption, web \in BOOLEAN, NEW cn \in Conns, NEW m \in States
  PROVE  /\ Port!Queue(cn, m) \in Conns
         /\ cn.doomed => Port!Queue(cn, m).doomed
         /\ ~Port!Queue(cn, m).doomed => Port!Queue(cn, m).part = cn.part
         /\ Port!Queue(cn, m).follows = cn.follows
  <1> DEFINE q == Port!Queue(cn, m)
             Outs == {o \in Seq(States) : Len(o) <= QueueSize}
  <1>0. QueueSize \in Nat \ {0} /\ << >> \in Seq(States) /\ Len(<< >>) = 0
    BY PortConstants
  <1>1. cn.part \in Pieces /\ cn.out \in Outs /\ cn.doomed \in BOOLEAN /\ cn.follows \in BOOLEAN
    BY DEF Conns
  <1>2. << >> \in Outs /\ << >> \in Pieces
    BY <1>0 DEF Pieces
  <1>3. CASE Len(cn.out) < QueueSize
    <2>1. q = [cn EXCEPT !.out = Append(@, m)]
      BY <1>3 DEF Port!Queue
    <2>2. Append(cn.out, m) \in Outs
      <3> HIDE DEF q
      <3>1. cn.out \in Seq(States)
        BY <1>1
      <3> HIDE DEF States
      <3>2. Append(cn.out, m) \in Seq(States) /\ Len(Append(cn.out, m)) = Len(cn.out) + 1
            /\ Len(cn.out) \in Nat
        BY <3>1
      <3> QED BY <1>0, <1>3, <3>2
    <2> HIDE DEF q
    <2>3. q \in Conns
      BY <2>1, <2>2 DEF Conns
    <2>4. q.doomed = cn.doomed /\ q.part = cn.part /\ q.follows = cn.follows
      BY <2>1 DEF Conns
    <2> QED BY <2>3, <2>4 DEF q
  <1>4. CASE ~(Len(cn.out) < QueueSize) /\ web
    <2>1. q = [cn EXCEPT !.doomed = TRUE]
      BY <1>4 DEF Port!Queue
    <2> HIDE DEF q
    <2>2. q \in Conns /\ q.doomed /\ q.part = cn.part /\ q.follows = cn.follows
      BY <2>1 DEF Conns
    <2> QED BY <2>2 DEF q
  <1>5. CASE ~(Len(cn.out) < QueueSize) /\ ~web
    <2>1. q = [cn EXCEPT !.out = << >>, !.part = << >>, !.doomed = TRUE]
      BY <1>5 DEF Port!Queue
    <2> HIDE DEF q
    <2>2. q \in Conns /\ q.doomed /\ q.follows = cn.follows
      BY <1>2, <2>1 DEF Conns
    <2> QED BY <2>2 DEF q
  <1> QED BY <1>3, <1>4, <1>5

\* The connection goes out of the list.
LEMMA FirstRemoved ==
  ASSUME SideAssumption, list \in Seq(Clients), NEW c \in Clients
  PROVE  /\ Port!RemoveFirst(list, c) \in Seq(Clients)
         /\ Len(Port!RemoveFirst(list, c)) <= Len(list)
         /\ \A i \in 1 .. Len(Port!RemoveFirst(list, c)) :
              \E j \in 1 .. Len(list) : Port!RemoveFirst(list, c)[i] = list[j]
  <1> DEFINE I == {i \in 1 .. Len(list) : list[i] = c}
             r == Port!RemoveFirst(list, c)
  <1>1. CASE I = {}
    <2>1. r = list
      BY <1>1 DEF Port!RemoveFirst
    <2> HIDE DEF r
    <2> QED BY <2>1 DEF r
  <1>2. CASE I # {}
    <2>1. PICK k \in I : \A j \in I : k <= j
      <3>1. I \in SUBSET Nat
        OBVIOUS
      <3> HIDE DEF I
      <3> QED BY <1>2, <3>1, LeastNat
    <2>2. Port!Min(I) \in I
      <3> HIDE DEF I
      <3> QED BY <2>1 DEF Port!Min
    <2>3. r = SubSeq(list, 1, Port!Min(I) - 1) \o SubSeq(list, Port!Min(I) + 1, Len(list))
      BY <1>2 DEF Port!RemoveFirst, Port!SelectInSeq, Port!RemoveAt
    <2> DEFINE m == Port!Min(I)
    <2>4. m \in 1 .. Len(list)
      BY <2>2
    <2> HIDE DEF m, r, I
    <2>5. r = SubSeq(list, 1, m - 1) \o SubSeq(list, m + 1, Len(list))
      BY <2>3 DEF m
    <2> DEFINE a == SubSeq(list, 1, m - 1)
               b == SubSeq(list, m + 1, Len(list))
               N == Len(list)
    <2>6. /\ a \in Seq(Clients) /\ Len(a) = m - 1 /\ b \in Seq(Clients) /\ Len(b) = N - m
          /\ \A i \in 1 .. m - 1 : a[i] = list[i]
          /\ \A i \in 1 .. N - m : b[i] = list[m + i]
      BY <2>4
    <2>n. N \in Nat /\ m \in 1 .. N
      BY <2>4
    <2>5a. r = a \o b
      BY <2>5
    <2> HIDE DEF a, b, N
    <2>7. /\ r \in Seq(Clients) /\ Len(r) = Len(a) + Len(b)
          /\ \A i \in 1 .. Len(a) : r[i] = a[i]
          /\ \A i \in 1 .. Len(b) : r[Len(a) + i] = b[i]
      <3>1. a \in Seq(Clients) /\ b \in Seq(Clients) /\ Len(a) \in Nat /\ Len(b) \in Nat
        BY <2>6
      <3>2. r \in Seq(Clients) /\ Len(r) = Len(a) + Len(b) /\ \A i \in 1 .. Len(a) : r[i] = a[i]
        BY <2>5a, <3>1
      <3>3. ASSUME NEW i \in 1 .. Len(b) PROVE r[Len(a) + i] = b[i]
        <4>1. Len(a) + i \in 1 .. Len(a) + Len(b) /\ Len(a) + i > Len(a) /\ (Len(a) + i) - Len(a) = i
          BY <3>1
        <4>2. (a \o b)[Len(a) + i] = b[(Len(a) + i) - Len(a)]
          BY <3>1, <4>1
        <4> QED BY <2>5a, <4>1, <4>2
      <3> QED BY <3>2, <3>3
    <2>7a. Len(r) = N - 1
      BY <2>6, <2>7, <2>n
    <2>8. ASSUME NEW i \in 1 .. Len(r) PROVE \E j \in 1 .. N : r[i] = list[j]
      <3>0. i \in 1 .. N - 1
        BY <2>7a
      <3>1. CASE i \in 1 .. m - 1
        <4>1. r[i] = list[i] /\ i \in 1 .. N
          BY <2>6, <2>7, <2>n, <3>1
        <4> QED BY <4>1
      <3>2. CASE i >= m
        <4> DEFINE d == i - m + 1
        <4>1. d \in 1 .. N - m /\ i = (m - 1) + d /\ m + d = i + 1 /\ i + 1 \in 1 .. N
          BY <2>n, <3>0, <3>2
        <4> HIDE DEF d
        <4>2. d \in 1 .. Len(b) /\ Len(a) + d = i
          BY <2>6, <4>1
        <4>3. r[Len(a) + d] = b[d]
          BY <2>7, <4>2
        <4>4. b[d] = list[m + d]
          BY <2>6, <4>1
        <4> QED BY <4>1, <4>2, <4>3, <4>4
      <3> QED BY <2>n, <3>0, <3>1, <3>2
    <2>9. Len(r) <= N
      BY <2>7a, <2>n
    <2> QED BY <2>7, <2>8, <2>9 DEF r, N
  <1> QED BY <1>1, <1>2

\* What handling a unit reads and returns.
Visits == [cn : Conns, cmds : Seq(Nat)]

\* A unit that numbers what follows n commands, with half of one out before it or after.
Follows(u, n, before, after) ==
  /\ u.cmd = n + (IF u.kind \in {"whole", "first"} THEN 1 ELSE 0)
  /\ u.kind = "whole" => ~before /\ ~after
  /\ u.kind = "first" => ~before /\ after
  /\ u.kind = "last" => before /\ ~after
  /\ u.kind \notin {"whole", "first", "last"} => after = before

\* One unit of a client.
LEMMA HandleKeeps ==
  ASSUME SideAssumption, web \in BOOLEAN, last \in States, engine \in {0, 1},
         NEW s \in Visits, NEW u \in Units
  PROVE  /\ Port!Handle(s, u) \in Visits
         /\ s.cn.doomed => Port!Handle(s, u) = s
         /\ \A n \in Nat, b \in BOOLEAN, a \in BOOLEAN :
              ~s.cn.doomed /\ Begun(s.cmds, s.cn.part, n, b) /\ Follows(u, n, b, a) =>
                /\ InOrder(Port!Handle(s, u).cmds)
                /\ \/ Port!Handle(s, u).cn.doomed
                   \/ Begun(Port!Handle(s, u).cmds, Port!Handle(s, u).cn.part, u.cmd, a)
  <1> DEFINE r == Port!Handle(s, u)
  <1>1. /\ s.cn \in Conns /\ s.cmds \in Seq(Nat) /\ s.cn.part \in Pieces
        /\ u.kind \in Port!Kinds /\ u.cmd \in Nat
        /\ s = [cn |-> s.cn, cmds |-> s.cmds]
    BY DEF Visits, Units, Conns
  <1>2. Port!Latest \in States /\ Port!NoState \in States
    BY DEF Port!Latest, States
  \* What only queues a message.
  <1>3. ASSUME NEW q \in Conns, r = [cn |-> q, cmds |-> s.cmds], ~q.doomed => q.part = s.cn.part,
               ~s.cn.doomed, u.kind \notin {"whole", "first", "last"}
        PROVE  /\ r \in Visits
               /\ \A n \in Nat, b \in BOOLEAN, a \in BOOLEAN :
                    Begun(s.cmds, s.cn.part, n, b) /\ Follows(u, n, b, a) =>
                      InOrder(r.cmds) /\ (r.cn.doomed \/ Begun(r.cmds, r.cn.part, u.cmd, a))
    <2> HIDE DEF r
    <2>1. r \in Visits /\ r.cn = q /\ r.cmds = s.cmds
      BY <1>1, <1>3 DEF Visits
    <2>2. ASSUME NEW n \in Nat, NEW b \in BOOLEAN, NEW a \in BOOLEAN,
                 Begun(s.cmds, s.cn.part, n, b), Follows(u, n, b, a)
          PROVE  InOrder(r.cmds) /\ (r.cn.doomed \/ Begun(r.cmds, r.cn.part, u.cmd, a))
      <3>1. a = b
        BY <1>3, <2>2 DEF Follows
      <3>2. u.cmd = n
        BY <1>3, <2>2 DEF Follows
      <3>3. InOrder(r.cmds) /\ Begun(r.cmds, s.cn.part, u.cmd, a)
        BY <2>1, <2>2, <3>1, <3>2 DEF Begun
      <3> QED BY <1>3, <2>1, <3>3
    <2> QED BY <2>1, <2>2
  <1>4. CASE s.cn.doomed
    BY <1>4 DEF Port!Handle
  <1>5. CASE ~s.cn.doomed /\ u.kind = "follow"
    <2> DEFINE e == [s.cn EXCEPT !.follows = TRUE]
               q == Port!Queue(e, Port!Latest)
    <2>1. e \in Conns /\ e.part = s.cn.part /\ e.doomed = s.cn.doomed
      BY <1>1 DEF Conns
    <2> HIDE DEF e
    <2>2. q \in Conns /\ (~q.doomed => q.part = s.cn.part)
      BY <1>2, <2>1, QueueKeeps
    <2>3. r = [s EXCEPT !.cn = q]
      BY <1>5 DEF Port!Handle, e
    <2> HIDE DEF q, r
    <2>4. r = [cn |-> q, cmds |-> s.cmds]
      BY <1>1, <2>3
    <2> QED BY <1>3, <1>5, <2>2, <2>4 DEF r
  <1>6. CASE ~s.cn.doomed /\ u.kind = "ping"
    <2> DEFINE q == Port!Queue(s.cn, Port!NoState)
    <2>2. q \in Conns /\ (~q.doomed => q.part = s.cn.part)
      BY <1>1, <1>2, QueueKeeps
    <2>3. r = [s EXCEPT !.cn = q]
      BY <1>6 DEF Port!Handle
    <2> HIDE DEF q, r
    <2>4. r = [cn |-> q, cmds |-> s.cmds]
      BY <1>1, <2>3
    <2> QED BY <1>3, <1>6, <2>2, <2>4 DEF r
  <1>7. CASE ~s.cn.doomed /\ u.kind = "bad"
    <2> DEFINE e == Port!Queue(s.cn, Port!NoState)
               q == [e EXCEPT !.doomed = e.doomed \/ web]
    <2>1. e \in Conns /\ (~e.doomed => e.part = s.cn.part)
      BY <1>1, <1>2, QueueKeeps
    <2>3. r = [s EXCEPT !.cn = q]
      BY <1>7 DEF Port!Handle
    <2> HIDE DEF e, r
    <2>2. q \in Conns /\ q.part = e.part /\ (e.doomed => q.doomed)
      BY <2>1 DEF Conns
    <2> HIDE DEF q
    <2>4. r = [cn |-> q, cmds |-> s.cmds]
      BY <1>1, <2>3
    <2>5. ~q.doomed => q.part = s.cn.part
      BY <2>1, <2>2
    <2> QED BY <1>3, <1>7, <2>2, <2>4, <2>5 DEF r
  <1>8. CASE ~s.cn.doomed /\ u.kind = "whole"
    <2>1. r = [s EXCEPT !.cmds = Append(@, u.cmd)]
      BY <1>8 DEF Port!Handle
    <2>a. Append(s.cmds, u.cmd) \in Seq(Nat)
      BY <1>1
    <2>2. r.cn = s.cn /\ r.cmds = Append(s.cmds, u.cmd) /\ r \in Visits
      <3> DEFINE k == Append(s.cmds, u.cmd)
      <3>1. r = [cn |-> s.cn, cmds |-> k]
        BY <1>1, <2>1
      <3> HIDE DEF k, r
      <3>2. k \in Seq(Nat)
        BY <2>a DEF k
      <3>3. r \in Visits /\ r.cn = s.cn /\ r.cmds = k
        BY <1>1, <3>1, <3>2 DEF Visits
      <3> QED BY <3>3 DEF k
    <2> HIDE DEF r
    <2>3. ASSUME NEW n \in Nat, NEW b \in BOOLEAN, NEW a \in BOOLEAN,
                 Begun(s.cmds, s.cn.part, n, b), Follows(u, n, b, a)
          PROVE  InOrder(r.cmds) /\ Begun(r.cmds, r.cn.part, u.cmd, a)
      <3>1. ~b /\ ~a
        BY <1>8, <2>3 DEF Follows
      <3>2. u.cmd = n + 1
        BY <1>8, <2>3 DEF Follows
      <3>3. n = Len(s.cmds) /\ s.cn.part = << >> /\ InOrder(s.cmds)
        <4>1. n = Len(s.cmds) + (IF b THEN 1 ELSE 0)
          BY <2>3 DEF Begun
        <4>2. n = Len(s.cmds) + 0
          BY <3>1, <4>1
        <4> QED BY <1>1, <2>3, <3>1, <4>2 DEF Begun
      <3>4. InOrder(r.cmds) /\ Len(r.cmds) = u.cmd
        BY <1>1, <2>2, <3>2, <3>3 DEF InOrder
      <3>5. u.cmd = Len(r.cmds) + 0
        BY <1>1, <3>4
      <3> QED BY <2>2, <3>1, <3>3, <3>4, <3>5 DEF Begun
    <2> QED BY <1>8, <2>2, <2>3 DEF r
  <1>9. CASE ~s.cn.doomed /\ u.kind = "first"
    <2>1. r = [s EXCEPT !.cn.part = <<u.cmd>>]
      BY <1>9 DEF Port!Handle
    <2>0. <<u.cmd>> \in Pieces
      BY <1>1 DEF Pieces
    <2>2. r.cn.part = <<u.cmd>> /\ r.cmds = s.cmds /\ r \in Visits
      <3> DEFINE k == <<u.cmd>>
                 q == [s.cn EXCEPT !.part = k]
      <3>1. r = [cn |-> q, cmds |-> s.cmds]
        BY <1>1, <2>1
      <3> HIDE DEF k
      <3>2. q \in Conns /\ q.part = k
        BY <1>1, <2>0 DEF Conns, k
      <3> HIDE DEF q, r
      <3>3. r \in Visits /\ r.cn = q /\ r.cmds = s.cmds
        BY <1>1, <3>1, <3>2 DEF Visits
      <3> QED BY <3>2, <3>3 DEF k
    <2> HIDE DEF r
    <2>3. ASSUME NEW n \in Nat, NEW b \in BOOLEAN, NEW a \in BOOLEAN,
                 Begun(s.cmds, s.cn.part, n, b), Follows(u, n, b, a)
          PROVE  InOrder(r.cmds) /\ Begun(r.cmds, r.cn.part, u.cmd, a)
      <3>1. ~b /\ a
        BY <1>9, <2>3 DEF Follows
      <3>2. u.cmd = n + 1
        BY <1>9, <2>3 DEF Follows
      <3>3. n = Len(s.cmds) /\ InOrder(s.cmds)
        <4>1. n = Len(s.cmds) + (IF b THEN 1 ELSE 0)
          BY <2>3 DEF Begun
        <4>2. n = Len(s.cmds) + 0
          BY <3>1, <4>1
        <4> QED BY <1>1, <2>3, <4>2 DEF Begun
      <3>4. u.cmd = Len(r.cmds) + 1
        BY <2>2, <3>2, <3>3
      <3> QED BY <2>2, <3>1, <3>3, <3>4 DEF Begun
    <2> QED BY <1>9, <2>2, <2>3 DEF r
  <1>10. CASE ~s.cn.doomed /\ u.kind = "last"
    <2>1. r = [s EXCEPT !.cmds = @ \o s.cn.part, !.cn.part = << >>]
      BY <1>10 DEF Port!Handle
    <2>0. << >> \in Pieces /\ s.cn.part \in Seq(Nat)
      <3>1. CASE s.cn.part = << >>
        BY <3>1 DEF Pieces
      <3>2. CASE s.cn.part # << >>
        <4>1. PICK k \in Nat : s.cn.part = <<k>>
          BY <1>1, <3>2 DEF Pieces
        <4> QED BY <4>1 DEF Pieces
      <3> QED BY <3>1, <3>2
    <2>2. r.cn.part = << >> /\ r.cmds = s.cmds \o s.cn.part /\ r \in Visits
      <3> DEFINE k == s.cmds \o s.cn.part
                 q == [s.cn EXCEPT !.part = << >>]
      <3>1. r = [cn |-> q, cmds |-> k]
        BY <1>1, <2>1
      <3>2. k \in Seq(Nat)
        BY <1>1, <2>0
      <3>3. q \in Conns /\ q.part = << >>
        BY <1>1, <2>0 DEF Conns
      <3> HIDE DEF k, q, r
      <3>4. r \in Visits /\ r.cn = q /\ r.cmds = k
        BY <3>1, <3>2, <3>3 DEF Visits
      <3> QED BY <3>3, <3>4 DEF k
    <2> HIDE DEF r
    <2>3. ASSUME NEW n \in Nat, NEW b \in BOOLEAN, NEW a \in BOOLEAN,
                 Begun(s.cmds, s.cn.part, n, b), Follows(u, n, b, a)
          PROVE  InOrder(r.cmds) /\ Begun(r.cmds, r.cn.part, u.cmd, a)
      <3>1. b /\ ~a
        BY <1>10, <2>3 DEF Follows
      <3>2. u.cmd = n
        BY <1>10, <2>3 DEF Follows
      <3>3. n = Len(s.cmds) + 1 /\ s.cn.part = <<Len(s.cmds) + 1>> /\ InOrder(s.cmds)
        BY <2>3, <3>1 DEF Begun
      <3>4. r.cmds = Append(s.cmds, Len(s.cmds) + 1)
        BY <1>1, <2>2, <3>3
      <3>5. InOrder(r.cmds) /\ Len(r.cmds) = u.cmd
        BY <1>1, <3>2, <3>3, <3>4 DEF InOrder
      <3>6. u.cmd = Len(r.cmds) + 0
        BY <1>1, <3>5
      <3> QED BY <2>2, <3>1, <3>5, <3>6 DEF Begun
    <2> QED BY <1>10, <2>2, <2>3 DEF r
  <1> QED BY <1>1, <1>4, <1>5, <1>6, <1>7, <1>8, <1>9, <1>10 DEF Port!Kinds

\* What a client sent, handled from the first unit to the last.
LEMMA HandledKeeps ==
  ASSUME SideAssumption, web \in BOOLEAN, last \in States, engine \in {0, 1},
         NEW c \in Clients, conn[c] \in Conns, applied[c] \in Seq(Nat),
         wire[c] \in Seq(Units), Chain(c), ~conn[c].doomed
  PROVE  /\ Port!Handled(c) \in Visits /\ InOrder(Port!Handled(c).cmds)
         /\ \/ Port!Handled(c).cn.doomed
            \/ Begun(Port!Handled(c).cmds, Port!Handled(c).cn.part, sends[c].cmds, sends[c].half)
  <1> DEFINE w == wire[c]
             N == Len(w)
             s0 == [cn |-> conn[c], cmds |-> applied[c]]
             Iter(g) == g = [S \in SUBSET DOMAIN w |->
                               IF S = {} THEN s0
                               ELSE LET m == Port!Max(S) IN Port!Handle(g[S \ {m}], w[m])]
             h == [p \in Visits \X Units |-> Port!Handle(p[1], p[2])]
  <1>1. Port!Handled(c) = (CHOOSE g : Iter(g))[DOMAIN w]
    BY DEF Port!Handled, Port!FoldLeft, Port!MapThenFoldSet
  <1>2. DOMAIN w = 1 .. N /\ N \in Nat /\ w \in Seq(Units)
    OBVIOUS
  <1>3. h \in [Visits \X Units -> Visits] /\ s0 \in Visits
    <2>1. \A s \in Visits, u \in Units : Port!Handle(s, u) \in Visits
      BY HandleKeeps
    <2> QED BY <2>1 DEF Visits
  <1>4. \A s \in Visits, u \in Units : h[<<s, u>>] = Port!Handle(s, u)
    OBVIOUS
  <1>s. s0.cn = conn[c] /\ s0.cmds = applied[c]
    OBVIOUS
  <1> HIDE DEF h, s0
  <1>5. PICK g \in [SUBSET (1 .. N) -> Visits] : Folds(g, s0, h, w, N)
    BY <1>2, <1>3, FoldExists
  <1>6. \A S : Port!Max(S) = Top(S)
    BY DEF Port!Max, Top
  <1>7. Iter(g)
    <2> DEFINE e == [S \in SUBSET (1 .. N) |->
                       IF S = {} THEN s0
                       ELSE Port!Handle(g[S \ {Top(S)}], w[Top(S)])]
               k == [S \in SUBSET (1 .. N) |->
                       IF S = {} THEN s0 ELSE h[<<g[S \ {Top(S)}], w[Top(S)]>>]]
    <2>1. ASSUME NEW S \in SUBSET (1 .. N), S # {}
          PROVE  Port!Handle(g[S \ {Top(S)}], w[Top(S)]) = h[<<g[S \ {Top(S)}], w[Top(S)]>>]
      <3>1. Top(S) \in 1 .. N /\ S \ {Top(S)} \in SUBSET (1 .. N)
        BY <1>2, <2>1, TopExists
      <3>2. g[S \ {Top(S)}] \in Visits /\ w[Top(S)] \in Units
        BY <1>2, <1>5, <3>1
      <3> QED BY <1>4, <3>2
    <2>2. e = k
      BY <2>1
    <2>3. g = e
      BY <1>5, <2>2 DEF Folds
    <2> HIDE DEF e, k
    <2> QED BY <1>2, <1>6, <2>3 DEF e
  <1>8. PICK f : f = (CHOOSE it : Iter(it)) /\ Iter(f)
    BY <1>7
  <1>9. f[1 .. 0] = s0
        /\ \A n \in 1 .. N : f[1 .. n] = Port!Handle(f[1 .. n - 1], w[n])
    <2> HIDE DEF N
    <2>1. f[1 .. 0] = s0
      <3>1. 1 .. 0 = {} /\ {} \in SUBSET DOMAIN w
        OBVIOUS
      <3> QED BY <1>8, <3>1
    <2>2. ASSUME NEW n \in 1 .. N
          PROVE  f[1 .. n] = Port!Handle(f[1 .. n - 1], w[n])
      <3>0. N \in Nat
        BY <1>2
      <3>1. /\ n \in Nat \ {0} /\ 1 .. n # {} /\ 1 .. n \in SUBSET DOMAIN w
            /\ Top(1 .. n) = n /\ (1 .. n) \ {n} = 1 .. n - 1
        BY <1>2, <3>0, Prefixes
      <3> QED BY <1>2, <1>6, <1>8, <3>1
    <2> QED BY <2>1, <2>2
  <1>10. PICK from \in Nat, b \in [1 .. N + 1 -> BOOLEAN] :
           /\ Begun(applied[c], conn[c].part, from, b[1])
           /\ Numbered(w, from, b)
           /\ Sent(w, from, sends[c].cmds) /\ sends[c].half = b[N + 1]
    BY DEF Chain
  <1> HIDE DEF Iter
  <1> DEFINE told(n) == IF n = 0 THEN from ELSE w[n].cmd
             Good(n) == /\ f[1 .. n] \in Visits /\ InOrder(f[1 .. n].cmds)
                        /\ \/ f[1 .. n].cn.doomed
                           \/ Begun(f[1 .. n].cmds, f[1 .. n].cn.part, told(n), b[n + 1])
             Bad == {n \in 0 .. N : ~Good(n)}
  <1>11. Good(0)
    <2>1. InOrder(applied[c]) /\ told(0) = from /\ 0 + 1 = 1
      BY <1>10 DEF Begun
    <2> HIDE DEF told
    <2> QED BY <1>3, <1>s, <1>9, <1>10, <2>1
  <1>12. ASSUME NEW n \in 1 .. N, Good(n - 1) PROVE Good(n)
    <2> DEFINE r == f[1 .. n - 1]
               t == f[1 .. n]
    <2>1. t = Port!Handle(r, w[n])
      BY <1>9
    <2>2. w[n] \in Units /\ n \in Nat /\ n - 1 \in Nat /\ n \in 1 .. N /\ (n - 1) + 1 = n
          /\ n + 1 \in 1 .. N + 1 /\ n \in 1 .. N + 1 /\ n # 0
      BY <1>2
    <2>3. told(n - 1) \in Nat /\ told(n - 1) = (IF n = 1 THEN from ELSE w[n - 1].cmd)
          /\ told(n) = w[n].cmd
      <3>1. CASE n = 1
        BY <2>2, <3>1
      <3>2. CASE n # 1
        <4>1. n - 1 \in 1 .. N /\ n - 1 # 0
          BY <2>2, <3>2
        <4>2. w[n - 1] \in Units
          BY <1>2, <4>1
        <4>3. w[n - 1].cmd \in Nat
          BY <4>2 DEF Units
        <4> HIDE DEF w
        <4> QED BY <2>2, <3>2, <4>1, <4>3
      <3> QED BY <3>1, <3>2
    <2>4. r \in Visits /\ InOrder(r.cmds)
          /\ (r.cn.doomed \/ Begun(r.cmds, r.cn.part, told(n - 1), b[n]))
      BY <1>12, <2>2
    <2> HIDE DEF r, told
    <2>5. b[n] \in BOOLEAN /\ b[n + 1] \in BOOLEAN
      BY <1>10, <2>2
    <2>6. Follows(w[n], told(n - 1), b[n], b[n + 1])
      <3> HIDE DEF w, N
      <3>1. n \in 1 .. Len(w)
        BY <2>2 DEF N
      <3>2. /\ w[n].cmd = (IF n = 1 THEN from ELSE w[n - 1].cmd)
                            + (IF w[n].kind \in {"whole", "first"} THEN 1 ELSE 0)
            /\ w[n].kind = "whole" => ~b[n] /\ ~b[n + 1]
            /\ w[n].kind = "first" => ~b[n] /\ b[n + 1]
            /\ w[n].kind = "last" => b[n] /\ ~b[n + 1]
            /\ w[n].kind \notin {"whole", "first", "last"} => b[n + 1] = b[n]
        BY <1>10, <3>1 DEF Numbered
      <3>3. w[n].cmd = told(n - 1) + (IF w[n].kind \in {"whole", "first"} THEN 1 ELSE 0)
        BY <2>3, <3>2
      <3> QED BY <3>2, <3>3, Zenon DEF Follows
    <2> HIDE DEF w, t
    <2>7. CASE r.cn.doomed
      <3>1. t = r
        BY <2>1, <2>2, <2>4, <2>7, HandleKeeps
      <3> QED BY <2>4, <2>7, <3>1 DEF t
    <2>8. CASE ~r.cn.doomed
      <3>0. Begun(r.cmds, r.cn.part, told(n - 1), b[n])
        BY <2>4, <2>8
      <3>1. /\ t \in Visits /\ InOrder(t.cmds)
            /\ (t.cn.doomed \/ Begun(t.cmds, t.cn.part, w[n].cmd, b[n + 1]))
        BY <2>1, <2>2, <2>3, <2>4, <2>5, <2>6, <2>8, <3>0, HandleKeeps
      <3> QED BY <2>3, <3>1 DEF t
    <2> QED BY <2>7, <2>8
  <1> HIDE DEF Good
  <1>13. ASSUME Bad # {} PROVE FALSE
    <2>1. PICK n \in Bad : \A m \in Bad : n <= m
      <3>1. Bad \in SUBSET Nat
        OBVIOUS
      <3> HIDE DEF Bad
      <3> QED BY <1>13, <3>1, LeastNat
    <2>2. n \in 0 .. N /\ ~Good(n)
      OBVIOUS
    <2>3. n \in 1 .. N
      <3>1. n # 0
        BY <1>11, <2>2
      <3> QED BY <1>2, <2>2, <3>1
    <2>4. n - 1 \in 0 .. N /\ ~(n <= n - 1)
      BY <1>2, <2>3
    <2>5. Good(n - 1)
      BY <2>1, <2>4
    <2> QED BY <1>12, <2>2, <2>3, <2>5
  <1>14. Good(N)
    BY <1>2, <1>13
  <1>15. Port!Handled(c) = f[1 .. N]
    BY <1>1, <1>2, <1>8
  <1>16. told(N) = sends[c].cmds /\ b[N + 1] = sends[c].half
    <2>1. N = 0 <=> w = << >>
      BY <1>2
    <2> QED BY <1>10, <2>1 DEF Sent
  <1> HIDE DEF told, N
  <1> QED BY <1>14, <1>15, <1>16 DEF Good

\* Before anybody connected nothing was sent.
LEMMA PortInit == SideAssumption /\ Port!Init => PortInv
  <1> SUFFICES ASSUME SideAssumption, Port!Init PROVE PortInv
    OBVIOUS
  <1>1. /\ QueueSize \in Nat /\ Window \in Nat /\ MaxClients \in Nat
        /\ \A l \in Limits : l.moves \in Nat
    BY PortConstants
  <1>2. << >> \in Seq(States) /\ << >> \in Seq(Nat) /\ << >> \in Seq(Units)
        /\ << >> \in Seq(Clients) /\ Len(<< >>) = 0 /\ << >> \in Pieces
    BY DEF Pieces
  <1>3. Port!NoState \in States
    BY DEF States
  <1>4. Port!NewConn \in Conns
    <2>1. << >> \in {o \in Seq(States) : Len(o) <= QueueSize}
      BY <1>1, <1>2
    <2> QED BY <1>2, <2>1 DEF Port!NewConn, Conns
  <1>5. << >> \in {o \in Seq(States) : Len(o) <= Window}
    BY <1>1, <1>2
  <1>6. [n |-> 0, cmds |-> 0, half |-> FALSE] \in [n : Nat, cmds : Nat, half : BOOLEAN]
    OBVIOUS
  <1>7. PortShape
    <2>1. moves \in 0 .. limits.moves /\ limits \in Limits /\ Len(list) <= MaxClients
      BY <1>1, <1>2 DEF Port!Init
    <2>2. /\ conn \in [Clients -> Conns] /\ applied \in [Clients -> Seq(Nat)]
          /\ wire \in [Clients -> Seq(Units)] /\ reading \in [Clients -> BOOLEAN]
          /\ peer \in [Clients -> {"away", "waiting", "in", "gone"}]
          /\ inbox \in [Clients -> {o \in Seq(States) : Len(o) <= Window}]
      BY <1>2, <1>4, <1>5 DEF Port!Init
    <2>3. sends \in [Clients -> [n : Nat, cmds : Nat, half : BOOLEAN]]
          /\ seenState \in [Clients -> States]
      BY <1>3, <1>6 DEF Port!Init
    <2>4. web \in BOOLEAN /\ engine \in {0, 1} /\ last \in States /\ push \in BOOLEAN
          /\ phase \in {"poll", "read", "publish"} /\ list \in Seq(Clients) /\ todo \in Seq(Clients)
      BY <1>2, <1>3 DEF Port!Init
    <2> QED BY <2>1, <2>2, <2>3, <2>4 DEF PortShape
  <1>8. Accepted
    <2>1. list = << >> /\ todo = << >>
          /\ \A c \in Clients : conn[c] = Port!NewConn /\ applied[c] = << >>
      BY DEF Port!Init
    <2> QED BY <1>2, <2>1 DEF Accepted
  <1>9. \A c \in Clients : applied[c] = << >> /\ wire[c] = << >> /\ conn[c].part = << >>
                             /\ sends[c].cmds = 0 /\ sends[c].half = FALSE
    BY DEF Port!Init, Port!NewConn
  <1>10. Port!CommandsInOrder
    BY <1>2, <1>9 DEF Port!CommandsInOrder
  <1>11. ASSUME NEW c \in Clients PROVE Chain(c)
    <2> DEFINE h == [i \in 1 .. 0 + 1 |-> FALSE]
    <2>1. h \in [1 .. Len(wire[c]) + 1 -> BOOLEAN] /\ h[1] = FALSE /\ h[Len(wire[c]) + 1] = FALSE
      BY <1>2, <1>9
    <2> HIDE DEF h
    <2>2. Begun(applied[c], conn[c].part, 0, h[1])
      <3>1. InOrder(applied[c]) /\ Len(applied[c]) = 0
        BY <1>2, <1>9 DEF InOrder
      <3>2. conn[c].part = << >> /\ ~h[1]
        BY <1>9, <2>1
      <3>3. 0 = Len(applied[c]) + (IF h[1] THEN 1 ELSE 0)
        <4>1. 0 = Len(applied[c]) + 0
          BY <3>1
        <4> QED BY <3>2, <4>1, Zenon
      <3> QED BY <3>1, <3>2, <3>3, Zenon DEF Begun
    <2>3. Numbered(wire[c], 0, h)
      BY <1>2, <1>9, <2>1 DEF Numbered
    <2>4. Sent(wire[c], 0, sends[c].cmds) /\ sends[c].half = h[Len(wire[c]) + 1]
      BY <1>9, <2>1 DEF Sent
    <2> QED BY <2>1, <2>2, <2>3, <2>4 DEF Chain
  <1> QED BY <1>7, <1>8, <1>10, <1>11 DEF PortInv

\* What a step leaves of a client.
LEMMA ChainKept ==
  ASSUME NEW c \in Clients, Chain(c),
         applied'[c] = applied[c], conn'[c].part = conn[c].part,
         wire'[c] = wire[c], sends'[c] = sends[c]
  PROVE  Chain(c)'
  BY DEF Chain

\* One unit more of a client.
LEMMA SendKeeps ==
  ASSUME SideAssumption, PortInv, NEW c \in Clients, NEW kind \in Port!Kinds, Port!Send(c, kind)
  PROVE  PortInv'
  <1> DEFINE cmd == IF kind \in {"whole", "first"} THEN sends[c].cmds + 1 ELSE sends[c].cmds
             u == [kind |-> kind, cmd |-> cmd]
             half == kind = "first" \/ (sends[c].half /\ kind # "last")
  <1>1. /\ wire' = [wire EXCEPT ![c] = Append(@, u)]
        /\ sends' = [sends EXCEPT ![c] = [n |-> sends[c].n + 1, cmds |-> cmd, half |-> half]]
    BY DEF Port!Send
  <1>2. UNCHANGED <<web, limits, engine, moves, last, list, conn, applied, phase, todo, ready, push,
                    peer, inbox, reading, seenState>>
    BY DEF Port!Send, Port!fixed, Port!server
  <1>3. /\ sends[c].n \in Nat /\ sends[c].cmds \in Nat /\ sends[c].half \in BOOLEAN
        /\ wire[c] \in Seq(Units) /\ cmd \in Nat /\ web \in BOOLEAN
    BY DEF PortInv, PortShape
  <1>4. half \in BOOLEAN /\ u \in Units
    BY <1>3 DEF Units
  <1>5. /\ kind = "whole" => ~sends[c].half
        /\ kind = "first" => ~sends[c].half
        /\ kind = "last" => sends[c].half
    BY DEF Port!Send, Port!MaySend
  <1>6. /\ kind = "whole" => ~half
        /\ kind = "first" => half
        /\ kind = "last" => ~half
        /\ kind \notin {"whole", "first", "last"} => half = sends[c].half
    BY <1>3, <1>5
  <1>e. u.kind = kind /\ u.cmd = cmd
    OBVIOUS
  <1> HIDE DEF u, half
  <1>7. /\ wire'[c] = Append(wire[c], u) /\ sends'[c].cmds = cmd /\ sends'[c].half = half
        /\ \A d \in Clients \ {c} : wire'[d] = wire[d] /\ sends'[d] = sends[d]
        /\ wire' \in [Clients -> Seq(Units)]
        /\ sends' \in [Clients -> [n : Nat, cmds : Nat, half : BOOLEAN]]
    <2>1. wire \in [Clients -> Seq(Units)] /\ sends \in [Clients -> [n : Nat, cmds : Nat, half : BOOLEAN]]
      BY DEF PortInv, PortShape
    <2>2. wire'[c] = Append(wire[c], u) /\ Append(wire[c], u) \in Seq(Units)
      BY <1>1, <1>3, <1>4, <2>1
    <2>3. [n |-> sends[c].n + 1, cmds |-> cmd, half |-> half] \in [n : Nat, cmds : Nat, half : BOOLEAN]
      BY <1>3, <1>4
    <2> DEFINE v == [n |-> sends[c].n + 1, cmds |-> cmd, half |-> half]
               x == Append(wire[c], u)
    <2>4. v.cmds = cmd /\ v.half = half
      OBVIOUS
    <2> HIDE DEF v, cmd, x
    <2>5. sends'[c] = v /\ (\A d \in Clients \ {c} : sends'[d] = sends[d])
          /\ sends' \in [Clients -> [n : Nat, cmds : Nat, half : BOOLEAN]]
      BY <1>1, <2>1, <2>3 DEF v
    <2>6. wire'[c] = x /\ (\A d \in Clients \ {c} : wire'[d] = wire[d])
          /\ wire' \in [Clients -> Seq(Units)]
      BY <1>1, <2>1, <2>2 DEF x
    <2> QED BY <2>4, <2>5, <2>6 DEF x
  <1>8. PortShape' /\ Accepted' /\ Port!CommandsInOrder'
    <2>1. PortShape'
      BY <1>2, <1>7 DEF PortInv, PortShape
    <2>2. Accepted'
      BY <1>2 DEF PortInv, Accepted
    <2>3. Port!CommandsInOrder'
      BY <1>2 DEF PortInv, Port!CommandsInOrder
    <2> QED BY <2>1, <2>2, <2>3
  <1>9. ASSUME NEW d \in Clients, peer'[d] # "gone" /\ ~conn'[d].doomed PROVE Chain(d)'
    <2>1. Chain(d)
      BY <1>2, <1>9 DEF PortInv
    <2>2. CASE d # c
      BY <1>2, <1>7, <2>1, <2>2, ChainKept
    <2>3. CASE d = c
      <3>1. PICK n \in Nat, h \in [1 .. Len(wire[c]) + 1 -> BOOLEAN] :
              /\ Begun(applied[c], conn[c].part, n, h[1])
              /\ Numbered(wire[c], n, h)
              /\ Sent(wire[c], n, sends[c].cmds) /\ sends[c].half = h[Len(wire[c]) + 1]
        BY <2>1, <2>3 DEF Chain
      <3>s. PICK m \in Nat : m = sends[c].cmds
        BY <1>3
      <3>t. PICK b \in BOOLEAN : b = sends[c].half
        BY <1>3
      <3>u. PICK a \in BOOLEAN : a = half
        BY <1>4
      <3>v. PICK x \in Units : x = u
        BY <1>4
      <3>w. PICK w \in Seq(Units) : w = wire[c]
        BY <1>3
      <3> DEFINE N == Len(w)
                 k == [i \in 1 .. N + 2 |-> IF i <= N + 1 THEN h[i] ELSE a]
                 z == Append(w, x)
      <3>2. N \in Nat /\ Len(z) = N + 1 /\ z[N + 1] = x /\ \A i \in 1 .. N : z[i] = w[i]
        OBVIOUS
      <3>2a. z # << >>
        BY <3>2
      <3>3. /\ k \in [1 .. N + 2 -> BOOLEAN] /\ k[N + 2] = a /\ k[N + 1] = h[N + 1]
            /\ \A i \in 1 .. N + 1 : k[i] = h[i]
        BY <3>1, <3>2, <3>w
      <3>4. /\ x.cmd = m + (IF x.kind \in {"whole", "first"} THEN 1 ELSE 0)
            /\ x.kind = "whole" => ~b /\ ~a
            /\ x.kind = "first" => ~b /\ a
            /\ x.kind = "last" => b /\ ~a
            /\ x.kind \notin {"whole", "first", "last"} => a = b
        <4>1. x.kind = kind /\ x.cmd = cmd
          BY <1>e, <3>v
        <4>2. cmd = m + (IF x.kind \in {"whole", "first"} THEN 1 ELSE 0)
          BY <1>3, <3>s, <4>1
        <4> HIDE DEF cmd
        <4> QED BY <1>5, <1>6, <3>t, <3>u, <4>1, <4>2, Zenon
      <3>5. m = IF N = 0 THEN n ELSE w[N].cmd
        <4>1. w = << >> <=> N = 0
          OBVIOUS
        <4> QED BY <3>1, <3>s, <3>w, <4>1 DEF Sent
      <3>6. h[N + 1] = b
        BY <3>1, <3>t, <3>w
      <3> HIDE DEF k, z, N
      <3>7. Numbered(z, n, k)
        <4>0. N + 1 + 1 = N + 2 /\ Len(z) + 1 = N + 2
          BY <3>2
        <4>1. k \in [1 .. Len(z) + 1 -> BOOLEAN]
          BY <3>3, <4>0
        <4>2. ASSUME NEW i \in 1 .. Len(z)
              PROVE  /\ z[i].cmd = (IF i = 1 THEN n ELSE z[i - 1].cmd)
                                    + (IF z[i].kind \in {"whole", "first"} THEN 1 ELSE 0)
                     /\ z[i].kind = "whole" => ~k[i] /\ ~k[i + 1]
                     /\ z[i].kind = "first" => ~k[i] /\ k[i + 1]
                     /\ z[i].kind = "last" => k[i] /\ ~k[i + 1]
                     /\ z[i].kind \notin {"whole", "first", "last"} => k[i + 1] = k[i]
          <5>1. CASE i = N + 1
            <6>1. z[i] = x /\ k[i] = b /\ k[i + 1] = a
              <7>1. i + 1 = N + 2
                BY <3>2, <5>1
              <7> QED BY <3>2, <3>3, <3>6, <5>1, <7>1
            <6>2. m = IF i = 1 THEN n ELSE z[i - 1].cmd
              <7>1. CASE N = 0
                <8>1. i = 1
                  BY <5>1, <7>1
                <8> QED BY <3>5, <7>1, <8>1
              <7>2. CASE N # 0
                <8>1. i # 1 /\ i - 1 = N /\ N \in 1 .. N
                  BY <3>2, <5>1, <7>2
                <8>2. z[i - 1] = w[N]
                  BY <3>2, <8>1
                <8> QED BY <3>5, <7>2, <8>1, <8>2
              <7> QED BY <7>1, <7>2
            <6>3. z[i].cmd = (IF i = 1 THEN n ELSE z[i - 1].cmd)
                               + (IF z[i].kind \in {"whole", "first"} THEN 1 ELSE 0)
              BY <3>4, <6>1, <6>2
            <6> QED BY <3>4, <6>1, <6>3, Zenon
          <5>2. CASE i # N + 1
            <6>1. i \in 1 .. N /\ i \in 1 .. N + 1 /\ i + 1 \in 1 .. N + 1 /\ i \in 1 .. Len(w)
              BY <3>2, <5>2 DEF N
            <6>2. z[i] = w[i] /\ k[i] = h[i] /\ k[i + 1] = h[i + 1]
              BY <3>2, <3>3, <6>1
            <6>3. (IF i = 1 THEN n ELSE z[i - 1].cmd) = (IF i = 1 THEN n ELSE w[i - 1].cmd)
              <7>1. CASE i = 1
                BY <7>1
              <7>2. CASE i # 1
                <8>1. i - 1 \in 1 .. N
                  BY <3>2, <6>1, <7>2
                <8> QED BY <3>2, <8>1
              <7> QED BY <7>1, <7>2
            <6>4. /\ w[i].cmd = (IF i = 1 THEN n ELSE w[i - 1].cmd)
                                  + (IF w[i].kind \in {"whole", "first"} THEN 1 ELSE 0)
                  /\ w[i].kind = "whole" => ~h[i] /\ ~h[i + 1]
                  /\ w[i].kind = "first" => ~h[i] /\ h[i + 1]
                  /\ w[i].kind = "last" => h[i] /\ ~h[i + 1]
                  /\ w[i].kind \notin {"whole", "first", "last"} => h[i + 1] = h[i]
              BY <3>1, <3>w, <6>1 DEF Numbered
            <6>5. z[i].cmd = (IF i = 1 THEN n ELSE z[i - 1].cmd)
                               + (IF z[i].kind \in {"whole", "first"} THEN 1 ELSE 0)
              BY <6>2, <6>3, <6>4
            <6> QED BY <6>2, <6>4, <6>5, Zenon
          <5> QED BY <5>1, <5>2
        <4> QED BY <4>1, <4>2 DEF Numbered
      <3>8. wire'[c] = z /\ sends'[c].cmds = x.cmd /\ sends'[c].half = a
        <4>1. x.cmd = cmd
          BY <1>e, <3>v
        <4> HIDE DEF cmd
        <4> QED BY <1>7, <3>u, <3>v, <3>w, <4>1 DEF z
      <3>9. Sent(z, n, x.cmd) /\ k[Len(z) + 1] = a
        <4>1. z # << >> /\ z[Len(z)] = x /\ Len(z) + 1 = N + 2
          <5>1. Len(z) = N + 1 /\ N + 1 + 1 = N + 2
            BY <3>2
          <5> QED BY <3>2, <3>2a, <5>1 DEF z
        <4> QED BY <3>3, <4>1 DEF Sent
      <3>10. Begun(applied'[c], conn'[c].part, n, k[1])
        <4>1. 1 \in 1 .. N + 1
          BY <3>2
        <4>2. k[1] = h[1]
          BY <3>3, <4>1
        <4> QED BY <1>2, <3>1, <4>2
      <3>11. k \in [1 .. Len(wire'[c]) + 1 -> BOOLEAN] /\ Numbered(wire'[c], n, k)
             /\ Sent(wire'[c], n, sends'[c].cmds) /\ sends'[c].half = k[Len(wire'[c]) + 1]
        <4>1. k \in [1 .. Len(z) + 1 -> BOOLEAN]
          BY <3>7 DEF Numbered
        <4> QED BY <3>7, <3>8, <3>9, <4>1
      <3>12. \E f \in [1 .. Len(wire'[c]) + 1 -> BOOLEAN] :
               /\ Begun(applied'[c], conn'[c].part, n, f[1])
               /\ Numbered(wire'[c], n, f)
               /\ Sent(wire'[c], n, sends'[c].cmds) /\ sends'[c].half = f[Len(wire'[c]) + 1]
        BY <3>10, <3>11
      <3> QED BY <2>3, <3>12 DEF Chain
    <2> QED BY <2>2, <2>3
  <1> QED BY <1>8, <1>9 DEF PortInv

\* Those the server visits are connected, or were.
LEMMA Visited ==
  ASSUME PortShape, Accepted
  PROVE  /\ \A i \in 1 .. Len(list) : list[i] \in Clients /\ peer[list[i]] \in {"in", "gone"}
         /\ \A i \in 1 .. Len(todo) : todo[i] \in Clients /\ peer[todo[i]] \in {"in", "gone"}
  <1>1. list \in Seq(Clients) /\ todo \in Seq(Clients)
    BY DEF PortShape
  <1>2. /\ \A i \in 1 .. Len(list) : list[i] \in Clients
        /\ \A i \in 1 .. Len(todo) : todo[i] \in Clients
    BY <1>1
  <1> QED BY <1>2 DEF Accepted

\* The clients and the engine.
LEMMA WorldOfThePort ==
  SideAssumption /\ PortInv /\ (Port!World \/ \E c \in Clients : Port!Receive(c)) => PortInv'
  <1> SUFFICES ASSUME SideAssumption, PortInv,
                      Port!World \/ \E c \in Clients : Port!Receive(c)
               PROVE  PortInv'
    OBVIOUS
  <1>0. PortShape /\ Accepted /\ Port!CommandsInOrder
        /\ \A c \in Clients : peer[c] # "gone" /\ ~conn[c].doomed => Chain(c)
    BY DEF PortInv
  <1>m. limits \in Limits /\ limits.moves \in Nat
    BY <1>0, PortConstants DEF PortShape
  <1>1. ASSUME Port!Move PROVE PortInv'
    <2>1. /\ moves' = moves + 1 /\ moves < limits.moves /\ engine' = 1 - engine
          /\ UNCHANGED <<web, limits, last, list, conn, applied, phase, todo, ready, push, peer,
                         wire, sends, inbox, reading, seenState>>
      BY <1>1 DEF Port!Move, Port!fixed, Port!server, Port!client
    <2>2. engine' \in {0, 1} /\ moves' \in 0 .. limits'.moves
      <3>1. engine \in {0, 1} /\ moves \in 0 .. limits.moves
        BY <1>0 DEF PortShape
      <3> QED BY <1>m, <2>1, <3>1
    <2>3. PortShape'
      BY <1>0, <2>1, <2>2 DEF PortShape
    <2>4. Accepted' /\ Port!CommandsInOrder'
      BY <1>0, <2>1 DEF Accepted, Port!CommandsInOrder
    <2>5. ASSUME NEW c \in Clients, peer'[c] # "gone" /\ ~conn'[c].doomed PROVE Chain(c)'
      BY <1>0, <2>1, <2>5, ChainKept
    <2> QED BY <2>3, <2>4, <2>5 DEF PortInv
  <1>2. ASSUME NEW c \in Clients, Port!Connect(c) PROVE PortInv'
    <2>1. /\ peer[c] = "away" /\ peer' = [peer EXCEPT ![c] = "waiting"]
          /\ UNCHANGED <<web, limits, engine, moves, last, list, conn, applied, phase, todo, ready,
                         push, wire, sends, inbox, reading, seenState>>
      BY <1>2 DEF Port!Connect, Port!fixed, Port!server
    <2>2. /\ peer' \in [Clients -> {"away", "waiting", "in", "gone"}]
          /\ \A d \in Clients : peer'[d] = IF d = c THEN "waiting" ELSE peer[d]
      BY <1>0, <2>1 DEF PortShape
    <2>3. PortShape'
      BY <1>0, <2>1, <2>2 DEF PortShape
    <2>4. Accepted'
      <3>1. \A i \in 1 .. Len(list) : list[i] \in Clients /\ peer[list[i]] \in {"in", "gone"}
        BY <1>0, Visited
      <3>2. \A i \in 1 .. Len(todo) : todo[i] \in Clients /\ peer[todo[i]] \in {"in", "gone"}
        BY <1>0, Visited
      <3>3. \A i \in 1 .. Len(list) : peer'[list[i]] \in {"in", "gone"}
        BY <2>1, <2>2, <3>1
      <3>4. \A i \in 1 .. Len(todo) : peer'[todo[i]] \in {"in", "gone"}
        BY <2>1, <2>2, <3>2
      <3> QED BY <1>0, <2>1, <2>2, <3>3, <3>4 DEF Accepted
    <2>5. Port!CommandsInOrder'
      BY <1>0, <2>1 DEF Port!CommandsInOrder
    <2>6. ASSUME NEW d \in Clients, peer'[d] # "gone" /\ ~conn'[d].doomed PROVE Chain(d)'
      <3>1. peer[d] # "gone" /\ ~conn[d].doomed
        BY <2>1, <2>2, <2>6
      <3> QED BY <1>0, <2>1, <3>1, ChainKept
    <2> QED BY <2>3, <2>4, <2>5, <2>6 DEF PortInv
  <1>3. ASSUME NEW c \in Clients, Port!HangUp(c) PROVE PortInv'
    <2>1. /\ peer[c] = "in" /\ peer' = [peer EXCEPT ![c] = "gone"]
          /\ UNCHANGED <<web, limits, engine, moves, last, list, conn, applied, phase, todo, ready,
                         push, wire, sends, inbox, reading, seenState>>
      BY <1>3 DEF Port!HangUp, Port!fixed, Port!server
    <2>2. /\ peer' \in [Clients -> {"away", "waiting", "in", "gone"}]
          /\ \A d \in Clients : peer'[d] = IF d = c THEN "gone" ELSE peer[d]
      BY <1>0, <2>1 DEF PortShape
    <2>3. PortShape'
      BY <1>0, <2>1, <2>2 DEF PortShape
    <2>4. Accepted'
      <3>1. \A i \in 1 .. Len(list) : list[i] \in Clients /\ peer[list[i]] \in {"in", "gone"}
        BY <1>0, Visited
      <3>2. \A i \in 1 .. Len(todo) : todo[i] \in Clients /\ peer[todo[i]] \in {"in", "gone"}
        BY <1>0, Visited
      <3>3. \A i \in 1 .. Len(list) : peer'[list[i]] \in {"in", "gone"}
        BY <2>1, <2>2, <3>1
      <3>4. \A i \in 1 .. Len(todo) : peer'[todo[i]] \in {"in", "gone"}
        BY <2>1, <2>2, <3>2
      <3> QED BY <1>0, <2>1, <2>2, <3>3, <3>4 DEF Accepted
    <2>5. Port!CommandsInOrder'
      BY <1>0, <2>1 DEF Port!CommandsInOrder
    <2>6. ASSUME NEW d \in Clients, peer'[d] # "gone" /\ ~conn'[d].doomed PROVE Chain(d)'
      <3>1. peer[d] # "gone" /\ ~conn[d].doomed
        BY <2>1, <2>2, <2>6
      <3> QED BY <1>0, <2>1, <3>1, ChainKept
    <2> QED BY <2>3, <2>4, <2>5, <2>6 DEF PortInv
  <1>4. ASSUME NEW c \in Clients, Port!StopReading(c) PROVE PortInv'
    <2>1. /\ reading' = [reading EXCEPT ![c] = FALSE]
          /\ UNCHANGED <<web, limits, engine, moves, last, list, conn, applied, phase, todo, ready,
                         push, peer, wire, sends, inbox, seenState>>
      BY <1>4 DEF Port!StopReading, Port!fixed, Port!server
    <2>2. reading' \in [Clients -> BOOLEAN]
      BY <1>0, <2>1 DEF PortShape
    <2>3. PortShape'
      BY <1>0, <2>1, <2>2 DEF PortShape
    <2>4. Accepted' /\ Port!CommandsInOrder'
      BY <1>0, <2>1 DEF Accepted, Port!CommandsInOrder
    <2>5. ASSUME NEW d \in Clients, peer'[d] # "gone" /\ ~conn'[d].doomed PROVE Chain(d)'
      BY <1>0, <2>1, <2>5, ChainKept
    <2> QED BY <2>3, <2>4, <2>5 DEF PortInv
  <1>5. ASSUME NEW c \in Clients, Port!Receive(c) PROVE PortInv'
    <2>1. /\ inbox[c] # << >> /\ inbox' = [inbox EXCEPT ![c] = Tail(@)]
          /\ seenState' = [seenState EXCEPT ![c] =
                             IF Head(inbox[c]) = Port!NoState THEN @ ELSE Head(inbox[c])]
          /\ UNCHANGED <<web, limits, engine, moves, last, list, conn, applied, phase, todo, ready,
                         push, peer, wire, sends, reading>>
      BY <1>5 DEF Port!Receive, Port!fixed, Port!server
    <2>2. /\ inbox \in [Clients -> {o \in Seq(States) : Len(o) <= Window}]
          /\ seenState \in [Clients -> States]
      BY <1>0 DEF PortShape
    <2>3. Tail(inbox[c]) \in {o \in Seq(States) : Len(o) <= Window} /\ Head(inbox[c]) \in States
      <3>0. Window \in Nat
        BY PortConstants
      <3>1. inbox[c] \in Seq(States) /\ Len(inbox[c]) <= Window
        BY <2>2
      <3> HIDE DEF States
      <3>2. /\ Tail(inbox[c]) \in Seq(States) /\ Head(inbox[c]) \in States
            /\ Len(Tail(inbox[c])) = Len(inbox[c]) - 1 /\ Len(inbox[c]) \in Nat
        BY <2>1, <3>1
      <3> QED BY <3>0, <3>1, <3>2
    <2>4. inbox' \in [Clients -> {o \in Seq(States) : Len(o) <= Window}]
      <3> DEFINE v == Tail(inbox[c])
                 A == {o \in Seq(States) : Len(o) <= Window}
      <3> HIDE DEF v, A
      <3> QED BY <2>1, <2>2, <2>3 DEF v, A
    <2>5. seenState' \in [Clients -> States]
      <3> HIDE DEF States
      <3> QED BY <2>1, <2>2, <2>3
    <2>6. PortShape'
      BY <1>0, <2>1, <2>4, <2>5 DEF PortShape
    <2>7. Accepted' /\ Port!CommandsInOrder'
      BY <1>0, <2>1 DEF Accepted, Port!CommandsInOrder
    <2>8. ASSUME NEW d \in Clients, peer'[d] # "gone" /\ ~conn'[d].doomed PROVE Chain(d)'
      BY <1>0, <2>1, <2>8, ChainKept
    <2> QED BY <2>6, <2>7, <2>8 DEF PortInv
  <1> QED BY <1>1, <1>2, <1>3, <1>4, <1>5, SendKeeps DEF Port!World

\* The poll, and the client it lets in or turns away.
LEMMA PollKeeps == SideAssumption /\ PortInv /\ Port!Poll => PortInv'
  <1> SUFFICES ASSUME SideAssumption, PortInv, Port!Poll PROVE PortInv'
    OBVIOUS
  <1>0. PortShape /\ Accepted /\ Port!CommandsInOrder
        /\ \A c \in Clients : peer[c] # "gone" /\ ~conn[c].doomed => Chain(c)
    BY DEF PortInv
  <1>1. /\ phase' = "read" /\ todo' = list
        /\ UNCHANGED <<web, limits, engine, moves, last, applied, push, wire, sends, inbox, reading,
                       seenState>>
    BY DEF Port!Poll, Port!fixed
  <1>2. list \in Seq(Clients) /\ Len(list) <= MaxClients /\ MaxClients \in Nat
    BY <1>0, PortConstants DEF PortShape
  <1>3. peer \in [Clients -> {"away", "waiting", "in", "gone"}] /\ conn \in [Clients -> Conns]
    BY <1>0 DEF PortShape
  <1>4. Port!CommandsInOrder'
    BY <1>0, <1>1 DEF Port!CommandsInOrder
  <1>5. CASE UNCHANGED <<list, conn, peer>>
    <2>1. PortShape'
      BY <1>0, <1>1, <1>5 DEF PortShape
    <2>2. Accepted'
      BY <1>0, <1>1, <1>5 DEF Accepted
    <2>3. ASSUME NEW d \in Clients, peer'[d] # "gone" /\ ~conn'[d].doomed PROVE Chain(d)'
      BY <1>0, <1>1, <1>5, <2>3, ChainKept
    <2> QED BY <1>4, <2>1, <2>2, <2>3 DEF PortInv
  <1>6. ASSUME NEW c \in Clients, peer[c] = "waiting", peer' = [peer EXCEPT ![c] = "gone"],
               UNCHANGED <<list, conn>>
        PROVE  PortInv'
    <2>1. /\ peer' \in [Clients -> {"away", "waiting", "in", "gone"}]
          /\ \A d \in Clients : peer'[d] = IF d = c THEN "gone" ELSE peer[d]
      BY <1>3, <1>6
    <2>2. PortShape'
      BY <1>0, <1>1, <1>6, <2>1 DEF PortShape
    <2>3. Accepted'
      <3>1. \A i \in 1 .. Len(list) : peer'[list[i]] \in {"in", "gone"}
        BY <1>0, <2>1, Visited
      <3> QED BY <1>0, <1>1, <1>6, <2>1, <3>1 DEF Accepted
    <2>4. ASSUME NEW d \in Clients, peer'[d] # "gone" /\ ~conn'[d].doomed PROVE Chain(d)'
      <3>1. peer[d] # "gone" /\ ~conn[d].doomed
        BY <1>6, <2>1, <2>4
      <3> QED BY <1>0, <1>1, <1>6, <3>1, ChainKept
    <2> QED BY <1>4, <2>2, <2>3, <2>4 DEF PortInv
  <1>7. ASSUME NEW c \in Clients, peer[c] = "waiting", Len(list) < MaxClients,
               list' = Append(list, c), peer' = [peer EXCEPT ![c] = "in"],
               conn' = [conn EXCEPT ![c] = IF web THEN Port!NewConn
                                            ELSE Port!Queue(Port!NewConn, Port!NoState)]
        PROVE  PortInv'
    <2> DEFINE q == IF web THEN Port!NewConn ELSE Port!Queue(Port!NewConn, Port!NoState)
    <2>1. /\ peer' \in [Clients -> {"away", "waiting", "in", "gone"}]
          /\ \A d \in Clients : peer'[d] = IF d = c THEN "in" ELSE peer[d]
      BY <1>3, <1>7
    <2>2. conn[c] = Port!NewConn /\ applied[c] = << >>
      BY <1>0, <1>7 DEF Accepted
    <2>3. Port!NewConn \in Conns /\ Port!NoState \in States /\ web \in BOOLEAN
      BY <1>0, <1>3, <2>2 DEF PortShape, States
    <2>4. q \in Conns /\ (~q.doomed => q.part = Port!NewConn.part)
      BY <2>3, QueueKeeps
    <2> HIDE DEF q
    <2>5. /\ conn' \in [Clients -> Conns]
          /\ \A d \in Clients : conn'[d] = IF d = c THEN q ELSE conn[d]
      BY <1>3, <1>7, <2>4 DEF q
    <2>6. /\ list' \in Seq(Clients) /\ Len(list') = Len(list) + 1 /\ list'[Len(list) + 1] = c
          /\ \A i \in 1 .. Len(list) : list'[i] = list[i]
      BY <1>2, <1>7
    <2>7. Len(list') <= MaxClients
      BY <1>2, <1>7, <2>6
    <2>8. PortShape'
      BY <1>0, <1>1, <2>1, <2>5, <2>6, <2>7 DEF PortShape
    <2>9. Accepted'
      <3>1. \A i \in 1 .. Len(list) : peer'[list[i]] \in {"in", "gone"}
        BY <1>0, <2>1, Visited
      <3>2. ASSUME NEW i \in 1 .. Len(list') PROVE peer'[list'[i]] \in {"in", "gone"}
        <4>1. i \in 1 .. Len(list) \/ i = Len(list) + 1
          BY <1>2, <2>6
        <4> QED BY <2>1, <2>6, <3>1, <4>1
      <3>3. ASSUME NEW d \in Clients, peer'[d] \in {"away", "waiting"}
            PROVE  conn'[d] = Port!NewConn /\ applied'[d] = << >>
        <4>1. d # c /\ peer[d] \in {"away", "waiting"}
          BY <2>1, <3>3
        <4> QED BY <1>0, <1>1, <2>5, <4>1 DEF Accepted
      <3> QED BY <1>1, <3>1, <3>2, <3>3 DEF Accepted
    <2>10. ASSUME NEW d \in Clients, peer'[d] # "gone" /\ ~conn'[d].doomed PROVE Chain(d)'
      <3>1. CASE d # c
        <4>1. Chain(d)
          BY <1>0, <2>1, <2>5, <2>10, <3>1
        <4> QED BY <1>1, <2>5, <3>1, <4>1, ChainKept
      <3>2. CASE d = c
        <4>1. Chain(c)
          BY <1>0, <1>7, <2>2 DEF Port!NewConn
        <4>2. conn'[c].part = conn[c].part
          BY <2>2, <2>4, <2>5, <2>10, <3>2
        <4> QED BY <1>1, <3>2, <4>1, <4>2, ChainKept
      <3> QED BY <3>1, <3>2
    <2> QED BY <1>4, <2>8, <2>9, <2>10 DEF PortInv
  <1> QED BY <1>5, <1>6, <1>7 DEF Port!Poll

\* A connection that is closed.
LEMMA CloseKeeps ==
  ASSUME SideAssumption, PortInv, NEW c \in Clients, todo # << >>, c = Head(todo), todo' = Tail(todo),
         Port!Close(c), phase' \in {"poll", "read", "publish"},
         inbox' \in [Clients -> {o \in Seq(States) : Len(o) <= Window}],
         UNCHANGED <<web, limits, engine, moves, last, applied, push, wire, sends, reading, seenState>>
  PROVE  PortInv'
  <1>0. PortShape /\ Accepted /\ Port!CommandsInOrder
        /\ \A d \in Clients : peer[d] # "gone" /\ ~conn[d].doomed => Chain(d)
    BY DEF PortInv
  <1>1. /\ list \in Seq(Clients) /\ Len(list) <= MaxClients /\ todo \in Seq(Clients)
        /\ peer \in [Clients -> {"away", "waiting", "in", "gone"}] /\ conn \in [Clients -> Conns]
    BY <1>0 DEF PortShape
  <1>2. /\ conn' = [conn EXCEPT ![c] = Port!NewConn] /\ peer' = [peer EXCEPT ![c] = "gone"]
        /\ list' = Port!RemoveFirst(list, c)
    BY DEF Port!Close
  <1>3. Port!NewConn \in Conns
    <2>0. QueueSize \in Nat \ {0} /\ << >> \in Seq(States) /\ Len(<< >>) = 0
      BY PortConstants
    <2>1. << >> \in {o \in Seq(States) : Len(o) <= QueueSize} /\ << >> \in Pieces
      BY <2>0 DEF Pieces
    <2> QED BY <2>1 DEF Port!NewConn, Conns
  <1>4. /\ list' \in Seq(Clients) /\ Len(list') <= Len(list)
        /\ \A i \in 1 .. Len(list') : \E j \in 1 .. Len(list) : list'[i] = list[j]
    BY <1>1, <1>2, FirstRemoved
  <1>5. Len(list') <= MaxClients
    <2>1. Len(list) \in Nat /\ Len(list') \in Nat /\ MaxClients \in Nat
      BY <1>1, <1>4, PortConstants
    <2> QED BY <1>1, <1>4, <2>1
  <1>6. todo' \in Seq(Clients) /\ \A i \in 1 .. Len(todo') : i + 1 \in 1 .. Len(todo) /\ todo'[i] = todo[i + 1]
    <2>1. todo' = Tail(todo) /\ Len(Tail(todo)) = Len(todo) - 1 /\ Len(todo) \in Nat
      BY <1>1
    <2> QED BY <1>1, <2>1
  <1>7. /\ peer' \in [Clients -> {"away", "waiting", "in", "gone"}]
        /\ \A d \in Clients : peer'[d] = IF d = c THEN "gone" ELSE peer[d]
    BY <1>1, <1>2
  <1>8. /\ conn' \in [Clients -> Conns]
        /\ \A d \in Clients : conn'[d] = IF d = c THEN Port!NewConn ELSE conn[d]
    <2> DEFINE v == Port!NewConn
    <2> HIDE DEF v
    <2> QED BY <1>1, <1>2, <1>3 DEF v
  <1>9. PortShape'
    BY <1>0, <1>4, <1>5, <1>6, <1>7, <1>8 DEF PortShape
  <1>10. Accepted'
    <2>1. \A i \in 1 .. Len(list) : peer'[list[i]] \in {"in", "gone"}
      BY <1>0, <1>7, Visited
    <2>2. \A i \in 1 .. Len(todo) : peer'[todo[i]] \in {"in", "gone"}
      BY <1>0, <1>7, Visited
    <2>3. \A i \in 1 .. Len(list') : peer'[list'[i]] \in {"in", "gone"}
      BY <1>4, <2>1
    <2>4. \A i \in 1 .. Len(todo') : peer'[todo'[i]] \in {"in", "gone"}
      BY <1>6, <2>2
    <2>5. ASSUME NEW d \in Clients, peer'[d] \in {"away", "waiting"}
          PROVE  conn'[d] = Port!NewConn /\ applied'[d] = << >>
      <3>1. d # c /\ peer[d] \in {"away", "waiting"}
        BY <1>7, <2>5
      <3> QED BY <1>0, <1>8, <3>1 DEF Accepted
    <2> QED BY <2>3, <2>4, <2>5 DEF Accepted
  <1>11. Port!CommandsInOrder'
    BY <1>0 DEF Port!CommandsInOrder
  <1>12. ASSUME NEW d \in Clients, peer'[d] # "gone" /\ ~conn'[d].doomed PROVE Chain(d)'
    <2>1. d # c /\ peer[d] # "gone" /\ conn'[d] = conn[d]
      BY <1>7, <1>8, <1>12
    <2>2. Chain(d)
      BY <1>0, <1>12, <2>1
    <2> QED BY <2>1, <2>2, ChainKept
  <1> QED BY <1>9, <1>10, <1>11, <1>12 DEF PortInv

\* A visit that leaves the connection open.
LEMMA VisitKeeps ==
  ASSUME SideAssumption, PortInv, NEW c \in Clients, todo # << >>, c = Head(todo), todo' = Tail(todo),
         phase' \in {"poll", "read", "publish"},
         inbox' \in [Clients -> {o \in Seq(States) : Len(o) <= Window}],
         NEW q \in Conns, conn' = [conn EXCEPT ![c] = q],
         NEW k \in Seq(Nat), InOrder(k), applied' = [applied EXCEPT ![c] = k],
         wire' \in [Clients -> Seq(Units)], \A d \in Clients \ {c} : wire'[d] = wire[d],
         peer[c] # "gone" /\ ~q.doomed => Chain(c)',
         UNCHANGED <<web, limits, engine, moves, last, list, push, peer, sends, reading, seenState>>
  PROVE  PortInv'
  <1>0. PortShape /\ Accepted /\ Port!CommandsInOrder
        /\ \A d \in Clients : peer[d] # "gone" /\ ~conn[d].doomed => Chain(d)
    BY DEF PortInv
  <1>1. /\ todo \in Seq(Clients) /\ conn \in [Clients -> Conns] /\ applied \in [Clients -> Seq(Nat)]
    BY <1>0 DEF PortShape
  <1>2. todo' \in Seq(Clients) /\ \A i \in 1 .. Len(todo') : i + 1 \in 1 .. Len(todo) /\ todo'[i] = todo[i + 1]
    <2>1. todo' = Tail(todo) /\ Len(Tail(todo)) = Len(todo) - 1 /\ Len(todo) \in Nat
      BY <1>1
    <2> QED BY <1>1, <2>1
  <1>3. conn' \in [Clients -> Conns] /\ \A d \in Clients : conn'[d] = IF d = c THEN q ELSE conn[d]
    BY <1>1
  <1>4. /\ applied' \in [Clients -> Seq(Nat)]
        /\ \A d \in Clients : applied'[d] = IF d = c THEN k ELSE applied[d]
    <2> DEFINE A == Seq(Nat)
    <2> HIDE DEF A
    <2> QED BY <1>1 DEF A
  <1>5. PortShape'
    BY <1>0, <1>2, <1>3, <1>4 DEF PortShape
  <1>6. peer[c] \in {"in", "gone"}
    <2>1. 1 \in 1 .. Len(todo) /\ c = todo[1]
      BY <1>1
    <2> QED BY <1>0, <2>1, Visited
  <1>7. Accepted'
    <2>1. \A i \in 1 .. Len(todo) : peer[todo[i]] \in {"in", "gone"}
      BY <1>0, Visited
    <2>2. \A i \in 1 .. Len(todo') : peer'[todo'[i]] \in {"in", "gone"}
      BY <1>2, <2>1
    <2>3. ASSUME NEW d \in Clients, peer'[d] \in {"away", "waiting"}
          PROVE  conn'[d] = Port!NewConn /\ applied'[d] = << >>
      <3>1. d # c
        BY <1>6, <2>3
      <3> QED BY <1>0, <1>3, <1>4, <2>3, <3>1 DEF Accepted
    <2> QED BY <1>0, <2>2, <2>3 DEF Accepted
  <1>8. Port!CommandsInOrder'
    <2>1. ASSUME NEW d \in Clients, NEW i \in 1 .. Len(applied'[d]) PROVE applied'[d][i] = i
      <3>1. CASE d = c
        <4>1. applied'[d] = k
          BY <1>4, <3>1
        <4> QED BY <2>1, <4>1 DEF InOrder
      <3>2. CASE d # c
        <4>1. applied'[d] = applied[d]
          BY <1>4, <3>2
        <4> QED BY <1>0, <2>1, <4>1 DEF Port!CommandsInOrder
      <3> QED BY <3>1, <3>2
    <2> QED BY <2>1 DEF Port!CommandsInOrder
  <1>9. ASSUME NEW d \in Clients, peer'[d] # "gone" /\ ~conn'[d].doomed PROVE Chain(d)'
    <2>1. CASE d = c
      BY <1>3, <1>9, <2>1
    <2>2. CASE d # c
      <3>1. Chain(d) /\ conn'[d] = conn[d] /\ applied'[d] = applied[d] /\ wire'[d] = wire[d]
        BY <1>0, <1>3, <1>4, <1>9, <2>2
      <3> QED BY <3>1, ChainKept
    <2> QED BY <2>1, <2>2
  <1> QED BY <1>5, <1>7, <1>8, <1>9 DEF PortInv

\* A connection is read, closed or left for the next round.
LEMMA ReadKeeps ==
  ASSUME SideAssumption, PortInv, NEW c \in Clients, Port!ReadClient(c)
  PROVE  PortInv'
  <1>0. PortShape /\ Port!CommandsInOrder
        /\ \A d \in Clients : peer[d] # "gone" /\ ~conn[d].doomed => Chain(d)
    BY DEF PortInv
  <1>1. /\ phase = "read" /\ todo # << >> /\ c = Head(todo) /\ todo' = Tail(todo) /\ phase' = phase
        /\ UNCHANGED <<web, limits, engine, moves, last, push, sends, inbox, reading, seenState>>
    BY DEF Port!ReadClient, Port!fixed
  <1>2. /\ conn \in [Clients -> Conns] /\ applied \in [Clients -> Seq(Nat)]
        /\ wire \in [Clients -> Seq(Units)]
        /\ inbox \in [Clients -> {o \in Seq(States) : Len(o) <= Window}]
        /\ web \in BOOLEAN /\ last \in States /\ engine \in {0, 1}
    BY <1>0 DEF PortShape
  <1>3. conn[c] \in Conns /\ applied[c] \in Seq(Nat) /\ wire[c] \in Seq(Units)
    BY <1>2
  <1>4. InOrder(applied[c])
    BY <1>0 DEF Port!CommandsInOrder, InOrder
  <1>5. inbox' \in [Clients -> {o \in Seq(States) : Len(o) <= Window}]
        /\ phase' \in {"poll", "read", "publish"}
    BY <1>1, <1>2
  <1>6. CASE Port!Close(c) /\ UNCHANGED <<applied, wire>>
    BY <1>1, <1>5, <1>6, CloseKeeps
  <1>7. CASE UNCHANGED <<list, conn, peer, applied, wire>>
    <2>1. PICK q \in Conns : q = conn[c]
      BY <1>3
    <2>2. PICK k \in Seq(Nat) : k = applied[c]
      BY <1>3
    <2>3. conn' = [conn EXCEPT ![c] = q] /\ applied' = [applied EXCEPT ![c] = k]
      <3>1. conn' = [conn EXCEPT ![c] = q]
        BY <1>2, <1>7, <2>1
      <3>2. applied' = [applied EXCEPT ![c] = k]
        <4> DEFINE A == Seq(Nat)
        <4>1. applied \in [Clients -> A]
          BY <1>2
        <4> HIDE DEF A
        <4> QED BY <1>7, <2>2, <4>1
      <3> QED BY <3>1, <3>2
    <2>4. wire' \in [Clients -> Seq(Units)] /\ \A d \in Clients \ {c} : wire'[d] = wire[d]
      BY <1>2, <1>7
    <2>5. peer[c] # "gone" /\ ~q.doomed => Chain(c)'
      <3>1. SUFFICES ASSUME peer[c] # "gone", ~q.doomed PROVE Chain(c)'
        OBVIOUS
      <3>2. Chain(c)
        BY <1>0, <2>1, <3>1
      <3> QED BY <1>1, <1>7, <3>2, ChainKept
    <2>6. InOrder(k)
      BY <1>4, <2>2
    <2> QED BY <1>1, <1>5, <1>7, <2>3, <2>4, <2>5, <2>6, VisitKeeps
  <1>8. CASE /\ conn' = [conn EXCEPT ![c].doomed = TRUE]
             /\ wire' = [wire EXCEPT ![c] = << >>]
             /\ UNCHANGED <<list, peer, applied>>
    <2>1. PICK q : q = [conn[c] EXCEPT !.doomed = TRUE]
      OBVIOUS
    <2>1a. q \in Conns /\ q.doomed
      BY <1>3, <2>1 DEF Conns
    <2>2. PICK k \in Seq(Nat) : k = applied[c]
      BY <1>3
    <2>3. conn' = [conn EXCEPT ![c] = q] /\ applied' = [applied EXCEPT ![c] = k]
      <3>1. conn' = [conn EXCEPT ![c] = q]
        BY <1>8, <2>1
      <3>2. applied' = [applied EXCEPT ![c] = k]
        <4> DEFINE A == Seq(Nat)
        <4>1. applied \in [Clients -> A]
          BY <1>2
        <4> HIDE DEF A
        <4> QED BY <1>8, <2>2, <4>1
      <3> QED BY <3>1, <3>2
    <2>4. wire' \in [Clients -> Seq(Units)] /\ \A d \in Clients \ {c} : wire'[d] = wire[d]
      <3> DEFINE A == Seq(Units)
                 e == << >>
      <3>1. e \in A
        OBVIOUS
      <3> HIDE DEF A, e
      <3> QED BY <1>2, <1>8, <3>1 DEF A, e
    <2>5. peer[c] # "gone" /\ ~q.doomed => Chain(c)'
      BY <2>1a
    <2>6. InOrder(k)
      BY <1>4, <2>2
    <2> QED BY <1>1, <1>5, <1>8, <2>1a, <2>3, <2>4, <2>5, <2>6, VisitKeeps
  <1>9. CASE /\ peer[c] # "gone" /\ ~conn[c].doomed
             /\ conn' = [conn EXCEPT ![c] = Port!Handled(c).cn]
             /\ applied' = [applied EXCEPT ![c] = Port!Handled(c).cmds]
             /\ wire' = [wire EXCEPT ![c] = << >>]
             /\ UNCHANGED <<list, peer>>
    <2>1. Chain(c)
      BY <1>0, <1>9
    <2>2. PICK s : s = Port!Handled(c)
      OBVIOUS
    <2>3. /\ s \in Visits /\ InOrder(s.cmds)
          /\ s.cn.doomed \/ Begun(s.cmds, s.cn.part, sends[c].cmds, sends[c].half)
      BY <1>2, <1>3, <1>9, <2>1, <2>2, HandledKeeps
    <2>4. s.cn \in Conns /\ s.cmds \in Seq(Nat)
      BY <2>3 DEF Visits
    <2>5. PICK q \in Conns : q = s.cn
      BY <2>4
    <2>6. PICK k \in Seq(Nat) : k = s.cmds
      BY <2>4
    <2>7. conn' = [conn EXCEPT ![c] = q] /\ applied' = [applied EXCEPT ![c] = k]
      BY <1>9, <2>2, <2>5, <2>6
    <2>8. /\ wire' \in [Clients -> Seq(Units)] /\ wire'[c] = << >>
          /\ \A d \in Clients \ {c} : wire'[d] = wire[d]
      <3> DEFINE A == Seq(Units)
                 e == << >>
      <3>1. e \in A
        OBVIOUS
      <3> HIDE DEF A, e
      <3> QED BY <1>2, <1>9, <3>1 DEF A, e
    <2>9. conn'[c] = q /\ applied'[c] = k
      <3> DEFINE A == Seq(Nat)
      <3>1. applied \in [Clients -> A]
        BY <1>2
      <3> HIDE DEF A
      <3> QED BY <1>2, <2>7, <3>1
    <2>10. ASSUME peer[c] # "gone", ~q.doomed PROVE Chain(c)'
      <3>1. Begun(k, q.part, sends[c].cmds, sends[c].half)
        BY <2>3, <2>5, <2>6, <2>10
      <3>0. sends[c] \in [n : Nat, cmds : Nat, half : BOOLEAN]
        BY <1>0 DEF PortShape
      <3>2. PICK m \in Nat : m = sends[c].cmds
        BY <3>0
      <3>3. PICK b \in BOOLEAN : b = sends[c].half
        BY <3>0
      <3> DEFINE h == [i \in 1 .. 1 |-> b]
      <3>4. Len(wire'[c]) + 1 = 1
        BY <2>8
      <3>5. h \in [1 .. Len(wire'[c]) + 1 -> BOOLEAN] /\ h[1] = b /\ h[Len(wire'[c]) + 1] = b
        BY <3>4
      <3> HIDE DEF h
      <3>6. Numbered(wire'[c], m, h)
        <4>1. \A i \in 1 .. Len(wire'[c]) : FALSE
          BY <3>4, <2>8
        <4> QED BY <3>5, <4>1 DEF Numbered
      <3>7. Sent(wire'[c], m, sends'[c].cmds) /\ sends'[c].half = h[Len(wire'[c]) + 1]
        BY <1>1, <2>8, <3>2, <3>3, <3>5 DEF Sent
      <3>8. Begun(applied'[c], conn'[c].part, m, h[1])
        BY <2>9, <3>1, <3>2, <3>3, <3>5
      <3>9. \E f \in [1 .. Len(wire'[c]) + 1 -> BOOLEAN] :
              /\ Begun(applied'[c], conn'[c].part, m, f[1])
              /\ Numbered(wire'[c], m, f)
              /\ Sent(wire'[c], m, sends'[c].cmds) /\ sends'[c].half = f[Len(wire'[c]) + 1]
        BY <3>5, <3>6, <3>7, <3>8
      <3> QED BY <3>9 DEF Chain
    <2>11. InOrder(k)
      BY <2>3, <2>6
    <2> QED BY <1>1, <1>5, <1>9, <2>7, <2>8, <2>10, <2>11, VisitKeeps
  <1>10. \/ Port!Close(c) /\ UNCHANGED <<applied, wire>>
         \/ UNCHANGED <<list, conn, peer, applied, wire>>
         \/ /\ conn' = [conn EXCEPT ![c].doomed = TRUE]
            /\ wire' = [wire EXCEPT ![c] = << >>]
            /\ UNCHANGED <<list, peer, applied>>
         \/ /\ peer[c] # "gone" /\ ~conn[c].doomed
            /\ conn' = [conn EXCEPT ![c] = Port!Handled(c).cn]
            /\ applied' = [applied EXCEPT ![c] = Port!Handled(c).cmds]
            /\ wire' = [wire EXCEPT ![c] = << >>]
            /\ UNCHANGED <<list, peer>>
    <2>1. \/ conn[c].doomed /\ ~web
          \/ ~(conn[c].doomed /\ ~web) /\ c \notin ready
          \/ ~(conn[c].doomed /\ ~web) /\ c \in ready
      OBVIOUS
    <2>2. CASE conn[c].doomed /\ ~web
      BY <2>2, Zenon DEF Port!ReadClient
    <2>3. CASE ~(conn[c].doomed /\ ~web) /\ c \notin ready
      BY <2>3, Zenon DEF Port!ReadClient
    <2>4. CASE ~(conn[c].doomed /\ ~web) /\ c \in ready
      <3>1. CASE peer[c] = "gone" \/ (Port!Flooded(c) /\ ~web)
        BY <2>4, <3>1, Zenon DEF Port!ReadClient
      <3>2. CASE ~(peer[c] = "gone" \/ (Port!Flooded(c) /\ ~web))
        <4>1. CASE Port!Flooded(c) \/ conn[c].doomed
          BY <2>4, <3>2, <4>1, Zenon DEF Port!ReadClient
        <4>2. CASE ~(Port!Flooded(c) \/ conn[c].doomed)
          <5>1. peer[c] # "gone" /\ ~conn[c].doomed
            BY <3>2, <4>2, Zenon
          <5> QED BY <2>4, <3>2, <4>2, <5>1, Zenon DEF Port!ReadClient
        <4> QED BY <4>1, <4>2
      <3> QED BY <3>1, <3>2
    <2> QED BY <2>1, <2>2, <2>3, <2>4
  <1> QED BY <1>6, <1>7, <1>8, <1>9, <1>10

\* What is published from now on.
LEMMA PublishKeeps ==
  ASSUME SideAssumption, PortInv, Port!Publish
  PROVE  PortInv'
  <1>0. PortShape /\ Accepted /\ Port!CommandsInOrder
        /\ \A d \in Clients : peer[d] # "gone" /\ ~conn[d].doomed => Chain(d)
    BY DEF PortInv
  <1>1. /\ todo' = list /\ phase' \in {"poll", "read", "publish"} /\ push' = Port!Changed
        /\ last' = engine
        /\ UNCHANGED <<web, limits, engine, moves, list, conn, applied, ready, peer, wire, sends,
                       inbox, reading, seenState>>
    BY DEF Port!Publish, Port!fixed, Port!client
  <1>2. last' \in States /\ push' \in BOOLEAN
    BY <1>0, <1>1 DEF PortShape, States, Port!Changed
  <1>3. PortShape'
    BY <1>0, <1>1, <1>2 DEF PortShape
  <1>4. Accepted' /\ Port!CommandsInOrder'
    BY <1>0, <1>1 DEF Accepted, Port!CommandsInOrder
  <1>5. ASSUME NEW d \in Clients, peer'[d] # "gone" /\ ~conn'[d].doomed PROVE Chain(d)'
    BY <1>0, <1>1, <1>5, ChainKept
  <1> QED BY <1>3, <1>4, <1>5 DEF PortInv

\* The state is queued for a client, and what its socket takes is written.
LEMMA PublishToKeeps ==
  ASSUME SideAssumption, PortInv, NEW c \in Clients, Port!PublishTo(c)
  PROVE  PortInv'
  <1> DEFINE cn == Port!Pushed(c)
             room == Window - Len(inbox[c])
             n == IF Len(cn.out) < room THEN Len(cn.out) ELSE room
             rest == [cn EXCEPT !.out = SubSeq(@, n + 1, Len(@))]
             Boxes == {o \in Seq(States) : Len(o) <= Window}
  <1>0. PortShape /\ Port!CommandsInOrder
        /\ \A d \in Clients : peer[d] # "gone" /\ ~conn[d].doomed => Chain(d)
    BY DEF PortInv
  <1>1. /\ todo # << >> /\ c = Head(todo) /\ todo' = Tail(todo)
        /\ phase' \in {"poll", "read", "publish"}
        /\ \/ Port!Close(c) /\ UNCHANGED inbox
           \/ /\ inbox' = [inbox EXCEPT ![c] = @ \o SubSeq(cn.out, 1, n)]
              /\ \/ Port!Close(c)
                 \/ conn' = [conn EXCEPT ![c] = rest] /\ UNCHANGED <<list, peer>>
        /\ UNCHANGED <<web, limits, engine, moves, last, applied, push, wire, sends, reading,
                       seenState>>
    BY DEF Port!PublishTo, Port!fixed
  <1>2. /\ conn \in [Clients -> Conns] /\ inbox \in [Clients -> Boxes] /\ web \in BOOLEAN
        /\ last \in States /\ applied \in [Clients -> Seq(Nat)] /\ wire \in [Clients -> Seq(Units)]
    BY <1>0 DEF PortShape
  <1>3. conn[c] \in Conns /\ inbox[c] \in Seq(States) /\ Len(inbox[c]) <= Window /\ Window \in Nat
    BY <1>2, PortConstants
  <1>4. /\ cn \in Conns /\ (conn[c].doomed => cn.doomed) /\ (~cn.doomed => cn.part = conn[c].part)
    BY <1>2, <1>3, QueueKeeps DEF Port!Pushed
  <1>5. cn.out \in Seq(States) /\ Len(cn.out) <= QueueSize /\ QueueSize \in Nat
    BY <1>4, PortConstants DEF Conns
  <1> HIDE DEF cn
  <1>6. room \in Nat /\ n \in Nat /\ n <= room /\ n <= Len(cn.out) /\ Len(cn.out) \in Nat
        /\ Len(inbox[c]) \in Nat
    <2> HIDE DEF States
    <2>1. Len(inbox[c]) \in Nat /\ Len(cn.out) \in Nat
      BY <1>3, <1>5
    <2> QED BY <1>3, <2>1
  <1>7. /\ SubSeq(cn.out, 1, n) \in Seq(States) /\ Len(SubSeq(cn.out, 1, n)) = n
        /\ SubSeq(cn.out, n + 1, Len(cn.out)) \in Seq(States)
        /\ Len(SubSeq(cn.out, n + 1, Len(cn.out))) <= QueueSize
    <2> HIDE DEF States, n, room
    <2>1. /\ SubSeq(cn.out, 1, n) \in Seq(States) /\ Len(SubSeq(cn.out, 1, n)) = n
      BY <1>5, <1>6
    <2>2. /\ SubSeq(cn.out, n + 1, Len(cn.out)) \in Seq(States)
          /\ Len(SubSeq(cn.out, n + 1, Len(cn.out))) = Len(cn.out) - n
      BY <1>5, <1>6
    <2> QED BY <1>5, <1>6, <2>1, <2>2
  <1>8. inbox[c] \o SubSeq(cn.out, 1, n) \in Boxes
    <2> DEFINE x == SubSeq(cn.out, 1, n)
    <2>1. x \in Seq(States) /\ Len(x) = n
      BY <1>7
    <2>2. n <= Window - Len(inbox[c]) /\ n \in Nat /\ Len(inbox[c]) \in Nat
      BY <1>6
    <2> HIDE DEF States, n, x, room
    <2>3. inbox[c] \o x \in Seq(States) /\ Len(inbox[c] \o x) = Len(inbox[c]) + Len(x)
      BY <1>3, <2>1
    <2>4. Len(inbox[c] \o x) <= Window
      BY <1>3, <2>1, <2>2, <2>3
    <2> QED BY <2>3, <2>4 DEF x
  <1>9. ASSUME inbox' = [inbox EXCEPT ![c] = @ \o SubSeq(cn.out, 1, n)]
        PROVE  inbox' \in [Clients -> Boxes]
    <2> DEFINE y == inbox[c] \o SubSeq(cn.out, 1, n)
    <2>1. y \in Boxes /\ inbox' = [inbox EXCEPT ![c] = y]
      BY <1>8, <1>9
    <2> HIDE DEF y, Boxes
    <2> QED BY <1>2, <2>1
  <1>10. rest \in Conns /\ rest.doomed = cn.doomed /\ rest.part = cn.part
    <2> DEFINE z == SubSeq(cn.out, n + 1, Len(cn.out))
               Outs == {o \in Seq(States) : Len(o) <= QueueSize}
    <2>1. rest = [cn EXCEPT !.out = z] /\ z \in Outs
      BY <1>7
    <2> HIDE DEF z, n, rest
    <2> QED BY <1>4, <2>1 DEF Conns
  <1>11. CASE Port!Close(c) /\ UNCHANGED inbox
    BY <1>1, <1>2, <1>11, CloseKeeps
  <1>12. CASE inbox' = [inbox EXCEPT ![c] = @ \o SubSeq(cn.out, 1, n)] /\ Port!Close(c)
    <2>1. inbox' \in [Clients -> {o \in Seq(States) : Len(o) <= Window}]
      BY <1>9, <1>12
    <2> QED BY <1>1, <1>12, <2>1, CloseKeeps
  <1>13. CASE /\ inbox' = [inbox EXCEPT ![c] = @ \o SubSeq(cn.out, 1, n)]
              /\ conn' = [conn EXCEPT ![c] = rest] /\ UNCHANGED <<list, peer>>
    <2>1. inbox' \in [Clients -> {o \in Seq(States) : Len(o) <= Window}]
      BY <1>9, <1>13
    <2> HIDE DEF rest, n
    <2>2. PICK q \in Conns : q = rest
      BY <1>10
    <2>3. applied[c] \in Seq(Nat) /\ InOrder(applied[c])
      BY <1>0, <1>2 DEF Port!CommandsInOrder, InOrder
    <2>4. PICK k \in Seq(Nat) : k = applied[c]
      BY <2>3
    <2>5. conn' = [conn EXCEPT ![c] = q] /\ applied' = [applied EXCEPT ![c] = k]
      <3>1. conn' = [conn EXCEPT ![c] = q]
        BY <1>13, <2>2
      <3>2. applied' = [applied EXCEPT ![c] = k]
        <4> DEFINE A == Seq(Nat)
        <4>1. applied \in [Clients -> A]
          BY <1>2
        <4> HIDE DEF A
        <4> QED BY <1>1, <2>4, <4>1
      <3> QED BY <3>1, <3>2
    <2>6. conn'[c] = q
      BY <1>2, <2>5
    <2>7. ASSUME peer[c] # "gone", ~q.doomed PROVE Chain(c)'
      <3>1. ~conn[c].doomed /\ conn'[c].part = conn[c].part
        BY <1>4, <1>10, <2>2, <2>6, <2>7
      <3>2. Chain(c)
        BY <1>0, <2>7, <3>1
      <3> QED BY <1>1, <3>1, <3>2, ChainKept
    <2>8. InOrder(k)
      BY <2>3, <2>4
    <2>9. wire' \in [Clients -> Seq(Units)] /\ \A d \in Clients \ {c} : wire'[d] = wire[d]
      BY <1>1, <1>2
    <2> QED BY <1>1, <1>13, <2>1, <2>5, <2>7, <2>8, <2>9, VisitKeeps
  <1> QED BY <1>1, <1>11, <1>12, <1>13

\* Every step of a port keeps the order of what was sent.
LEMMA PortStep == SideAssumption /\ PortInv /\ Port!Next => PortInv'
  BY WorldOfThePort, PollKeeps, ReadKeeps, PublishKeeps, PublishToKeeps DEF Port!Next, Port!Turn

\* The types of a port's variables follow from the invariant.
LEMMA PortTypes == PortInv => Port!TypeOK
  <1> SUFFICES ASSUME PortInv PROVE Port!TypeOK
    OBVIOUS
  <1>0. PortShape
    BY DEF PortInv
  <1>1. Port!ToSet(list) \subseteq Clients /\ Len(list) <= MaxClients
    BY <1>0 DEF PortShape, Port!ToSet
  <1>2. ASSUME NEW c \in Clients
        PROVE  /\ Len(conn[c].out) <= QueueSize /\ Len(conn[c].part) <= 1
               /\ Len(inbox[c]) <= Window
               /\ peer[c] \in {"away", "waiting", "in", "gone"}
               /\ seenState[c] \in {Port!NoState, 0, 1}
    <2>1. conn[c] \in Conns /\ inbox[c] \in {o \in Seq(States) : Len(o) <= Window}
          /\ peer[c] \in {"away", "waiting", "in", "gone"} /\ seenState[c] \in States
      BY <1>0 DEF PortShape
    <2>2. conn[c].part \in Pieces /\ Len(conn[c].out) <= QueueSize
      BY <2>1 DEF Conns
    <2>3. Len(conn[c].part) <= 1
      <3>1. CASE conn[c].part = << >>
        BY <3>1
      <3>2. CASE conn[c].part # << >>
        <4>1. PICK k \in Nat : conn[c].part = <<k>>
          BY <2>2, <3>2 DEF Pieces
        <4> QED BY <4>1
      <3> QED BY <3>1, <3>2
    <2> QED BY <2>1, <2>2, <2>3 DEF States
  <1>3. {engine} \subseteq {0, 1} /\ last \in {Port!NoState, 0, 1} /\ moves \in 0 .. limits.moves
        /\ phase \in {"poll", "read", "publish"}
    BY <1>0 DEF PortShape, States
  <1> QED BY <1>1, <1>2, <1>3 DEF Port!TypeOK

---------------------------------------------------------------------------
(* Patching one input                                                      *)

PatchRefs == Feeds \cup Stills \cup Clips \cup {""}
PatchTypes == {"omt", "still", "media"}

\* What a request is made of, and what normalizeInputSpec leaves.
Drafts ==
  {s \in [type : PatchTypes, ref : PatchRefs, list : Seq(PatchRefs), sync : Syncs, plays : BOOLEAN] :
     s.type # "media" => s.list = << >>}

Settled ==
  {s \in Drafts : s.type = "media" => IF s.list = << >> THEN s.ref = "" ELSE s.ref = Head(s.list)}

PatchSteps ==
  [replace  |-> {"ref", "type", "sync", "post"},
   playlist |-> {"keepsync", "state", "type", "list", "sync", "post"},
   sync     |-> {"change", "readtype", "readref", "readlist", "state", "keep"}]

\* A sync request has a list only when it has read that the input is a player.
HalfRead(stp, new) ==
  /\ stp \in {"change", "readtype", "readref", "readlist"} => new.list = << >>
  /\ stp = "readlist" => new.type = "media"

PatchShape ==
  /\ spec \in Settled /\ queued \in Seq(Settled) /\ swapping \in Seq(Settled)
  /\ playing \in BOOLEAN /\ calm \in BOOLEAN
  /\ asks \in 0 .. MaxAsks
  /\ asked.kind \in DOMAIN PatchSteps \cup {"none"}
  /\ \/ /\ req = Patch!NoReq
        /\ Len(queued) + Len(swapping) <= asks
     \/ /\ asked.kind # "none" /\ req.kind = asked.kind
        /\ req \in [step : PatchSteps[asked.kind], kind : DOMAIN PatchSteps, new : Drafts]
        /\ HalfRead(req.step, req.new)
        /\ Len(queued) + Len(swapping) < asks

\* What the request in hand has read, if nothing else is on its way, is what is there:
\* so far the source it would post is the source that was asked for.
ReplaceSoFar ==
  /\ req.new.list = << >>
  /\ asked.source = Patch!SourceOf(Patch!Normal(req.new))
  /\ req.step \in {"type", "sync"} => req.new.ref = spec.ref
  /\ req.step = "sync" => req.new.type = spec.type

PlaylistSoFar ==
  /\ req.new.type = "media" /\ req.new.list # << >> /\ req.new.ref = Head(req.new.list)
  /\ asked.source = Patch!SourceOf(req.new)
  /\ req.step \in {"list", "sync"} => spec.type = "media"
  /\ req.step = "sync" => req.new.list = spec.list

SyncSoFar ==
  /\ asked.source = Patch!SourceOf(spec)
  /\ req.step = "readref" => req.new.type = spec.type
  /\ req.step = "readlist" => req.new.type = spec.type /\ req.new.ref = spec.ref
  /\ req.step \in {"state", "keep"} => Patch!SourceOf(req.new) = Patch!SourceOf(spec)

CalmSoFar ==
  calm /\ req # Patch!NoReq =>
    /\ queued = << >> /\ swapping = << >>
    /\ asked.kind = "replace" => ReplaceSoFar
    /\ asked.kind = "playlist" => PlaylistSoFar
    /\ asked.kind = "sync" => SyncSoFar

PatchInv == PatchShape /\ CalmSoFar /\ Patch!CalmRequestsKeepSource

\* What an input is about to be is the last of what is queued, or being swapped in, or
\* what it is.
LEMMA NewestIs ==
  ASSUME NEW S, NEW s \in S, NEW q \in Seq(S), NEW w \in Seq(S)
  PROVE  Patch!Last(<<s>> \o w \o q) =
           IF q # << >> THEN q[Len(q)] ELSE IF w # << >> THEN w[Len(w)] ELSE s
  BY DEF Patch!Last

\* normalizeInputSpec settles what it is given.
LEMMA NormalSettles ==
  ASSUME SideAssumption, NEW s \in Drafts
  PROVE  /\ Patch!Normal(s) \in Settled
         /\ Patch!Normal(s).type = s.type
         /\ s \in Settled => Patch!SourceOf(Patch!Normal(s)) = Patch!SourceOf(s)
         /\ s.list = << >> => Patch!Normal(s).ref = s.ref
  <1>1. -1 \in Syncs
    BY SideAssumption DEF SideAssumption, Patch!PatchAssumption
  <1> DEFINE l == IF s.list = << >> /\ s.ref # "" THEN <<s.ref>> ELSE s.list
  <1>2. CASE s.type = "still"
    BY <1>1, <1>2 DEF Patch!Normal, Patch!SourceOf, Settled, Drafts
  <1>3. CASE s.type = "omt"
    BY <1>3 DEF Patch!Normal, Patch!SourceOf, Settled, Drafts
  <1>4. CASE s.type = "media"
    <2>1. s.ref \in PatchRefs /\ s.list \in Seq(PatchRefs)
      BY DEF Drafts
    <2>2. Patch!Normal(s) = [s EXCEPT !.list = l, !.ref = IF l = << >> THEN s.ref ELSE Head(l)]
      BY <1>4 DEF Patch!Normal
    <2>3. CASE s.list # << >>
      <3>1. Head(s.list) \in PatchRefs /\ l = s.list
        BY <2>1, <2>3
      <3> HIDE DEF l
      <3> QED BY <1>4, <2>1, <2>2, <2>3, <3>1 DEF Patch!SourceOf, Settled, Drafts
    <2>4. CASE s.list = << >> /\ s.ref # ""
      <3>1. l = <<s.ref>>
        BY <2>4
      <3>2. l # << >> /\ Head(l) = s.ref /\ l \in Seq(PatchRefs)
        <4> HIDE DEF l
        <4> QED BY <2>1, <3>1
      <3> HIDE DEF l
      <3> QED BY <1>4, <2>1, <2>2, <2>4, <3>2 DEF Patch!SourceOf, Settled, Drafts
    <2>5. CASE s.list = << >> /\ s.ref = ""
      <3>1. l = << >>
        BY <2>5
      <3> HIDE DEF l
      <3> QED BY <1>4, <2>1, <2>2, <2>5, <3>1 DEF Patch!SourceOf, Settled, Drafts
    <2> QED BY <2>3, <2>4, <2>5
  <1> QED BY <1>2, <1>3, <1>4 DEF Drafts, PatchTypes

\* An input starts as what the show has it be, with no request about it.
LEMMA PatchInit == SideAssumption /\ Patch!Init => PatchInv
  <1> SUFFICES ASSUME SideAssumption, Patch!Init PROVE PatchInv
    OBVIOUS
  <1>1. -1 \in Syncs /\ MaxAsks \in Nat
    BY SideAssumption DEF SideAssumption, Patch!PatchAssumption
  <1>2. spec \in Settled
    <2>1. spec = [type |-> "omt", ref |-> "", list |-> << >>, sync |-> -1, plays |-> TRUE]
      BY DEF Patch!Init, Patch!Spec0, Patch!Black
    <2>2. "" \in PatchRefs /\ "omt" \in PatchTypes /\ << >> \in Seq(PatchRefs)
      BY DEF PatchRefs, PatchTypes
    <2> QED BY <1>1, <2>1, <2>2 DEF Settled, Drafts
  <1>3. PatchShape
    <2>1. /\ queued = << >> /\ swapping = << >> /\ playing = TRUE /\ calm = TRUE
          /\ asks = 0 /\ asked.kind = "none" /\ req = Patch!NoReq
      BY DEF Patch!Init
    <2>2. queued \in Seq(Settled) /\ swapping \in Seq(Settled) /\ Len(queued) + Len(swapping) <= asks
      BY <2>1
    <2> QED BY <1>1, <1>2, <2>1, <2>2 DEF PatchShape
  <1>4. CalmSoFar /\ Patch!CalmRequestsKeepSource
    BY DEF Patch!Init, CalmSoFar, Patch!CalmRequestsKeepSource
  <1> QED BY <1>3, <1>4 DEF PatchInv

\* A request in hand, or none.
LEMMA InHand ==
  ASSUME PatchShape
  PROVE  /\ req = Patch!NoReq <=> req.step = "none"
         /\ req # Patch!NoReq =>
              /\ asked.kind \in DOMAIN PatchSteps /\ req.kind = asked.kind
              /\ req \in [step : PatchSteps[asked.kind], kind : DOMAIN PatchSteps, new : Drafts]
              /\ HalfRead(req.step, req.new)
              /\ Len(queued) + Len(swapping) < asks
  <1>1. Patch!NoReq.step = "none"
    BY DEF Patch!NoReq
  <1>2. \A k \in DOMAIN PatchSteps : "none" \notin PatchSteps[k]
    BY DEF PatchSteps
  <1>3. ASSUME req # Patch!NoReq
        PROVE  /\ asked.kind \in DOMAIN PatchSteps /\ req.kind = asked.kind
               /\ req \in [step : PatchSteps[asked.kind], kind : DOMAIN PatchSteps, new : Drafts]
               /\ HalfRead(req.step, req.new)
               /\ Len(queued) + Len(swapping) < asks
    BY <1>3 DEF PatchShape
  <1>4. ASSUME req # Patch!NoReq PROVE req.step # "none"
    BY <1>2, <1>3, <1>4
  <1> QED BY <1>1, <1>3, <1>4

\* What the input is about to be, while one of its specifications goes from hand to hand.
LEMMA NewestStays ==
  ASSUME PatchInv, Patch!Take \/ Patch!Swap
  PROVE  PatchInv'
  <1>1. spec \in Settled /\ queued \in Seq(Settled) /\ swapping \in Seq(Settled)
    BY DEF PatchInv, PatchShape
  <1>2. /\ spec' \in Settled /\ queued' \in Seq(Settled) /\ swapping' \in Seq(Settled)
        /\ Len(queued') + Len(swapping') <= Len(queued) + Len(swapping)
    <2>1. CASE Patch!Take
      BY <1>1, <2>1 DEF Patch!Take
    <2>2. CASE Patch!Swap
      BY <1>1, <2>2 DEF Patch!Swap
    <2> QED BY <2>1, <2>2
  <1>3. Patch!Newest' = Patch!Newest
    <2>1. CASE Patch!Take
      BY <1>1, <1>2, <2>1, NewestIs DEF Patch!Take, Patch!Newest
    <2>2. CASE Patch!Swap
      <3>1. swapping # << >> /\ swapping' = Tail(swapping) /\ spec' = Head(swapping) /\ queued' = queued
        BY <2>2 DEF Patch!Swap
      <3>2. /\ swapping' # << >> => swapping'[Len(swapping')] = swapping[Len(swapping)]
            /\ swapping' = << >> => spec' = swapping[Len(swapping)]
        <4> DEFINE w == swapping
                   t == Tail(swapping)
        <4>1. w \in Seq(Settled) /\ w # << >> /\ Len(w) \in Nat /\ Len(w) > 0 /\ Head(w) = w[1]
          BY <1>1, <3>1
        <4>2. t \in Seq(Settled) /\ Len(t) = Len(w) - 1 /\ \A i \in 1 .. Len(t) : t[i] = w[i + 1]
          BY <4>1
        <4> HIDE DEF w, t
        <4>3. (t # << >> => t[Len(t)] = w[Len(w)]) /\ (t = << >> => Head(w) = w[Len(w)])
          BY <4>1, <4>2
        <4> QED BY <3>1, <4>3 DEF w, t
      <3>3. Patch!Newest' = Patch!Last(<<spec'>> \o swapping' \o queued')
            /\ Patch!Newest = Patch!Last(<<spec>> \o swapping \o queued)
        BY DEF Patch!Newest
      <3>4. Patch!Newest' = IF queued # << >> THEN queued[Len(queued)]
                            ELSE IF swapping' # << >> THEN swapping'[Len(swapping')] ELSE spec'
        <4>1. spec' \in Settled /\ swapping' \in Seq(Settled) /\ queued \in Seq(Settled)
          BY <1>1, <1>2
        <4>2. Patch!Last(<<spec'>> \o swapping' \o queued) =
                IF queued # << >> THEN queued[Len(queued)]
                ELSE IF swapping' # << >> THEN swapping'[Len(swapping')] ELSE spec'
          BY <4>1, NewestIs
        <4> QED BY <3>1, <3>3, <4>2
      <3>5. Patch!Newest = IF queued # << >> THEN queued[Len(queued)] ELSE swapping[Len(swapping)]
        BY <1>1, <3>1, <3>3, NewestIs
      <3> QED BY <3>2, <3>4, <3>5
    <2> QED BY <2>1, <2>2
  <1>4. UNCHANGED <<req, asked, calm, asks>> /\ playing' \in BOOLEAN
    <2>1. \A s \in Settled : s.plays \in BOOLEAN
      BY DEF Settled, Drafts
    <2>2. swapping # << >> => Head(swapping) \in Settled
      BY <1>1
    <2>3. playing \in BOOLEAN
      BY DEF PatchInv, PatchShape
    <2> QED BY <2>1, <2>2, <2>3 DEF Patch!Take, Patch!Swap
  <1>5. PatchShape'
    BY <1>2, <1>4 DEF PatchInv, PatchShape
  <1>6. CalmSoFar'
    BY <1>1, <1>4 DEF PatchInv, CalmSoFar, Patch!Take, Patch!Swap
  <1>7. Patch!CalmRequestsKeepSource'
    BY <1>3, <1>4 DEF PatchInv, Patch!CalmRequestsKeepSource
  <1> QED BY <1>5, <1>6, <1>7 DEF PatchInv

\* A request that comes in.
LEMMA PatchBegins ==
  ASSUME SideAssumption, PatchInv, NEW r, NEW source, Patch!Begin(r, source),
         r.kind \in DOMAIN PatchSteps,
         r \in [step : PatchSteps[r.kind], kind : DOMAIN PatchSteps, new : Drafts],
         HalfRead(r.step, r.new),
         calm' => CalmSoFar'
  PROVE  PatchInv'
  <1>1. /\ req' = r /\ asked' = [kind |-> r.kind, source |-> source]
        /\ asks' = asks + 1 /\ asks < MaxAsks /\ calm' \in BOOLEAN
        /\ UNCHANGED <<spec, playing, queued, swapping>>
        /\ req = Patch!NoReq
    BY InHand DEF PatchInv, Patch!Begin, Patch!inputVars
  <1>2. MaxAsks \in Nat /\ asks \in 0 .. MaxAsks /\ Len(queued) + Len(swapping) <= asks
        /\ queued \in Seq(Settled) /\ swapping \in Seq(Settled)
    BY <1>1, SideAssumption DEF PatchInv, PatchShape, SideAssumption, Patch!PatchAssumption
  <1>3. asks' \in 0 .. MaxAsks /\ Len(queued') + Len(swapping') < asks'
    BY <1>1, <1>2
  <1>4. asked'.kind = r.kind /\ asked'.kind # "none"
    BY <1>1 DEF PatchSteps
  <1>5. PatchShape'
    BY <1>1, <1>3, <1>4 DEF PatchInv, PatchShape
  <1>6. Patch!CalmRequestsKeepSource'
    <2>1. req'.step # "none"
      BY <1>1 DEF PatchSteps
    <2> QED BY <2>1 DEF Patch!CalmRequestsKeepSource
  <1> QED BY <1>5, <1>6 DEF PatchInv, CalmSoFar

\* The next step of a request.
LEMMA PatchReads ==
  ASSUME PatchInv, req # Patch!NoReq,
         NEW next \in PatchSteps[asked.kind], NEW new \in Drafts, Patch!Read(next, new),
         HalfRead(next, new),
         calm /\ queued = << >> /\ swapping = << >> => CalmSoFar'
  PROVE  PatchInv'
  <1>1. /\ req' = [req EXCEPT !.step = next, !.new = new]
        /\ UNCHANGED <<spec, playing, queued, swapping, asked, calm, asks>>
    BY DEF Patch!Read, Patch!inputVars
  <1>2. /\ asked.kind \in DOMAIN PatchSteps /\ req.kind = asked.kind
        /\ req \in [step : PatchSteps[asked.kind], kind : DOMAIN PatchSteps, new : Drafts]
        /\ Len(queued) + Len(swapping) < asks
    BY InHand DEF PatchInv
  <1>3. req' \in [step : PatchSteps[asked.kind], kind : DOMAIN PatchSteps, new : Drafts]
        /\ req'.kind = asked.kind /\ req'.step = next /\ req'.new = new
    BY <1>1, <1>2
  <1>4. asked.kind # "none" /\ next # "none"
    BY <1>2 DEF PatchSteps
  <1>5. PatchShape'
    BY <1>1, <1>2, <1>3, <1>4 DEF PatchInv, PatchShape
  <1>6. Patch!CalmRequestsKeepSource'
    BY <1>3, <1>4 DEF Patch!CalmRequestsKeepSource
  <1>7. CalmSoFar'
    BY <1>1 DEF PatchInv, CalmSoFar
  <1> QED BY <1>5, <1>6, <1>7 DEF PatchInv

\* A request that has nothing to do.
LEMMA PatchDrops ==
  ASSUME PatchInv, req # Patch!NoReq, Patch!Drop,
         calm => IF asked.kind = "replace"
                   THEN spec.type = asked.source.type /\ spec.ref = asked.source.ref
                   ELSE Patch!SourceOf(spec) = asked.source
  PROVE  PatchInv'
  <1>1. req' = Patch!NoReq /\ UNCHANGED <<spec, playing, queued, swapping, asked, calm, asks>>
    BY DEF Patch!Drop, Patch!inputVars
  <1>2. Len(queued) + Len(swapping) <= asks /\ spec \in Settled
    BY InHand DEF PatchInv, PatchShape
  <1>3. PatchShape'
    BY <1>1, <1>2 DEF PatchInv, PatchShape
  <1>4. CalmSoFar'
    BY <1>1 DEF CalmSoFar
  <1>5. Patch!CalmRequestsKeepSource'
    <2>1. calm => Patch!Newest = spec
      BY <1>2, NewestIs DEF PatchInv, CalmSoFar, Patch!Newest, PatchShape
    <2>2. Patch!Newest' = Patch!Newest
      BY <1>1 DEF Patch!Newest
    <2> QED BY <1>1, <2>1, <2>2 DEF Patch!CalmRequestsKeepSource
  <1> QED BY <1>3, <1>4, <1>5 DEF PatchInv

\* A request that posts what it has put together.
LEMMA PatchPosts ==
  ASSUME SideAssumption, PatchInv, req # Patch!NoReq, Patch!Post,
         calm => Patch!SourceOf(Patch!Normal(req.new)) = asked.source
  PROVE  PatchInv'
  <1> DEFINE n == Patch!Normal(req.new)
  <1>1. /\ req' = Patch!NoReq /\ queued' = Append(queued, n)
        /\ UNCHANGED <<spec, playing, swapping, asked, calm, asks>>
    BY DEF Patch!Post
  <1>2. req.new \in Drafts /\ Len(queued) + Len(swapping) < asks
    BY InHand DEF PatchInv
  <1>3. n \in Settled
    BY <1>2, NormalSettles
  <1>4. spec \in Settled /\ queued \in Seq(Settled) /\ swapping \in Seq(Settled) /\ asks \in 0 .. MaxAsks
    BY DEF PatchInv, PatchShape
  <1> HIDE DEF n
  <1>5. queued' \in Seq(Settled) /\ queued' # << >> /\ queued'[Len(queued')] = n
        /\ Len(queued') + Len(swapping') <= asks'
    BY <1>1, <1>2, <1>3, <1>4
  <1>6. PatchShape'
    BY <1>1, <1>5 DEF PatchInv, PatchShape
  <1>7. CalmSoFar'
    BY <1>1 DEF CalmSoFar
  <1>8. Patch!CalmRequestsKeepSource'
    <2>1. Patch!Newest' = n
      <3>1. Patch!Newest' = Patch!Last(<<spec>> \o swapping \o queued')
        BY <1>1 DEF Patch!Newest
      <3>2. Patch!Last(<<spec>> \o swapping \o queued') = queued'[Len(queued')]
        BY <1>4, <1>5, NewestIs
      <3> QED BY <1>5, <3>1, <3>2
    <2>2. calm => n.type = asked.source.type /\ n.ref = asked.source.ref
      BY DEF n, Patch!SourceOf
    <2>3. calm => Patch!SourceOf(n) = asked.source
      BY DEF n
    <2> QED BY <1>1, <2>1, <2>2, <2>3 DEF Patch!CalmRequestsKeepSource
  <1> QED BY <1>6, <1>7, <1>8 DEF PatchInv

\* Every step of a patch keeps the source of a calm request.
LEMMA PatchStep ==
  ASSUME SideAssumption, PatchInv, Patch!Next
  PROVE  PatchInv'
  <1>0. PatchShape /\ spec \in Settled /\ -1 \in Syncs
    BY SideAssumption DEF PatchInv, PatchShape, SideAssumption, Patch!PatchAssumption
  <1>t. /\ spec \in [type : PatchTypes, ref : PatchRefs, list : Seq(PatchRefs), sync : Syncs, plays : BOOLEAN]
        /\ spec.type # "media" => spec.list = << >>
        /\ spec.type = "media" => IF spec.list = << >> THEN spec.ref = "" ELSE spec.ref = Head(spec.list)
    BY <1>0 DEF Settled, Drafts
  \* What the request in hand looks like.
  <1>r. ASSUME req # Patch!NoReq
        PROVE  /\ req.step \in PatchSteps[asked.kind] /\ asked.kind \in DOMAIN PatchSteps
               /\ req.new \in Drafts
               /\ req.new \in [type : PatchTypes, ref : PatchRefs, list : Seq(PatchRefs),
                               sync : Syncs, plays : BOOLEAN]
               /\ req.new.type # "media" => req.new.list = << >>
               /\ HalfRead(req.step, req.new)
    BY <1>0, <1>r, InHand DEF Drafts
  <1>n. req.step # "none" => req # Patch!NoReq
    BY <1>0, InHand
  <1>k. ASSUME req # Patch!NoReq
        PROVE  /\ req.step = "ref" => asked.kind = "replace"
               /\ req.step \in {"keepsync", "list"} => asked.kind = "playlist"
               /\ req.step \in {"type", "sync", "post"} => asked.kind \in {"replace", "playlist"}
               /\ req.step \in {"change", "readtype", "readref", "readlist", "keep"}
                    => asked.kind = "sync"
               /\ req.step = "state" => asked.kind \in {"playlist", "sync"}
               /\ req.kind = asked.kind
    BY <1>0, <1>k, <1>r, InHand DEF PatchSteps
  \* What a read changes.
  <1>u. ASSUME NEW next, NEW new, req # Patch!NoReq, Patch!Read(next, new)
        PROVE  /\ req'.step = next /\ req'.new = new
               /\ UNCHANGED <<spec, queued, swapping, asked, calm>>
    <2>1. req \in [step : PatchSteps[asked.kind], kind : DOMAIN PatchSteps, new : Drafts]
      BY <1>0, <1>u, InHand
    <2> QED BY <1>u, <2>1 DEF Patch!Read, Patch!inputVars
  <1>c. ASSUME req # Patch!NoReq, calm
        PROVE  /\ asked.kind = "replace" => ReplaceSoFar
               /\ asked.kind = "playlist" => PlaylistSoFar
               /\ asked.kind = "sync" => SyncSoFar
    BY <1>c DEF PatchInv, CalmSoFar
  <1>1. CASE Patch!Take \/ Patch!Swap
    BY <1>1, NewestStays
  <1>2. CASE Patch!PlayOrPause
    <2>1. UNCHANGED <<spec, queued, swapping, req, asked, calm, asks>> /\ playing' \in BOOLEAN
      BY <1>2 DEF Patch!PlayOrPause
    <2>2. PatchShape'
      BY <2>1 DEF PatchInv, PatchShape
    <2>3. CalmSoFar'
      BY <2>1 DEF PatchInv, CalmSoFar, ReplaceSoFar, PlaylistSoFar, SyncSoFar
    <2>4. Patch!CalmRequestsKeepSource'
      BY <2>1 DEF PatchInv, Patch!CalmRequestsKeepSource, Patch!Newest
    <2> QED BY <2>2, <2>3, <2>4 DEF PatchInv
  \* replaceInput.
  <1>3. ASSUME NEW s \in Patch!Single \cup {Patch!Black}, NEW sync \in Syncs, Patch!AskReplace(s, sync)
        PROVE  PatchInv'
    <2> DEFINE d == Patch!Spec0(s, sync, TRUE)
               r == [step |-> "ref", kind |-> "replace", new |-> d]
    <2>1. s.type \in PatchTypes /\ s.ref \in PatchRefs /\ s.list = << >>
      <3>1. CASE s = Patch!Black
        BY <3>1 DEF Patch!Black, PatchTypes, PatchRefs
      <3>2. ASSUME NEW f \in Feeds, s = [type |-> "omt", ref |-> f, list |-> << >>]
            PROVE  s.type \in PatchTypes /\ s.ref \in PatchRefs /\ s.list = << >>
        BY <3>2 DEF PatchTypes, PatchRefs
      <3>3. ASSUME NEW f \in Stills, s = [type |-> "still", ref |-> f, list |-> << >>]
            PROVE  s.type \in PatchTypes /\ s.ref \in PatchRefs /\ s.list = << >>
        BY <3>3 DEF PatchTypes, PatchRefs
      <3>4. ASSUME NEW f \in Clips, s = [type |-> "media", ref |-> f, list |-> << >>]
            PROVE  s.type \in PatchTypes /\ s.ref \in PatchRefs /\ s.list = << >>
        BY <3>4 DEF PatchTypes, PatchRefs
      <3> QED BY <3>1, <3>2, <3>3, <3>4, Zenon DEF Patch!Single
    <2>2. /\ d \in Drafts /\ d.list = << >>
      BY <2>1 DEF Patch!Spec0, Drafts
    <2>3. Patch!Begin(r, Patch!SourceOf(Patch!Normal(d)))
      BY <1>3 DEF Patch!AskReplace
    <2> HIDE DEF d
    <2>4. r \in [step : PatchSteps[r.kind], kind : DOMAIN PatchSteps, new : Drafts]
          /\ r.kind \in DOMAIN PatchSteps /\ HalfRead(r.step, r.new)
      BY <2>2 DEF PatchSteps, HalfRead
    <2>5. calm' => CalmSoFar'
      BY <2>2, <2>3 DEF Patch!Begin, Patch!inputVars, CalmSoFar, ReplaceSoFar
    <2> HIDE DEF r
    <2> QED BY <2>3, <2>4, <2>5, PatchBegins
  \* What is there already is found by comparing one field after the other.
  <1>4. CASE Patch!ComparesRef
    <2> DEFINE nxt == IF req.new.ref = spec.ref THEN "type" ELSE "post"
    <2>1. req.step = "ref" /\ req # Patch!NoReq /\ asked.kind = "replace"
      BY <1>4, <1>n, <1>k DEF Patch!ComparesRef
    <2>2. Patch!Read(nxt, req.new)
      BY <1>4 DEF Patch!ComparesRef, Patch!Compare
    <2>3. nxt \in {"type", "post"} /\ (nxt = "type" => req.new.ref = spec.ref)
      OBVIOUS
    <2> HIDE DEF nxt
    <2>4. calm /\ queued = << >> /\ swapping = << >> => CalmSoFar'
      <3>1. calm => ReplaceSoFar
        BY <1>c, <2>1
      <3> QED BY <1>u, <2>1, <2>2, <2>3, <3>1 DEF CalmSoFar, ReplaceSoFar
    <2> QED BY <1>r, <2>1, <2>2, <2>3, <2>4, PatchReads DEF PatchSteps, HalfRead
  <1>5. CASE Patch!ComparesType
    <2> DEFINE rest == IF req.kind = "playlist" THEN "list" ELSE "sync"
               nxt == IF req.new.type = spec.type THEN rest ELSE "post"
    <2>1. req.step = "type" /\ req # Patch!NoReq /\ asked.kind \in {"replace", "playlist"}
      BY <1>5, <1>n, <1>k DEF Patch!ComparesType
    <2>2. Patch!Read(nxt, req.new)
      BY <1>5 DEF Patch!ComparesType, Patch!Compare
    <2>3. /\ asked.kind = "replace" => nxt \in {"sync", "post"}
          /\ asked.kind = "playlist" => nxt \in {"list", "post"}
          /\ nxt # "post" => req.new.type = spec.type
      BY <1>k, <2>1
    <2> HIDE DEF nxt
    <2>4. calm /\ queued = << >> /\ swapping = << >> => CalmSoFar'
      <3>1. calm => /\ asked.kind = "replace" => ReplaceSoFar
                    /\ asked.kind = "playlist" => PlaylistSoFar
        BY <1>c, <2>1
      <3>2. CASE asked.kind = "replace"
        BY <1>u, <2>1, <2>2, <2>3, <3>1, <3>2 DEF CalmSoFar, ReplaceSoFar
      <3>3. CASE asked.kind = "playlist"
        BY <1>u, <2>1, <2>2, <2>3, <3>1, <3>3 DEF CalmSoFar, PlaylistSoFar
      <3> QED BY <2>1, <3>2, <3>3
    <2>5. nxt \in PatchSteps[asked.kind] /\ HalfRead(nxt, req.new)
      BY <2>1, <2>3 DEF PatchSteps, HalfRead
    <2> QED BY <1>r, <2>1, <2>2, <2>4, <2>5, PatchReads
  <1>6. CASE Patch!ComparesList
    <2> DEFINE nxt == IF req.new.list = Patch!KeptList THEN "sync" ELSE "post"
    <2>1. req.step = "list" /\ req # Patch!NoReq /\ asked.kind = "playlist"
      BY <1>6, <1>n, <1>k DEF Patch!ComparesList
    <2>2. Patch!Read(nxt, req.new)
      BY <1>6 DEF Patch!ComparesList, Patch!Compare
    <2>3. Patch!KeptList = spec.list
      BY <1>t DEF Patch!KeptList
    <2>4. nxt \in {"sync", "post"} /\ (nxt = "sync" => req.new.list = spec.list)
      BY <2>3
    <2> HIDE DEF nxt
    <2>5. calm /\ queued = << >> /\ swapping = << >> => CalmSoFar'
      <3>1. calm => PlaylistSoFar
        BY <1>c, <2>1
      <3> QED BY <1>u, <2>1, <2>2, <2>4, <3>1 DEF CalmSoFar, PlaylistSoFar
    <2> QED BY <1>r, <2>1, <2>2, <2>4, <2>5, PatchReads DEF PatchSteps, HalfRead
  \* A request posts its own source, and is dropped when that is there already.
  <1>p. ASSUME req.step \in {"sync", "post"}, req # Patch!NoReq, calm
        PROVE  /\ Patch!SourceOf(Patch!Normal(req.new)) = asked.source
               /\ req.step = "sync" => IF asked.kind = "replace"
                                         THEN spec.type = asked.source.type /\ spec.ref = asked.source.ref
                                         ELSE Patch!SourceOf(spec) = asked.source
    <2>1. CASE asked.kind = "replace"
      <3>1. ReplaceSoFar
        BY <1>p, <1>c, <2>1
      <3>2. Patch!Normal(req.new).type = req.new.type /\ Patch!Normal(req.new).ref = req.new.ref
        BY <1>p, <1>r, <3>1, NormalSettles DEF ReplaceSoFar
      <3>3. asked.source.type = req.new.type /\ asked.source.ref = req.new.ref
        BY <3>1, <3>2 DEF ReplaceSoFar, Patch!SourceOf
      <3> QED BY <2>1, <3>1, <3>3 DEF ReplaceSoFar
    <2>2. CASE asked.kind = "playlist"
      <3>1. PlaylistSoFar
        BY <1>p, <1>c, <2>2
      <3>2. req.new \in Settled
        BY <1>p, <1>r, <3>1 DEF PlaylistSoFar, Settled
      <3>3. Patch!SourceOf(Patch!Normal(req.new)) = asked.source
        BY <1>p, <1>r, <3>1, <3>2, NormalSettles DEF PlaylistSoFar
      <3>4. req.step = "sync" => Patch!SourceOf(spec) = asked.source
        BY <1>t, <3>1 DEF PlaylistSoFar, Patch!SourceOf
      <3> QED BY <2>2, <3>3, <3>4
    <2> QED BY <1>p, <1>k, <2>1, <2>2
  <1>7. CASE Patch!ComparesSync \/ Patch!Posts
    <2>1. req.step \in {"sync", "post"} /\ req # Patch!NoReq
      BY <1>7, <1>n DEF Patch!ComparesSync, Patch!Posts
    <2>2. (req.step = "sync" /\ Patch!Drop) \/ Patch!Post
      BY <1>7 DEF Patch!ComparesSync, Patch!Posts
    <2>3. CASE req.step = "sync" /\ Patch!Drop
      BY <1>p, <2>1, <2>3, PatchDrops
    <2>4. CASE Patch!Post
      BY <1>p, <2>1, <2>4, PatchPosts
    <2> QED BY <2>2, <2>3, <2>4
  \* playlist.
  <1>8. ASSUME NEW s \in Patch!Players, Patch!AskPlaylist(s)
        PROVE  PatchInv'
    <2> DEFINE d == Patch!Spec0(s, -1, TRUE)
               r == [step |-> "keepsync", kind |-> "playlist", new |-> d]
    <2>1. /\ s.type = "media" /\ s.list \in Seq(PatchRefs) /\ s.list # << >>
          /\ s.ref = Head(s.list) /\ s.ref \in PatchRefs
          /\ s = [type |-> "media", ref |-> s.ref, list |-> s.list]
      <3>1. PICK l \in Patch!Lists : s = [type |-> "media", ref |-> Head(l), list |-> l]
        BY DEF Patch!Players
      <3>2. l \in Seq(PatchRefs) /\ l # << >> /\ Head(l) \in PatchRefs
        <4>1. Clips \subseteq PatchRefs
          BY Zenon DEF PatchRefs
        <4>2. ASSUME NEW c \in Clips, l = <<c>>
              PROVE  l \in Seq(PatchRefs) /\ l # << >> /\ Head(l) \in PatchRefs
          BY <4>1, <4>2
        <4>3. ASSUME NEW c \in Clips, NEW e \in Clips, l = <<c, e>>
              PROVE  l \in Seq(PatchRefs) /\ l # << >> /\ Head(l) \in PatchRefs
          BY <4>1, <4>3
        <4>4. (\E c \in Clips : l = <<c>>) \/ (\E c \in Clips, e \in Clips : l = <<c, e>>)
          BY DEF Patch!Lists
        <4> QED BY <4>2, <4>3, <4>4
      <3> QED BY <3>1, <3>2
    <2>2. d \in Drafts /\ d.type = "media" /\ d.list = s.list /\ d.ref = s.ref /\ Patch!SourceOf(d) = s
      BY <1>0, <2>1 DEF Patch!Spec0, Drafts, PatchTypes, Patch!SourceOf
    <2>3. Patch!Begin(r, s)
      BY <1>8 DEF Patch!AskPlaylist
    <2> HIDE DEF d
    <2>4. r \in [step : PatchSteps[r.kind], kind : DOMAIN PatchSteps, new : Drafts]
          /\ r.kind \in DOMAIN PatchSteps /\ HalfRead(r.step, r.new)
      BY <2>2 DEF PatchSteps, HalfRead
    <2>5. calm' => CalmSoFar'
      BY <2>1, <2>2, <2>3 DEF Patch!Begin, Patch!inputVars, CalmSoFar, PlaylistSoFar
    <2> HIDE DEF r
    <2> QED BY <2>3, <2>4, <2>5, PatchBegins
  <1>9. CASE Patch!KeepsSync
    <2> DEFINE d == [req.new EXCEPT !.sync = spec.sync]
    <2>1. req.step = "keepsync" /\ req # Patch!NoReq /\ asked.kind = "playlist"
      BY <1>9, <1>n, <1>k DEF Patch!KeepsSync
    <2>2. Patch!Read("state", d)
      BY <1>9 DEF Patch!KeepsSync
    <2>3. d \in Drafts /\ d.type = req.new.type /\ d.list = req.new.list /\ d.ref = req.new.ref
      BY <1>r, <1>t, <2>1 DEF Drafts
    <2> HIDE DEF d
    <2>4. calm /\ queued = << >> /\ swapping = << >> => CalmSoFar'
      <3>1. calm => PlaylistSoFar
        BY <1>c, <2>1
      <3> QED BY <1>u, <2>1, <2>2, <2>3, <3>1 DEF CalmSoFar, PlaylistSoFar, Patch!SourceOf
    <2> QED BY <1>r, <2>1, <2>2, <2>3, <2>4, PatchReads DEF PatchSteps, HalfRead
  <1>10. CASE Patch!ReadsState
    <2> DEFINE p == IF spec.type = "media" THEN playing ELSE req.new.plays
               d == [req.new EXCEPT !.plays = p]
               nxt == IF req.kind = "playlist" THEN "type" ELSE "keep"
    <2>1. req.step = "state" /\ req # Patch!NoReq /\ asked.kind \in {"playlist", "sync"}
      BY <1>10, <1>n, <1>k DEF Patch!ReadsState
    <2>2. Patch!Read(nxt, d)
      BY <1>10 DEF Patch!ReadsState
    <2>3. nxt = IF asked.kind = "playlist" THEN "type" ELSE "keep"
      BY <1>k, <2>1
    <2>4. p \in BOOLEAN
      BY <1>0, <1>r, <2>1 DEF PatchShape
    <2> HIDE DEF p, nxt
    <2>5. d \in Drafts /\ d.type = req.new.type /\ d.list = req.new.list /\ d.ref = req.new.ref
      BY <1>r, <1>t, <2>1, <2>4 DEF Drafts
    <2> HIDE DEF d
    <2>6. calm /\ queued = << >> /\ swapping = << >> => CalmSoFar'
      <3>1. calm => /\ asked.kind = "playlist" => PlaylistSoFar
                    /\ asked.kind = "sync" => SyncSoFar
        BY <1>c, <2>1
      <3>2. CASE asked.kind = "playlist"
        BY <1>u, <2>1, <2>2, <2>3, <2>5, <3>1, <3>2 DEF CalmSoFar, PlaylistSoFar, Patch!SourceOf
      <3>3. CASE asked.kind = "sync"
        BY <1>u, <2>1, <2>2, <2>3, <2>5, <3>1, <3>3 DEF CalmSoFar, SyncSoFar, Patch!SourceOf
      <3> QED BY <2>1, <3>2, <3>3
    <2>7. nxt \in PatchSteps[asked.kind] /\ HalfRead(nxt, d)
      BY <2>1, <2>3 DEF PatchSteps, HalfRead
    <2> QED BY <2>1, <2>2, <2>5, <2>6, <2>7, PatchReads
  \* sync.
  <1>11. ASSUME NEW sync \in Syncs, Patch!AskSync(sync)
         PROVE  PatchInv'
    <2> DEFINE d == Patch!Spec0(Patch!Black, sync, TRUE)
               r == [step |-> "change", kind |-> "sync", new |-> d]
    <2>1. d \in Drafts /\ d.list = << >>
      <3>1. d = [type |-> "omt", ref |-> "", list |-> << >>, sync |-> sync, plays |-> TRUE]
        BY DEF Patch!Spec0, Patch!Black
      <3>2. "" \in PatchRefs /\ "omt" \in PatchTypes /\ << >> \in Seq(PatchRefs)
        BY DEF PatchRefs, PatchTypes
      <3> HIDE DEF d
      <3> QED BY <3>1, <3>2 DEF Drafts
    <2>2. Patch!Begin(r, Patch!SourceOf(Patch!Newest))
      BY <1>11 DEF Patch!AskSync
    <2> HIDE DEF d
    <2>3. r \in [step : PatchSteps[r.kind], kind : DOMAIN PatchSteps, new : Drafts]
          /\ r.kind \in DOMAIN PatchSteps /\ HalfRead(r.step, r.new)
      BY <2>1 DEF PatchSteps, HalfRead
    <2>4. queued = << >> /\ swapping = << >> => Patch!Newest = spec
      BY <1>0, NewestIs DEF PatchShape, Patch!Newest
    <2>5. calm' => CalmSoFar'
      BY <2>1, <2>2, <2>4 DEF Patch!Begin, Patch!inputVars, CalmSoFar, SyncSoFar
    <2> HIDE DEF r
    <2> QED BY <2>2, <2>3, <2>5, PatchBegins
  <1>12. CASE Patch!SyncChanges
    <2>1. req.step = "change" /\ req # Patch!NoReq /\ asked.kind = "sync"
      BY <1>12, <1>n, <1>k DEF Patch!SyncChanges
    <2>2. calm => SyncSoFar
      BY <1>c, <2>1
    <2>3. CASE req.new.sync = spec.sync
      <3>1. calm => Patch!SourceOf(spec) = asked.source
        BY <2>2 DEF SyncSoFar
      <3> QED BY <1>12, <2>1, <2>3, <3>1, PatchDrops DEF Patch!SyncChanges
    <2>4. CASE req.new.sync # spec.sync
      <3>1. Patch!Read("readtype", req.new)
        BY <1>12, <2>4 DEF Patch!SyncChanges
      <3>2. calm /\ queued = << >> /\ swapping = << >> => CalmSoFar'
        BY <1>u, <2>1, <2>2, <3>1 DEF CalmSoFar, SyncSoFar, Patch!SourceOf
      <3> QED BY <1>r, <2>1, <3>1, <3>2, PatchReads DEF PatchSteps, HalfRead
    <2> QED BY <2>3, <2>4
  <1>m. CASE Patch!ReadsType
    <2> DEFINE d == [req.new EXCEPT !.type = spec.type]
    <2>1. req.step = "readtype" /\ req # Patch!NoReq /\ asked.kind = "sync"
      BY <1>m, <1>n, <1>k DEF Patch!ReadsType
    <2>2. Patch!Read("readref", d)
      BY <1>m DEF Patch!ReadsType
    <2>3. d \in Drafts /\ d.list = << >> /\ d.type = spec.type
      BY <1>r, <1>t, <2>1 DEF Drafts, HalfRead
    <2> HIDE DEF d
    <2>4. calm /\ queued = << >> /\ swapping = << >> => CalmSoFar'
      <3>1. calm => SyncSoFar
        BY <1>c, <2>1
      <3> QED BY <1>u, <2>1, <2>2, <2>3, <3>1 DEF CalmSoFar, SyncSoFar, Patch!SourceOf
    <2> QED BY <1>r, <2>1, <2>2, <2>3, <2>4, PatchReads DEF PatchSteps, HalfRead
  <1>13. CASE Patch!ReadsRef
    <2> DEFINE d == [req.new EXCEPT !.ref = spec.ref]
               nxt == IF req.new.type = "media" THEN "readlist" ELSE "keep"
    <2>1. req.step = "readref" /\ req # Patch!NoReq /\ asked.kind = "sync"
      BY <1>13, <1>n, <1>k DEF Patch!ReadsRef
    <2>2. Patch!Read(nxt, d)
      BY <1>13 DEF Patch!ReadsRef
    <2>3. /\ d \in Drafts /\ d.list = << >> /\ d.type = req.new.type /\ d.ref = spec.ref
      BY <1>r, <1>t, <2>1 DEF Drafts, HalfRead
    <2>4. /\ nxt \in {"readlist", "keep"} /\ (nxt = "readlist" <=> req.new.type = "media")
      OBVIOUS
    <2> HIDE DEF d, nxt
    <2>5. calm /\ queued = << >> /\ swapping = << >> => CalmSoFar'
      <3> SUFFICES ASSUME calm, queued = << >>, swapping = << >> PROVE CalmSoFar'
        OBVIOUS
      <3>1. req.new.type = spec.type /\ asked.source = Patch!SourceOf(spec)
        BY <1>c, <2>1 DEF SyncSoFar
      <3>2. /\ req'.step = nxt /\ req'.new = d
            /\ UNCHANGED <<spec, queued, swapping, asked, calm>>
        BY <1>u, <2>1, <2>2
      <3>3. spec.type # "media" => spec.list = << >>
        BY <1>t
      <3>4. SyncSoFar'
        BY <2>3, <2>4, <3>1, <3>2, <3>3 DEF SyncSoFar, Patch!SourceOf
      <3> QED BY <2>1, <3>2, <3>4 DEF CalmSoFar
    <2> QED BY <1>r, <2>1, <2>2, <2>3, <2>4, <2>5, PatchReads DEF PatchSteps, HalfRead
  <1>14. CASE Patch!ReadsList
    <2> DEFINE d == [req.new EXCEPT !.list = Patch!KeptList]
    <2>1. req.step = "readlist" /\ req # Patch!NoReq /\ asked.kind = "sync"
      BY <1>14, <1>n, <1>k DEF Patch!ReadsList
    <2>2. Patch!Read("state", d)
      BY <1>14 DEF Patch!ReadsList
    <2>3. Patch!KeptList \in Seq(PatchRefs) /\ Patch!KeptList = spec.list
      BY <1>t DEF Patch!KeptList
    <2>4. d \in Drafts /\ d.type = req.new.type /\ d.list = spec.list /\ d.ref = req.new.ref
      BY <1>r, <1>t, <2>1, <2>3 DEF Drafts, HalfRead
    <2> HIDE DEF d
    <2>5. calm /\ queued = << >> /\ swapping = << >> => CalmSoFar'
      <3>1. calm => SyncSoFar
        BY <1>c, <2>1
      <3> QED BY <1>u, <2>1, <2>2, <2>4, <3>1 DEF CalmSoFar, SyncSoFar, Patch!SourceOf
    <2> QED BY <1>r, <2>1, <2>2, <2>4, <2>5, PatchReads DEF PatchSteps, HalfRead
  <1>15. CASE Patch!SyncDecides
    <2>1. req.step = "keep" /\ req # Patch!NoReq /\ asked.kind = "sync"
      BY <1>15, <1>n, <1>k DEF Patch!SyncDecides
    <2>2. ASSUME calm
          PROVE  Patch!SourceOf(req.new) = Patch!SourceOf(spec) /\ Patch!SourceOf(spec) = asked.source
      BY <1>c, <2>1, <2>2 DEF SyncSoFar
    <2>3. CASE req.new.ref = ""
      BY <1>15, <2>1, <2>2, <2>3, PatchDrops DEF Patch!SyncDecides
    <2>4. CASE req.new.ref # ""
      <3>1. ASSUME calm PROVE req.new \in Settled
        BY <1>0, <1>r, <2>1, <2>2, <3>1 DEF Settled, Patch!SourceOf
      <3>2. calm => Patch!SourceOf(Patch!Normal(req.new)) = asked.source
        BY <1>r, <2>1, <2>2, <3>1, NormalSettles
      <3> QED BY <1>15, <2>1, <2>4, <3>2, PatchPosts DEF Patch!SyncDecides
    <2> QED BY <2>3, <2>4
  <1> QED
    BY <1>1, <1>2, <1>3, <1>4, <1>5, <1>6, <1>7, <1>8, <1>9, <1>10, <1>11, <1>12, <1>m, <1>13,
       <1>14, <1>15
       DEF Patch!Next, Patch!Answer

\* The types of the patch follow from the invariant.
LEMMA PatchTypesKept == SideAssumption /\ PatchInv => Patch!TypeOK
  <1> SUFFICES ASSUME SideAssumption, PatchInv PROVE Patch!TypeOK
    OBVIOUS
  <1>0. PatchShape
    BY DEF PatchInv
  <1>1. /\ spec \in Settled /\ queued \in Seq(Settled) /\ swapping \in Seq(Settled)
        /\ playing \in BOOLEAN /\ calm \in BOOLEAN /\ asks \in 0 .. MaxAsks /\ MaxAsks \in Nat
    BY <1>0 DEF PatchShape, SideAssumption, Patch!PatchAssumption
  <1>2. \A s \in Settled : s.type \in PatchTypes
    BY DEF Settled, Drafts
  <1>3. Len(queued) + Len(swapping) <= MaxAsks
    <2>1. Len(queued) \in Nat /\ Len(swapping) \in Nat
      <3> HIDE DEF Settled
      <3> QED BY <1>1
    <2>2. Len(queued) + Len(swapping) <= asks
      BY <1>0, <1>1, <2>1 DEF PatchShape
    <2> QED BY <1>1, <2>1, <2>2
  <1>4. \A s \in Patch!ToSet(queued \o swapping) : s \in Settled
    <2> DEFINE S == Settled
               all == queued \o swapping
    <2> HIDE DEF S
    <2>1. queued \in Seq(S) /\ swapping \in Seq(S)
      BY <1>1 DEF S
    <2>2. all \in Seq(S)
      BY <2>1
    <2> HIDE DEF all
    <2>3. \A s \in Patch!ToSet(all) : s \in S
      BY <2>2 DEF Patch!ToSet
    <2> QED BY <2>3 DEF all, S
  <1> QED BY <1>1, <1>2, <1>3, <1>4 DEF Patch!TypeOK, PatchTypes

---------------------------------------------------------------------------
(* The multiview on its way to the browsers                                *)

Sl(u) == u % Slots

EncSteps == {"idle", "upper", "lower", "check", "encode", "store", "bump"}

BrowserShape ==
  /\ {value, submitted, whole, done, seq, frameSeq, failed, clientSeq} \subseteq 0 .. MaxTicks
  /\ step \in {"record", "submit", "tell"} /\ drawing \in BOOLEAN /\ watching \in BOOLEAN
  /\ stamp \in [0 .. Slots - 1 -> 0 .. MaxTicks]
  /\ pixels \in [0 .. Slots - 1 -> Browser!Halves]
  /\ frame \in Browser!Halves /\ shown \in Browser!Halves
  /\ enc \in [step : EncSteps, v : 0 .. MaxTicks, tries : 0 .. 2, copy : Browser!Halves]
  /\ hand \in [seq : 0 .. MaxTicks, frame : Browser!Halves, step : {"load", "take", "give"}]
  /\ events \in 0 .. MaxEvents

\* No tick after v, up to n, goes to the slot of v.
Keeps(v, n) == \A u \in v + 1 .. n : Sl(u) # Sl(v)

\* A tick is recorded, submitted, done and declared complete in this order, and a slot
\* bears the stamp of the last tick that was recorded into it, at least.
TicksInv ==
  /\ whole <= done /\ done <= submitted /\ submitted <= value
  /\ drawing => done < submitted
  /\ \A u \in 1 .. value : stamp[Sl(u)] >= u

Topped == IF drawing THEN done + 1 ELSE done

\* A slot holds the last tick that was drawn into it.
PixelsInv ==
  /\ \A v \in 1 .. Topped : Keeps(v, Topped) => pixels[Sl(v)].top = v
  /\ \A v \in 1 .. done : Keeps(v, done) => pixels[Sl(v)].bottom = v

\* While nobody else has been given the slot, what was copied from it is the tick that
\* was asked for.
CopyInv ==
  /\ seq <= whole
  /\ enc.step \in {"upper", "lower", "check"} => enc.v \in 1 .. whole /\ seq < enc.v
  /\ enc.step \in {"lower", "check"} /\ Keeps(enc.v, value) => enc.copy.top = enc.v
  /\ enc.step = "check" /\ Keeps(enc.v, value) => enc.copy.bottom = enc.v
  /\ enc.step \in {"encode", "store", "bump"} =>
       enc.v = seq /\ enc.copy.top = enc.v /\ enc.copy.bottom = enc.v

\* What is stored, taken and shown is of one tick each, and none is older than the next.
ShownInv ==
  /\ frame.top = frame.bottom /\ frame.top <= seq
  /\ shown.top = shown.bottom /\ shown.top <= frame.top
  /\ hand.step = "give" =>
       hand.frame.top = hand.frame.bottom /\ hand.frame.top <= frame.top
         /\ shown.top <= hand.frame.top
  /\ frameSeq + (IF enc.step \in {"encode", "store", "bump"} THEN 1 ELSE 0) <= seq

BrowserInv == BrowserShape /\ TicksInv /\ PixelsInv /\ CopyInv /\ ShownInv

\* The slot of a tick.
LEMMA SlotOfTick ==
  ASSUME SideAssumption
  PROVE  /\ Slots \in Nat \ {0} /\ MaxTicks \in Nat /\ MaxEvents \in Nat
         /\ \A u \in Nat : u % Slots \in 0 .. Slots - 1
  <1>1. Slots \in Nat \ {0} /\ MaxTicks \in Nat /\ MaxEvents \in Nat
    BY SideAssumption DEF SideAssumption, Browser!FeedAssumption
  <1>2. \A u \in Nat : u % Slots \in 0 .. Slots - 1
    BY <1>1
  <1> QED BY <1>1, <1>2

\* A slot that is kept until n is kept until any earlier tick.
LEMMA KeepsEarlier ==
  ASSUME NEW v \in Nat, NEW n \in Nat, NEW m \in Nat, m <= n, Keeps(v, n)
  PROVE  Keeps(v, m)
  BY DEF Keeps

\* The server starts with no picture.
LEMMA BrowserInit == SideAssumption /\ Browser!Init => BrowserInv
  <1> SUFFICES ASSUME SideAssumption, Browser!Init PROVE BrowserInv
    OBVIOUS
  <1>1. /\ value = 0 /\ submitted = 0 /\ whole = 0 /\ done = 0 /\ seq = 0 /\ frameSeq = 0
        /\ failed = 0 /\ clientSeq = 0 /\ events = 0 /\ step = "record"
        /\ drawing = FALSE /\ watching = FALSE
    BY DEF Browser!Init
  <1>2. Browser!Blank \in Browser!Halves /\ Browser!Blank.top = 0 /\ Browser!Blank.bottom = 0
    BY SlotOfTick DEF Browser!Blank, Browser!Halves
  <1>3. /\ frame = Browser!Blank /\ shown = Browser!Blank
        /\ enc = [step |-> "idle", v |-> 0, tries |-> 0, copy |-> Browser!Blank]
        /\ hand = [seq |-> 0, frame |-> Browser!Blank, step |-> "load"]
        /\ stamp = [s \in 0 .. Slots - 1 |-> 0] /\ pixels = [s \in 0 .. Slots - 1 |-> Browser!Blank]
    BY DEF Browser!Init, Browser!Idle, Browser!NoHand
  <1>4. BrowserShape
    <2>1. {value, submitted, whole, done, seq, frameSeq, failed, clientSeq} \subseteq 0 .. MaxTicks
          /\ events \in 0 .. MaxEvents
      BY <1>1, SlotOfTick
    <2>2. /\ enc \in [step : EncSteps, v : 0 .. MaxTicks, tries : 0 .. 2, copy : Browser!Halves]
          /\ hand \in [seq : 0 .. MaxTicks, frame : Browser!Halves, step : {"load", "take", "give"}]
      BY <1>2, <1>3, SlotOfTick DEF EncSteps
    <2>3. /\ stamp \in [0 .. Slots - 1 -> 0 .. MaxTicks] /\ pixels \in [0 .. Slots - 1 -> Browser!Halves]
          /\ frame \in Browser!Halves /\ shown \in Browser!Halves
      BY <1>2, <1>3, SlotOfTick
    <2> QED BY <1>1, <2>1, <2>2, <2>3 DEF BrowserShape
  <1>5. TicksInv /\ PixelsInv
    BY <1>1 DEF TicksInv, PixelsInv, Topped
  <1>6. CopyInv /\ ShownInv
    BY <1>1, <1>2, <1>3 DEF CopyInv, ShownInv
  <1> QED BY <1>4, <1>5, <1>6 DEF BrowserInv

\* The render thread records and submits a tick and says what is complete.
LEMMA RendererStep ==
  ASSUME SideAssumption, BrowserInv, Browser!Renderer
  PROVE  BrowserInv'
  <1>1. /\ {value, submitted, whole, done, seq} \subseteq 0 .. MaxTicks
        /\ step \in {"record", "submit", "tell"}
        /\ stamp \in [0 .. Slots - 1 -> 0 .. MaxTicks] /\ drawing \in BOOLEAN
        /\ enc \in [step : EncSteps, v : 0 .. MaxTicks, tries : 0 .. 2, copy : Browser!Halves]
    BY DEF BrowserInv, BrowserShape
  <1>2. /\ UNCHANGED <<done, drawing, pixels, enc, seq, frame, frameSeq, failed, hand, clientSeq,
                        watching, shown, events>>
    BY DEF Browser!Renderer, Browser!Record, Browser!Submit, Browser!Tell, Browser!gpu,
           Browser!encoder, Browser!browser
  <1>a. /\ value \in 0 .. MaxTicks /\ submitted \in 0 .. MaxTicks /\ whole \in 0 .. MaxTicks
        /\ done \in 0 .. MaxTicks
    BY <1>1
  <1>b. whole <= done /\ done <= submitted /\ submitted <= value
    BY DEF BrowserInv, TicksInv
  <1>3. /\ value' \in 0 .. MaxTicks /\ submitted' \in 0 .. MaxTicks /\ whole' \in 0 .. MaxTicks
        /\ step' \in {"record", "submit", "tell"}
        /\ value <= value' /\ whole <= whole' /\ submitted <= submitted'
        /\ submitted' <= value' /\ whole' <= done
    <2>1. CASE Browser!Record
      <3>1. /\ value < MaxTicks /\ step' = "submit" /\ value' = value + 1
            /\ submitted' = submitted /\ whole' = whole
        BY <2>1 DEF Browser!Record
      <3> QED BY <1>a, <1>b, <3>1, SlotOfTick
    <2>2. CASE Browser!Submit
      <3>1. step' = "tell" /\ value' = value /\ submitted' = value /\ whole' = whole
        BY <2>2 DEF Browser!Submit
      <3> QED BY <1>a, <1>b, <3>1, SlotOfTick
    <2>3. CASE Browser!Tell
      <3>1. step' = "record" /\ value' = value /\ submitted' = submitted /\ whole' = done
        BY <2>3 DEF Browser!Tell
      <3> QED BY <1>a, <1>b, <3>1, SlotOfTick
    <2> QED BY <2>1, <2>2, <2>3 DEF Browser!Renderer
  <1>4. stamp' \in [0 .. Slots - 1 -> 0 .. MaxTicks] /\ \A u \in 1 .. value' : stamp'[Sl(u)] >= u
    <2>0. \A u \in 1 .. value : stamp[Sl(u)] >= u
      BY DEF BrowserInv, TicksInv
    <2>1. CASE Browser!Record
      <3>1. value' = value + 1 /\ stamp' = [stamp EXCEPT ![Sl(value + 1)] = value + 1]
        BY <2>1 DEF Browser!Record, Sl
      <3>2. value \in Nat /\ \A u \in 1 .. value + 1 : Sl(u) \in 0 .. Slots - 1
        BY <1>1, SlotOfTick DEF Sl
      <3>3. value + 1 \in 0 .. MaxTicks
        BY <1>3, <3>1
      <3>4. Sl(value + 1) \in 0 .. Slots - 1
        BY <3>2
      <3>5. stamp' \in [0 .. Slots - 1 -> 0 .. MaxTicks]
        BY <1>1, <3>1, <3>3
      <3>6. ASSUME NEW u \in 1 .. value + 1 PROVE stamp'[Sl(u)] >= u
        <4>1. Sl(u) \in 0 .. Slots - 1 /\ stamp[Sl(u)] \in 0 .. MaxTicks
          BY <1>1, <3>2
        <4>2. CASE Sl(u) = Sl(value + 1)
          BY <1>1, <3>1, <3>2, <4>1, <4>2
        <4>3. CASE Sl(u) # Sl(value + 1)
          <5>1. u \in 1 .. value
            BY <3>2, <4>3
          <5> QED BY <1>1, <2>0, <3>1, <4>1, <4>3, <5>1
        <4> QED BY <4>2, <4>3
      <3> QED BY <3>1, <3>5, <3>6
    <2>2. CASE Browser!Submit \/ Browser!Tell
      BY <1>1, <2>0, <2>2 DEF Browser!Submit, Browser!Tell
    <2> QED BY <2>1, <2>2 DEF Browser!Renderer
  <1>5. BrowserShape'
    <2>1. {value', submitted', whole', done', seq', frameSeq', failed', clientSeq'} \subseteq 0 .. MaxTicks
      BY <1>2, <1>3 DEF BrowserInv, BrowserShape
    <2> QED BY <1>2, <1>3, <1>4, <2>1 DEF BrowserInv, BrowserShape
  <1>6. TicksInv'
    <2>1. whole' <= done' /\ done' <= submitted' /\ submitted' <= value'
      BY <1>2, <1>3, <1>a, <1>b
    <2>2. drawing' => done' < submitted'
      <3>1. drawing => done < submitted
        BY DEF BrowserInv, TicksInv
      <3>2. done < submitted => done < submitted'
        BY <1>3, <1>a
      <3> QED BY <1>2, <3>1, <3>2
    <2> QED BY <1>4, <2>1, <2>2 DEF TicksInv
  <1>7. PixelsInv' /\ ShownInv'
    BY <1>2 DEF BrowserInv, PixelsInv, Topped, ShownInv
  <1>8. CopyInv'
    <2>1. enc.v \in Nat /\ value \in Nat /\ value' \in Nat /\ whole \in Nat /\ whole' \in Nat /\ seq \in Nat
      BY <1>1, <1>3
    <2>2. Keeps(enc.v, value') => Keeps(enc.v, value)
      BY <1>3, <2>1, KeepsEarlier
    <2> QED BY <1>2, <1>3, <2>1, <2>2 DEF BrowserInv, CopyInv
  <1> QED BY <1>5, <1>6, <1>7, <1>8 DEF BrowserInv

\* The GPU draws the next tick, half by half.
LEMMA GpuStep ==
  ASSUME SideAssumption, BrowserInv, Browser!Gpu
  PROVE  BrowserInv'
  <1>1. /\ {value, submitted, whole, done} \subseteq 0 .. MaxTicks /\ drawing \in BOOLEAN
        /\ pixels \in [0 .. Slots - 1 -> Browser!Halves]
    BY DEF BrowserInv, BrowserShape
  <1>2. UNCHANGED <<value, stamp, submitted, whole, step, enc, seq, frame, frameSeq, failed, hand,
                    clientSeq, watching, shown, events>>
    BY DEF Browser!Gpu, Browser!Draw, Browser!Drawn, Browser!render, Browser!encoder, Browser!browser
  <1>a. /\ value \in 0 .. MaxTicks /\ submitted \in 0 .. MaxTicks /\ whole \in 0 .. MaxTicks
        /\ done \in 0 .. MaxTicks
    BY <1>1
  <1>b. whole <= done /\ submitted <= value
    BY DEF BrowserInv, TicksInv
  <1>c. done < submitted
    <2>1. drawing => done < submitted
      BY DEF BrowserInv, TicksInv
    <2>2. Browser!Draw => done < submitted
      BY DEF Browser!Draw
    <2>3. Browser!Drawn => drawing
      BY DEF Browser!Drawn
    <2> QED BY <2>1, <2>2, <2>3 DEF Browser!Gpu
  <1>3. done < submitted /\ submitted <= value /\ whole <= done /\ done + 1 \in 0 .. MaxTicks
    BY <1>a, <1>b, <1>c, SlotOfTick
  <1>d. \/ Browser!Draw /\ ~drawing /\ drawing' = TRUE /\ done' = done
        \/ Browser!Drawn /\ drawing /\ drawing' = FALSE /\ done' = done + 1
    BY DEF Browser!Gpu, Browser!Draw, Browser!Drawn
  <1>4. Topped' = done + 1 /\ (Browser!Drawn => Topped = done + 1) /\ (Browser!Draw => Topped = done)
    <2>1. CASE Browser!Draw
      <3>1. drawing' = TRUE /\ done' = done /\ ~drawing
        BY <2>1 DEF Browser!Draw
      <3>2. ~Browser!Drawn
        BY <3>1 DEF Browser!Drawn
      <3>3. Topped' = (IF drawing' THEN done' + 1 ELSE done')
        BY DEF Topped
      <3>4. Topped' = done' + 1 /\ Topped = done
        BY <3>1, <3>3 DEF Topped
      <3> QED BY <3>1, <3>2, <3>4
    <2>2. CASE Browser!Drawn
      <3>1. ~drawing' /\ done' = done + 1 /\ drawing
        BY <2>2 DEF Browser!Drawn
      <3>2. ~Browser!Draw
        BY <3>1 DEF Browser!Draw
      <3>3. Topped' = done' /\ Topped = done + 1
        BY <3>1 DEF Topped
      <3> QED BY <3>1, <3>2, <3>3
    <2> QED BY <1>d, <2>1, <2>2
  <1>5. done \in Nat /\ \A v \in 1 .. done + 1 : Sl(v) \in 0 .. Slots - 1
    BY <1>a, SlotOfTick DEF Sl
  <1>6. ASSUME Browser!Draw
        PROVE  pixels' = [pixels EXCEPT ![Sl(done + 1)].top = done + 1]
    BY <1>6 DEF Browser!Draw, Sl
  <1>7. ASSUME Browser!Drawn
        PROVE  pixels' = [pixels EXCEPT ![Sl(done + 1)].bottom = done + 1]
    BY <1>7 DEF Browser!Drawn, Sl
  <1> DEFINE p == Sl(done + 1)
  <1>8. p \in 0 .. Slots - 1 /\ pixels[p] \in [top : 0 .. MaxTicks, bottom : 0 .. MaxTicks]
    BY <1>1, <1>5 DEF Browser!Halves
  <1>9. pixels' \in [0 .. Slots - 1 -> Browser!Halves]
    <2>1. CASE Browser!Draw
      BY <1>1, <1>3, <1>6, <1>8, <2>1 DEF Browser!Halves
    <2>2. CASE Browser!Drawn
      BY <1>1, <1>3, <1>7, <1>8, <2>2 DEF Browser!Halves
    <2> QED BY <1>d, <2>1, <2>2
  \* What is not drawn keeps its slot.
  <1>10. ASSUME NEW v \in 1 .. done, Keeps(v, done + 1)
         PROVE  Sl(v) # p /\ Keeps(v, done)
    BY <1>5, <1>10 DEF Keeps
  <1>11. ASSUME NEW q \in 0 .. Slots - 1, q # p PROVE pixels'[q] = pixels[q]
    BY <1>1, <1>d, <1>6, <1>7, <1>11
  <1>12. /\ Browser!Draw => pixels'[p].top = done + 1
         /\ Browser!Draw => \A q \in 0 .. Slots - 1 : pixels'[q].bottom = pixels[q].bottom
         /\ Browser!Drawn => pixels'[p].bottom = done + 1
         /\ Browser!Drawn => \A q \in 0 .. Slots - 1 : pixels'[q].top = pixels[q].top
    <2>1. p \in DOMAIN pixels /\ DOMAIN pixels = 0 .. Slots - 1
      BY <1>1, <1>8
    <2>2. \A q \in 0 .. Slots - 1 : pixels[q] \in [top : 0 .. MaxTicks, bottom : 0 .. MaxTicks]
      BY <1>1 DEF Browser!Halves
    <2> HIDE DEF p
    <2>3. ASSUME Browser!Draw
          PROVE  /\ pixels'[p].top = done + 1
                 /\ \A q \in 0 .. Slots - 1 : pixels'[q].bottom = pixels[q].bottom
      <3>1. pixels' = [pixels EXCEPT ![p].top = done + 1]
        BY <1>6, <2>3 DEF p
      <3> QED BY <2>1, <2>2, <3>1
    <2>4. ASSUME Browser!Drawn
          PROVE  /\ pixels'[p].bottom = done + 1
                 /\ \A q \in 0 .. Slots - 1 : pixels'[q].top = pixels[q].top
      <3>1. pixels' = [pixels EXCEPT ![p].bottom = done + 1]
        BY <1>7, <2>4 DEF p
      <3> QED BY <2>1, <2>2, <3>1
    <2> QED BY <2>3, <2>4
  <1> HIDE DEF p
  <1>13. ASSUME NEW v \in 1 .. done + 1, Keeps(v, done + 1) PROVE pixels'[Sl(v)].top = v
    <2>1. CASE Browser!Draw /\ v = done + 1
      BY <1>12, <2>1 DEF p
    <2>2. CASE Browser!Draw /\ v # done + 1
      <3>1. v \in 1 .. done
        BY <1>5, <2>2
      <3>2. pixels[Sl(v)].top = v
        BY <1>4, <1>10, <1>13, <2>2, <3>1 DEF BrowserInv, PixelsInv
      <3> QED BY <1>5, <1>10, <1>11, <1>13, <3>1, <3>2
    <2>3. CASE Browser!Drawn
      <3>1. pixels[Sl(v)].top = v
        BY <1>4, <1>13, <2>3 DEF BrowserInv, PixelsInv
      <3> QED BY <1>5, <1>12, <2>3, <3>1
    <2> QED BY <1>d, <2>1, <2>2, <2>3
  <1>14. ASSUME NEW v \in 1 .. done', Keeps(v, done') PROVE pixels'[Sl(v)].bottom = v
    <2>1. CASE Browser!Draw
      <3>1. v \in 1 .. done /\ pixels[Sl(v)].bottom = v
        BY <1>14, <2>1 DEF BrowserInv, PixelsInv, Browser!Draw
      <3> QED BY <1>5, <1>12, <2>1, <3>1
    <2>2. CASE Browser!Drawn /\ v = done + 1
      BY <1>12, <2>2 DEF p
    <2>3. CASE Browser!Drawn /\ v # done + 1
      <3>1. done' = done + 1 /\ v \in 1 .. done
        BY <1>5, <2>3 DEF Browser!Drawn
      <3>2. Sl(v) # p /\ Keeps(v, done)
        BY <1>10, <1>14, <3>1
      <3>3. pixels[Sl(v)].bottom = v
        BY <3>1, <3>2 DEF BrowserInv, PixelsInv
      <3> QED BY <1>5, <1>11, <3>1, <3>2, <3>3
    <2> QED BY <1>d, <2>1, <2>2, <2>3
  <1>e. done' \in 0 .. MaxTicks /\ whole <= done' /\ done' <= submitted
    BY <1>a, <1>b, <1>3, <1>d
  <1>15. BrowserShape'
    <2>1. {value', submitted', whole', done', seq', frameSeq', failed', clientSeq'} \subseteq 0 .. MaxTicks
      BY <1>2, <1>e DEF BrowserInv, BrowserShape
    <2>2. drawing' \in BOOLEAN
      BY <1>d
    <2> QED BY <1>2, <1>9, <2>1, <2>2 DEF BrowserInv, BrowserShape
  <1>16. TicksInv'
    <2>1. drawing' => done' < submitted
      <3>1. drawing' => done' = done
        BY <1>d
      <3> QED BY <1>c, <3>1
    <2>2. whole' <= done' /\ done' <= submitted' /\ submitted' <= value'
      BY <1>2, <1>b, <1>e
    <2> QED BY <1>2, <2>1, <2>2 DEF BrowserInv, TicksInv
  <1>17. PixelsInv'
    BY <1>4, <1>13, <1>14 DEF PixelsInv
  <1>18. CopyInv' /\ ShownInv'
    BY <1>2 DEF BrowserInv, CopyInv, Keeps, ShownInv
  <1> QED BY <1>15, <1>16, <1>17, <1>18 DEF BrowserInv

\* The encode thread copies a slot, looks at its stamp and makes a frame of the copy.
LEMMA EncoderStep ==
  ASSUME SideAssumption, BrowserInv, Browser!Encoder
  PROVE  BrowserInv'
  <1>1. /\ value \in 0 .. MaxTicks /\ submitted \in 0 .. MaxTicks /\ whole \in 0 .. MaxTicks
        /\ done \in 0 .. MaxTicks /\ seq \in 0 .. MaxTicks /\ frameSeq \in 0 .. MaxTicks
        /\ failed \in 0 .. MaxTicks /\ frame \in Browser!Halves
        /\ stamp \in [0 .. Slots - 1 -> 0 .. MaxTicks]
        /\ pixels \in [0 .. Slots - 1 -> Browser!Halves] /\ events \in 0 .. MaxEvents
    BY DEF BrowserInv, BrowserShape
  <1>2. enc \in [step : EncSteps, v : 0 .. MaxTicks, tries : 0 .. 2, copy : Browser!Halves]
    BY DEF BrowserInv, BrowserShape
  <1>3. whole <= done /\ done <= submitted /\ submitted <= value
    BY DEF BrowserInv, TicksInv
  <1>4. UNCHANGED <<value, stamp, submitted, whole, step, done, drawing, pixels, hand, clientSeq,
                    watching, shown>>
    BY DEF Browser!Encoder, Browser!Look, Browser!CopyUpper, Browser!CopyLower, Browser!Check,
           Browser!Encode, Browser!EncodeFails, Browser!Store, Browser!Bump, Browser!render,
           Browser!gpu, Browser!browser
  <1>5. TicksInv' /\ PixelsInv'
    BY <1>4 DEF BrowserInv, TicksInv, PixelsInv, Topped, Keeps
  <1>6. Browser!Blank \in Browser!Halves /\ MaxTicks \in Nat
    BY SlotOfTick DEF Browser!Blank, Browser!Halves
  <1>7. Browser!Idle \in [step : EncSteps, v : 0 .. MaxTicks, tries : 0 .. 2, copy : Browser!Halves]
        /\ Browser!Idle.step = "idle"
    BY <1>6 DEF Browser!Idle, EncSteps
  \* What the step leaves to be shown.
  <1>s. ASSUME enc' \in [step : EncSteps, v : 0 .. MaxTicks, tries : 0 .. 2, copy : Browser!Halves],
               seq' \in 0 .. MaxTicks, frameSeq' \in 0 .. MaxTicks, failed' \in 0 .. MaxTicks,
               frame' \in Browser!Halves, events' \in 0 .. MaxEvents
        PROVE  BrowserShape'
    <2>1. {value', submitted', whole', done', seq', frameSeq', failed', clientSeq'} \subseteq 0 .. MaxTicks
      BY <1>4, <1>s DEF BrowserInv, BrowserShape
    <2> QED BY <1>4, <1>s, <2>1 DEF BrowserInv, BrowserShape
  \* A slot is looked at, with what is complete.
  <1> DEFINE look(n) == [step |-> "upper", v |-> whole, tries |-> n, copy |-> Browser!Blank]
  <1>8. ASSUME whole # 0, whole # seq, NEW n \in 0 .. 2, enc' = look(n),
               UNCHANGED <<seq, frame, frameSeq, failed, events>>,
               enc.step \notin {"encode", "store", "bump"}
        PROVE  BrowserInv'
    <2>1. enc' \in [step : EncSteps, v : 0 .. MaxTicks, tries : 0 .. 2, copy : Browser!Halves]
          /\ enc'.step = "upper" /\ enc'.v = whole
      BY <1>1, <1>6, <1>8 DEF EncSteps
    <2>2. BrowserShape'
      BY <1>1, <1>8, <1>s, <2>1
    <2>3. seq <= whole /\ whole \in 1 .. whole /\ seq < whole
      BY <1>1, <1>8 DEF BrowserInv, CopyInv
    <2>4. CopyInv'
      BY <1>4, <1>8, <2>1, <2>3 DEF CopyInv
    <2>5. ShownInv'
      BY <1>4, <1>8, <2>1 DEF BrowserInv, ShownInv
    <2> QED BY <1>5, <2>2, <2>4, <2>5 DEF BrowserInv
  \* The copy is given up, or has become a frame.
  <1>9. ASSUME enc' = Browser!Idle, UNCHANGED <<seq, frame>>, failed' \in 0 .. MaxTicks,
               events' \in 0 .. MaxEvents,
               frameSeq' = frameSeq \/ (enc.step = "bump" /\ frameSeq' = frameSeq + 1)
        PROVE  BrowserInv'
    <2>1. frameSeq' <= seq
      <3>1. frameSeq + (IF enc.step \in {"encode", "store", "bump"} THEN 1 ELSE 0) <= seq
        BY DEF BrowserInv, ShownInv
      <3>2. CASE enc.step = "bump" /\ frameSeq' = frameSeq + 1
        BY <1>1, <3>1, <3>2
      <3>3. CASE frameSeq' = frameSeq
        <4>1. CASE enc.step \in {"encode", "store", "bump"}
          BY <1>1, <3>1, <3>3, <4>1
        <4>2. CASE enc.step \notin {"encode", "store", "bump"}
          BY <1>1, <3>1, <3>3, <4>2
        <4> QED BY <4>1, <4>2
      <3> QED BY <1>9, <3>2, <3>3
    <2>2. frameSeq' \in 0 .. MaxTicks
      <3>1. frameSeq' \in Nat
        BY <1>1, <1>9
      <3> QED BY <1>1, <1>6, <2>1, <3>1
    <2>3. BrowserShape'
      BY <1>1, <1>7, <1>9, <1>s, <2>2
    <2>4. CopyInv'
      BY <1>4, <1>7, <1>9 DEF BrowserInv, CopyInv
    <2>5. frameSeq' + 0 <= seq'
      <3>1. seq' = seq
        BY <1>9
      <3> QED BY <2>1, <2>2, <3>1
    <2>6. ShownInv'
      BY <1>4, <1>7, <1>9, <2>5 DEF BrowserInv, ShownInv
    <2> QED BY <1>5, <2>3, <2>4, <2>6 DEF BrowserInv
  <1>10. CASE Browser!Look
    <2>1. /\ enc.step = "idle" /\ whole # 0 /\ whole # seq /\ enc' = look(1)
          /\ UNCHANGED <<seq, frame, frameSeq, failed, events>>
      BY <1>10 DEF Browser!Look, Browser!browser
    <2>2. 1 \in 0 .. 2
      OBVIOUS
    <2> HIDE DEF look
    <2> QED BY <1>8, <2>1, <2>2
  <1>11. CASE Browser!CopyUpper
    <2> DEFINE c == [enc EXCEPT !.step = "lower", !.copy.top = pixels[Sl(enc.v)].top]
    <2>1. enc.step = "upper" /\ enc' = c /\ UNCHANGED <<seq, frame, frameSeq, failed, events>>
      BY <1>11 DEF Browser!CopyUpper, Browser!browser, Sl
    <2>2. enc.v \in 1 .. whole /\ seq < enc.v /\ enc.v \in Nat /\ Sl(enc.v) \in 0 .. Slots - 1
      <3>1. enc.v \in 1 .. whole /\ seq < enc.v
        BY <2>1 DEF BrowserInv, CopyInv
      <3>2. enc.v \in Nat
        BY <1>2
      <3> QED BY <3>1, <3>2, SlotOfTick DEF Sl
    <2>3. pixels[Sl(enc.v)].top \in 0 .. MaxTicks
      BY <1>1, <2>2 DEF Browser!Halves
    <2>4. /\ c \in [step : EncSteps, v : 0 .. MaxTicks, tries : 0 .. 2, copy : Browser!Halves]
          /\ c.step = "lower" /\ c.v = enc.v /\ c.copy.top = pixels[Sl(enc.v)].top
      BY <1>2, <2>3 DEF EncSteps, Browser!Halves
    <2>5. Keeps(enc.v, value) => pixels[Sl(enc.v)].top = enc.v
      <3>1. Topped \in Nat /\ Topped <= value /\ whole <= Topped
        <4>1. CASE drawing
          <5>1. done < submitted
            BY <4>1 DEF BrowserInv, TicksInv
          <5>2. Topped = done + 1
            BY <4>1 DEF Topped
          <5> QED BY <1>1, <1>3, <5>1, <5>2
        <4>2. CASE ~drawing
          <5>1. Topped = done
            BY <4>2 DEF Topped
          <5> QED BY <1>1, <1>3, <5>1
        <4> QED BY <4>1, <4>2
      <3>2. enc.v \in 1 .. Topped
        BY <1>1, <2>2, <3>1
      <3>3. Keeps(enc.v, value) => Keeps(enc.v, Topped)
        BY <1>1, <2>2, <3>1, KeepsEarlier
      <3> QED BY <3>2, <3>3 DEF BrowserInv, PixelsInv
    <2> HIDE DEF c
    <2>6. BrowserShape'
      BY <1>1, <1>s, <2>1, <2>4
    <2>7. CopyInv'
      <3>1. Keeps(c.v, value) => c.copy.top = c.v
        BY <2>4, <2>5
      <3>2. value' = value /\ whole' = whole /\ seq' = seq /\ enc' = c
        BY <1>4, <2>1
      <3> QED BY <2>2, <2>4, <3>1, <3>2 DEF BrowserInv, CopyInv
    <2>8. ShownInv'
      BY <1>4, <2>1, <2>4 DEF BrowserInv, ShownInv
    <2> QED BY <1>5, <2>6, <2>7, <2>8 DEF BrowserInv
  <1>12. CASE Browser!CopyLower
    <2> DEFINE c == [enc EXCEPT !.step = "check", !.copy.bottom = pixels[Sl(enc.v)].bottom]
    <2>1. enc.step = "lower" /\ enc' = c /\ UNCHANGED <<seq, frame, frameSeq, failed, events>>
      BY <1>12 DEF Browser!CopyLower, Browser!browser, Sl
    <2>2. enc.v \in 1 .. whole /\ seq < enc.v /\ enc.v \in Nat /\ Sl(enc.v) \in 0 .. Slots - 1
      <3>1. enc.v \in 1 .. whole /\ seq < enc.v
        BY <2>1 DEF BrowserInv, CopyInv
      <3>2. enc.v \in Nat
        BY <1>2
      <3> QED BY <3>1, <3>2, SlotOfTick DEF Sl
    <2>3. pixels[Sl(enc.v)].bottom \in 0 .. MaxTicks
      BY <1>1, <2>2 DEF Browser!Halves
    <2>4. /\ c \in [step : EncSteps, v : 0 .. MaxTicks, tries : 0 .. 2, copy : Browser!Halves]
          /\ c.step = "check" /\ c.v = enc.v /\ c.copy.bottom = pixels[Sl(enc.v)].bottom
          /\ c.copy.top = enc.copy.top
      BY <1>2, <2>3 DEF EncSteps, Browser!Halves
    <2>5. Keeps(enc.v, value) => pixels[Sl(enc.v)].bottom = enc.v
      <3>1. done <= value /\ enc.v \in 1 .. done
        BY <1>1, <1>3, <2>2
      <3>2. Keeps(enc.v, value) => Keeps(enc.v, done)
        BY <1>1, <2>2, <3>1, KeepsEarlier
      <3> QED BY <3>1, <3>2 DEF BrowserInv, PixelsInv
    <2>6. Keeps(enc.v, value) => enc.copy.top = enc.v
      BY <2>1 DEF BrowserInv, CopyInv
    <2> HIDE DEF c
    <2>7. BrowserShape'
      BY <1>1, <1>s, <2>1, <2>4
    <2>8. CopyInv'
      <3>1. Keeps(c.v, value) => c.copy.top = c.v /\ c.copy.bottom = c.v
        BY <2>4, <2>5, <2>6
      <3>2. value' = value /\ whole' = whole /\ seq' = seq /\ enc' = c
        BY <1>4, <2>1
      <3> QED BY <2>2, <2>4, <3>1, <3>2 DEF BrowserInv, CopyInv
    <2>9. ShownInv'
      BY <1>4, <2>1, <2>4 DEF BrowserInv, ShownInv
    <2> QED BY <1>5, <2>7, <2>8, <2>9 DEF BrowserInv
  <1>13. CASE Browser!Check
    <2>1. enc.step = "check" /\ UNCHANGED <<frame, frameSeq, failed, events>>
      BY <1>13 DEF Browser!Check, Browser!browser
    <2>2. enc.v \in 1 .. whole /\ seq < enc.v /\ enc.v \in Nat /\ Sl(enc.v) \in 0 .. Slots - 1
      <3>1. enc.v \in 1 .. whole /\ seq < enc.v
        BY <2>1 DEF BrowserInv, CopyInv
      <3>2. enc.v \in Nat
        BY <1>2
      <3> QED BY <3>1, <3>2, SlotOfTick DEF Sl
    <2>3. CASE Browser!StillOurs(enc.v)
      <3> DEFINE c == [enc EXCEPT !.step = "encode"]
      <3>1. enc' = c /\ seq' = enc.v
        BY <1>13, <2>3 DEF Browser!Check
      <3>2. /\ c \in [step : EncSteps, v : 0 .. MaxTicks, tries : 0 .. 2, copy : Browser!Halves]
            /\ c.step = "encode" /\ c.v = enc.v /\ c.copy = enc.copy
        BY <1>2 DEF EncSteps
      <3> HIDE DEF c
      \* The stamp has not moved: no later tick was given the slot.
      <3>3. Keeps(enc.v, value)
        <4> SUFFICES ASSUME NEW u \in enc.v + 1 .. value, Sl(u) = Sl(enc.v) PROVE FALSE
          BY DEF Keeps
        <4>1. u \in 1 .. value /\ u > enc.v /\ u \in Nat
          BY <1>1, <2>2
        <4>2. stamp[Sl(u)] >= u
          BY <4>1 DEF BrowserInv, TicksInv
        <4>3. stamp[Sl(u)] = enc.v
          BY <2>3 DEF Browser!StillOurs, Sl
        <4> QED BY <2>2, <4>1, <4>2, <4>3
      <3>4. enc.copy.top = enc.v /\ enc.copy.bottom = enc.v
        BY <2>1, <3>3 DEF BrowserInv, CopyInv
      <3>5. BrowserShape'
        BY <1>1, <1>2, <1>s, <2>1, <3>1, <3>2
      <3>6. CopyInv'
        <4>1. enc.v <= whole /\ whole' = whole /\ seq' = enc.v /\ enc' = c
          BY <1>1, <1>4, <2>2, <3>1
        <4> QED BY <3>2, <3>4, <4>1 DEF CopyInv
      <3>7. ShownInv'
        <4>1. frame.top <= seq /\ frameSeq <= seq
          <5>1. frameSeq + 0 <= seq
            BY <2>1 DEF BrowserInv, ShownInv
          <5> QED BY <1>1, <5>1 DEF BrowserInv, ShownInv
        <4>2. frame.top <= seq' /\ frameSeq + 1 <= seq' /\ frame.top \in 0 .. MaxTicks
          BY <1>1, <2>2, <3>1, <4>1 DEF Browser!Halves
        <4>3. enc'.step = "encode"
          BY <3>1, <3>2
        <4> QED BY <1>4, <2>1, <4>2, <4>3 DEF BrowserInv, ShownInv
      <3> QED BY <1>5, <3>5, <3>6, <3>7 DEF BrowserInv
    <2>4. CASE ~Browser!StillOurs(enc.v)
      <3>1. /\ enc' = IF enc.tries = 1 /\ whole # seq THEN look(2) ELSE Browser!Idle
            /\ seq' = seq
        BY <1>13, <2>4 DEF Browser!Check
      <3>2. whole # 0
        BY <1>1, <2>2
      <3>3. 2 \in 0 .. 2 /\ failed' = failed /\ frameSeq' = frameSeq /\ events' = events
        BY <2>1
      <3> HIDE DEF look
      <3> QED BY <1>1, <1>8, <1>9, <2>1, <3>1, <3>2, <3>3
    <2> QED BY <2>3, <2>4
  <1>14. CASE Browser!Encode
    <2> DEFINE c == [enc EXCEPT !.step = "store"]
    <2>1. enc.step = "encode" /\ enc' = c /\ UNCHANGED <<seq, frame, frameSeq, failed, events>>
      BY <1>14 DEF Browser!Encode, Browser!browser
    <2>2. /\ c \in [step : EncSteps, v : 0 .. MaxTicks, tries : 0 .. 2, copy : Browser!Halves]
          /\ c.step = "store" /\ c.v = enc.v /\ c.copy = enc.copy
      BY <1>2 DEF EncSteps
    <2> HIDE DEF c
    <2>3. BrowserShape'
      BY <1>1, <1>s, <2>1, <2>2
    <2>4. CopyInv' /\ ShownInv'
      <3>1. value' = value /\ whole' = whole /\ shown' = shown /\ hand' = hand
        BY <1>4
      <3> QED BY <2>1, <2>2, <3>1 DEF BrowserInv, CopyInv, ShownInv
    <2> QED BY <1>5, <2>3, <2>4 DEF BrowserInv
  <1>15. CASE Browser!EncodeFails
    <2>1. /\ enc.step = "encode" /\ events < MaxEvents /\ events' = events + 1
          /\ enc' = Browser!Idle /\ failed' = enc.v /\ UNCHANGED <<seq, frame, frameSeq>>
      BY <1>15 DEF Browser!EncodeFails
    <2>2. events' \in 0 .. MaxEvents /\ failed' \in 0 .. MaxTicks
      BY <1>1, <1>2, <2>1, SlotOfTick
    <2> QED BY <1>9, <2>1, <2>2
  <1>16. CASE Browser!Store
    <2> DEFINE c == [enc EXCEPT !.step = "bump"]
    <2>1. enc.step = "store" /\ enc' = c /\ frame' = enc.copy
          /\ UNCHANGED <<seq, frameSeq, failed, events>>
      BY <1>16 DEF Browser!Store, Browser!browser
    <2>2. /\ c \in [step : EncSteps, v : 0 .. MaxTicks, tries : 0 .. 2, copy : Browser!Halves]
          /\ c.step = "bump" /\ c.v = enc.v /\ c.copy = enc.copy
      BY <1>2 DEF EncSteps
    <2>3. frame' \in Browser!Halves
      BY <1>2, <2>1
    <2> HIDE DEF c
    <2>4. BrowserShape'
      BY <1>1, <1>s, <2>1, <2>2, <2>3
    <2>5. CopyInv'
      <3>1. value' = value /\ whole' = whole
        BY <1>4
      <3> QED BY <2>1, <2>2, <3>1 DEF BrowserInv, CopyInv
    <2>6. ShownInv'
      <3>1. /\ frame'.top = seq /\ frame'.bottom = seq /\ frame.top <= seq
            /\ frame.top \in 0 .. MaxTicks
        BY <1>1, <2>1 DEF BrowserInv, CopyInv, ShownInv, Browser!Halves
      <3>2. shown.top <= seq /\ (hand.step = "give" => hand.frame.top <= seq)
        <4>1. /\ shown.top \in 0 .. MaxTicks /\ hand.frame.top \in 0 .. MaxTicks
          BY DEF BrowserInv, BrowserShape, Browser!Halves
        <4>2. shown.top <= frame.top /\ (hand.step = "give" => hand.frame.top <= frame.top)
          BY DEF BrowserInv, ShownInv
        <4> QED BY <1>1, <3>1, <4>1, <4>2
      <3>3. /\ seq' = seq /\ frameSeq' = frameSeq /\ shown' = shown /\ hand' = hand
            /\ enc'.step = "bump"
        BY <1>4, <2>1, <2>2
      <3>4. seq <= seq /\ frameSeq + 1 <= seq
        BY <1>1, <2>1 DEF BrowserInv, ShownInv
      <3> QED BY <3>1, <3>2, <3>3, <3>4 DEF BrowserInv, ShownInv
    <2> QED BY <1>5, <2>4, <2>5, <2>6 DEF BrowserInv
  <1>17. CASE Browser!Bump
    <2>1. /\ enc.step = "bump" /\ enc' = Browser!Idle /\ frameSeq' = frameSeq + 1
          /\ UNCHANGED <<seq, frame, failed, events>>
      BY <1>17 DEF Browser!Bump, Browser!browser
    <2> QED BY <1>1, <1>9, <2>1
  <1> QED BY <1>10, <1>11, <1>12, <1>13, <1>14, <1>15, <1>16, <1>17 DEF Browser!Encoder

\* The thread of the sockets takes a frame and gives it to the browser, which comes and
\* goes between two rounds.
LEMMA SocketStep ==
  ASSUME SideAssumption, BrowserInv,
         Browser!Load \/ Browser!Take \/ Browser!Give(FALSE) \/ Browser!Give(TRUE)
           \/ Browser!Come \/ Browser!Go
  PROVE  BrowserInv'
  <1>1. /\ seq \in 0 .. MaxTicks /\ frameSeq \in 0 .. MaxTicks /\ clientSeq \in 0 .. MaxTicks
        /\ frame \in Browser!Halves /\ shown \in Browser!Halves /\ events \in 0 .. MaxEvents
        /\ watching \in BOOLEAN
        /\ hand \in [seq : 0 .. MaxTicks, frame : Browser!Halves, step : {"load", "take", "give"}]
    BY DEF BrowserInv, BrowserShape
  <1>2. /\ UNCHANGED <<value, stamp, submitted, whole, step, done, drawing, pixels>>
        /\ UNCHANGED <<enc, seq, frame, frameSeq, failed>>
    BY DEF Browser!Load, Browser!Take, Browser!Give, Browser!Come, Browser!Go, Browser!render,
           Browser!gpu, Browser!encoder
  <1>3. TicksInv' /\ PixelsInv' /\ CopyInv'
    BY <1>2 DEF BrowserInv, TicksInv, PixelsInv, CopyInv, Topped, Keeps
  <1>s. ASSUME hand' \in [seq : 0 .. MaxTicks, frame : Browser!Halves, step : {"load", "take", "give"}],
               clientSeq' \in 0 .. MaxTicks, shown' \in Browser!Halves,
               watching' \in BOOLEAN, events' \in 0 .. MaxEvents
        PROVE  BrowserShape'
    <2>1. {value', submitted', whole', done', seq', frameSeq', failed', clientSeq'} \subseteq 0 .. MaxTicks
      BY <1>2, <1>s DEF BrowserInv, BrowserShape
    <2> QED BY <1>2, <1>s, <2>1 DEF BrowserInv, BrowserShape
  <1>4. Browser!Blank \in Browser!Halves /\ Browser!Blank.top = 0 /\ Browser!Blank.bottom = 0
    BY SlotOfTick DEF Browser!Blank, Browser!Halves
  <1>5. /\ Browser!NoHand \in [seq : 0 .. MaxTicks, frame : Browser!Halves, step : {"load", "take", "give"}]
        /\ Browser!NoHand.step = "load"
    BY <1>4, SlotOfTick DEF Browser!NoHand
  <1>6. /\ frame.top = frame.bottom /\ frame.top <= seq
        /\ shown.top = shown.bottom /\ shown.top <= frame.top
        /\ hand.step = "give" =>
             hand.frame.top = hand.frame.bottom /\ hand.frame.top <= frame.top
               /\ shown.top <= hand.frame.top
    BY DEF BrowserInv, ShownInv
  <1>7. /\ frame.top \in 0 .. MaxTicks /\ shown.top \in 0 .. MaxTicks
        /\ hand.frame.top \in 0 .. MaxTicks
    BY <1>1 DEF Browser!Halves
  <1>8. CASE Browser!Load
    <2> DEFINE h == [hand EXCEPT !.step = "take", !.seq = frameSeq]
    <2>1. hand' = h /\ UNCHANGED <<clientSeq, watching, shown, events>>
      BY <1>8 DEF Browser!Load
    <2>2. /\ h \in [seq : 0 .. MaxTicks, frame : Browser!Halves, step : {"load", "take", "give"}]
          /\ h.step = "take"
      BY <1>1
    <2> HIDE DEF h
    <2>3. BrowserShape'
      BY <1>1, <1>s, <2>1, <2>2
    <2>4. ShownInv'
      BY <1>2, <2>1, <2>2 DEF BrowserInv, ShownInv
    <2> QED BY <1>3, <2>3, <2>4 DEF BrowserInv
  <1>9. CASE Browser!Take
    <2> DEFINE h == [hand EXCEPT !.step = "give", !.frame = frame]
    <2>1. hand' = h /\ UNCHANGED <<clientSeq, watching, shown, events>>
      BY <1>9 DEF Browser!Take
    <2>2. /\ h \in [seq : 0 .. MaxTicks, frame : Browser!Halves, step : {"load", "take", "give"}]
          /\ h.step = "give" /\ h.frame = frame
      BY <1>1
    <2> HIDE DEF h
    <2>3. BrowserShape'
      BY <1>1, <1>s, <2>1, <2>2
    <2>4. frame.top <= frame.top
      BY <1>7
    <2>5. ShownInv'
      BY <1>2, <1>6, <2>1, <2>2, <2>4 DEF BrowserInv, ShownInv
    <2> QED BY <1>3, <2>3, <2>5 DEF BrowserInv
  <1>10. ASSUME NEW full \in BOOLEAN, Browser!Give(full)
         PROVE  BrowserInv'
    <2>1. /\ hand.step = "give" /\ hand' = Browser!NoHand /\ UNCHANGED <<watching, events>>
          /\ \/ clientSeq' = hand.seq /\ shown' = hand.frame
             \/ clientSeq' = clientSeq /\ shown' = shown
      BY <1>10 DEF Browser!Give
    <2>2. clientSeq' \in 0 .. MaxTicks /\ shown' \in Browser!Halves
      BY <1>1, <2>1
    <2>3. BrowserShape'
      BY <1>1, <1>5, <1>s, <2>1, <2>2
    <2>4. shown'.top = shown'.bottom /\ shown'.top <= frame.top
      BY <1>6, <2>1
    <2>5. hand'.step = "load"
      BY <1>5, <2>1
    <2>6. ShownInv'
      BY <1>2, <2>4, <2>5 DEF BrowserInv, ShownInv
    <2> QED BY <1>3, <2>3, <2>6 DEF BrowserInv
  <1>11. CASE Browser!Come
    <2>1. /\ hand.step = "load" /\ watching' = TRUE /\ clientSeq' = 0 /\ shown' = Browser!Blank
          /\ UNCHANGED <<hand, events>>
      BY <1>11 DEF Browser!Come
    <2>2. 0 \in 0 .. MaxTicks /\ 0 <= frame.top
      BY <1>7, SlotOfTick
    <2>3. BrowserShape'
      BY <1>1, <1>4, <1>s, <2>1, <2>2
    <2>4. ShownInv'
      BY <1>2, <1>4, <2>1, <2>2 DEF BrowserInv, ShownInv
    <2> QED BY <1>3, <2>3, <2>4 DEF BrowserInv
  <1>12. CASE Browser!Go
    <2>1. /\ watching' = FALSE /\ events < MaxEvents /\ events' = events + 1
          /\ UNCHANGED <<hand, clientSeq, shown>>
      BY <1>12 DEF Browser!Go
    <2>2. events' \in 0 .. MaxEvents
      BY <1>1, <2>1, SlotOfTick
    <2>3. BrowserShape'
      BY <1>1, <1>s, <2>1, <2>2
    <2>4. ShownInv'
      BY <1>2, <2>1 DEF BrowserInv, ShownInv
    <2> QED BY <1>3, <2>3, <2>4 DEF BrowserInv
  <1> QED BY <1>8, <1>9, <1>10, <1>11, <1>12

\* Every step of the multiview's way keeps the invariant.
LEMMA BrowserStep == SideAssumption /\ BrowserInv /\ Browser!Next => BrowserInv'
  BY RendererStep, GpuStep, EncoderStep, SocketStep DEF Browser!Next, Browser!Sockets

\* What a browser is given is of one tick, and no older than what it shows.
LEMMA GivenIntact ==
  ASSUME BrowserInv, Browser!Give(FALSE)
  PROVE  shown'.top = shown'.bottom /\ (watching => shown'.top >= shown.top)
  <1>1. /\ hand.step = "give"
        /\ \/ shown' = hand.frame
           \/ shown' = shown
    BY DEF Browser!Give
  <1>2. /\ shown.top = shown.bottom /\ hand.frame.top = hand.frame.bottom
        /\ shown.top <= hand.frame.top
    BY <1>1 DEF BrowserInv, ShownInv
  <1>3. shown.top \in Int /\ hand.frame.top \in Int
    BY DEF BrowserInv, BrowserShape, Browser!Halves
  <1> QED BY <1>1, <1>2, <1>3

\* The types of the multiview's variables follow from the invariant.
LEMMA BrowserTypes == BrowserInv => Browser!TypeOK
  BY DEF BrowserInv, BrowserShape, Browser!TypeOK

---------------------------------------------------------------------------
(* The settings of the outputs                                             *)

ShowFormats == [w : Int, h : Int, n : Int, d : Int]

OutputInv ==
  /\ show \in ShowFormats /\ Outputs!Startable(show)
  /\ stored.scheme \in {"none", "srt", "other"}
  /\ send \in BOOLEAN /\ settings \in 0 .. MaxAsks

\* The factory settings are ones the engine starts with.
LEMMA OutputInit == SideAssumption /\ Outputs!Init => OutputInv
  <1> SUFFICES ASSUME SideAssumption, Outputs!Init PROVE OutputInv
    OBVIOUS
  <1>1. MaxAsks \in Nat
    BY DEF SideAssumption, Outputs!SettingsAssumption
  <1>2. show = [w |-> 1920, h |-> 1080, n |-> 60000, d |-> 1001]
    BY DEF Outputs!Init
  <1>3. show \in ShowFormats /\ Outputs!Startable(show)
    BY <1>2 DEF ShowFormats, Outputs!Startable, Outputs!Even
  <1>4. stored.scheme \in {"none", "srt", "other"} /\ send \in BOOLEAN /\ settings = 0
    BY DEF Outputs!Init, Outputs!NoUrl
  <1> QED BY <1>1, <1>3, <1>4 DEF OutputInv

\* No message of the page leaves a format that the next start would refuse.
LEMMA OutputStep == SideAssumption /\ OutputInv /\ Outputs!Next => OutputInv'
  <1> SUFFICES ASSUME SideAssumption, OutputInv, Outputs!Next PROVE OutputInv'
    OBVIOUS
  <1>0. /\ show \in ShowFormats /\ Outputs!Startable(show) /\ send \in BOOLEAN
        /\ stored.scheme \in {"none", "srt", "other"} /\ settings \in 0 .. MaxAsks
    BY DEF OutputInv
  <1>a. MaxAsks \in Nat /\ Shows \subseteq ShowFormats /\ Pasted \subseteq Outputs!Urls
    BY DEF SideAssumption, Outputs!SettingsAssumption, ShowFormats
  <1>b. \A f : Outputs!Compose(f).scheme = "srt"
    BY DEF Outputs!Compose
  <1>c. ASSUME NEW v, Outputs!Ask(v) PROVE settings' \in 0 .. MaxAsks
    BY <1>0, <1>a, <1>c DEF Outputs!Ask
  <1>d. ASSUME show' = show, send' \in BOOLEAN, settings' \in 0 .. MaxAsks,
               stored'.scheme \in {"none", "srt", "other"}
        PROVE  OutputInv'
    BY <1>0, <1>d DEF OutputInv
  <1>1. ASSUME NEW u \in Pasted, Outputs!Paste(u) PROVE OutputInv'
    <2>1. u.scheme \in {"none", "srt", "other"}
      BY <1>a DEF Outputs!Urls
    <2>2. stored' = u /\ show' = show /\ send' = send /\ settings' \in 0 .. MaxAsks
      BY <1>1, <1>c DEF Outputs!Paste
    <2> QED BY <1>0, <1>d, <2>1, <2>2
  <1>2. ASSUME NEW field, NEW v, Outputs!Edit(field, v) PROVE OutputInv'
    <2>1. stored'.scheme = "srt" /\ show' = show /\ send' = send
      BY <1>2, <1>b DEF Outputs!Edit
    <2>2. settings' \in 0 .. MaxAsks
      BY <1>2, <1>c DEF Outputs!Edit
    <2> QED BY <1>0, <1>d, <2>1, <2>2
  <1>3. ASSUME NEW field, Outputs!Refuse(field) PROVE OutputInv'
    <2>1. stored' = stored /\ show' = show /\ send' = send /\ settings' \in 0 .. MaxAsks
      BY <1>3, <1>c DEF Outputs!Refuse
    <2> QED BY <1>0, <1>d, <2>1
  <1>4. ASSUME NEW on \in BOOLEAN, Outputs!Switch(on) PROVE OutputInv'
    <2>1. show' = show /\ send' \in BOOLEAN /\ settings' \in 0 .. MaxAsks
      BY <1>4, <1>c DEF Outputs!Switch
    <2>2. stored' = stored \/ stored' = Outputs!Compose(Outputs!Defaults)
      BY <1>4 DEF Outputs!Switch
    <2>3. stored'.scheme \in {"none", "srt", "other"}
      BY <1>0, <1>b, <2>2
    <2> QED BY <1>d, <2>1, <2>3
  <1>5. ASSUME NEW s \in Shows, Outputs!SetShow(s) PROVE OutputInv'
    <2>1. /\ show' = Outputs!Kept(s) /\ stored' = stored /\ send' = send
          /\ settings' \in 0 .. MaxAsks
      BY <1>5, <1>c DEF Outputs!SetShow
    <2>2. /\ s.w \in Int /\ s.h \in Int /\ s.n \in Int /\ s.d \in Int
          /\ show.w \in Int /\ show.h \in Int /\ show.n \in Int /\ show.d \in Int
      BY <1>0, <1>a DEF ShowFormats
    <2> DEFINE size == Outputs!Within(s)
    <2>4. PICK rate \in BOOLEAN : rate = (s.n > 0 /\ s.d > 0 /\ s.n \div s.d <= 240)
      OBVIOUS
    <2>5. Outputs!Kept(s) = [w |-> IF size THEN s.w ELSE show.w, h |-> IF size THEN s.h ELSE show.h,
                             n |-> IF rate THEN s.n ELSE show.n, d |-> IF rate THEN s.d ELSE show.d]
      BY <2>4, Zenon DEF Outputs!Kept
    <2>6. size => s.w >= 2 /\ s.h >= 2 /\ Outputs!Even(s.w) /\ Outputs!Even(s.h)
      BY SMT DEF Outputs!Within
    <2> HIDE DEF size
    <2>7. rate => s.n > 0 /\ s.d > 0
      BY <2>4
    <2>8. /\ show.w >= 2 /\ show.h >= 2 /\ Outputs!Even(show.w) /\ Outputs!Even(show.h)
          /\ show.n > 0 /\ show.d > 0
      BY <1>0 DEF Outputs!Startable
    <2> DEFINE a == IF size THEN s.w ELSE show.w
               b == IF size THEN s.h ELSE show.h
               n == IF rate THEN s.n ELSE show.n
               d == IF rate THEN s.d ELSE show.d
    <2>9. a \in Int /\ b \in Int /\ a >= 2 /\ b >= 2 /\ Outputs!Even(a) /\ Outputs!Even(b)
      BY <2>2, <2>6, <2>8
    <2>10. n \in Int /\ d \in Int /\ n > 0 /\ d > 0
      BY <2>2, <2>7, <2>8
    <2>11. show' = [w |-> a, h |-> b, n |-> n, d |-> d]
      BY <2>1, <2>5
    <2> HIDE DEF a, b, n, d
    <2>12. show' \in ShowFormats /\ show'.w = a /\ show'.h = b /\ show'.n = n /\ show'.d = d
      BY <2>9, <2>10, <2>11 DEF ShowFormats
    <2>13. Outputs!Startable(show')
      BY <2>9, <2>10, <2>12 DEF Outputs!Startable
    <2>14. Outputs!Startable(show)'
      BY <2>13 DEF Outputs!Startable, Outputs!Even
    <2> QED BY <1>0, <2>1, <2>12, <2>14 DEF OutputInv
  <1> QED BY <1>1, <1>2, <1>3, <1>4, <1>5 DEF Outputs!Next

\* The types of the settings follow from the invariant.
LEMMA OutputTypes == OutputInv => Outputs!TypeOK
  BY DEF OutputInv, Outputs!TypeOK

\* The show file and its threads, when another part moves.
LEMMA SaveStays == SaveInv /\ UNCHANGED saveVars => SaveInv'
  <1> SUFFICES ASSUME SaveInv, UNCHANGED saveVars PROVE SaveInv'
    OBVIOUS
  <1>1. /\ stage' = stage /\ live' = live /\ posted' = posted /\ pending' = pending
        /\ dirty' = dirty /\ everSaved' = everSaved /\ lastSaved' = lastSaved /\ at' = at
        /\ got' = got /\ fd' = fd /\ disk' = disk /\ tmp' = tmp /\ rested' = rested
        /\ edits' = edits /\ faults' = faults
    BY DEF saveVars
  <1>2. SaveShape'
    BY <1>1 DEF SaveInv, SaveShape
  <1>3. ReadSoFar'
    BY <1>1 DEF SaveInv, ReadSoFar, HasRead
  <1>4. OneSaves'
    BY <1>1 DEF SaveInv, OneSaves
  <1>5. SavedInv'
    <2>1. \A t : Save!State(t)' = Save!State(t)
      BY <1>1 DEF Save!State
    <2> QED BY <1>1, <2>1 DEF SaveInv, SavedInv
  <1>6. LastInv'
    BY <1>1 DEF SaveInv, LastInv, HasRead, Save!Current, Save!ExitKeepsEdits
  <1> QED BY <1>2, <1>3, <1>4, <1>5, <1>6 DEF SaveInv

\* The ports, when another part moves.
LEMMA PortStays == PortInv /\ UNCHANGED portVars => PortInv'
  <1> SUFFICES ASSUME PortInv, UNCHANGED portVars PROVE PortInv'
    OBVIOUS
  <1>1. /\ web' = web /\ limits' = limits /\ engine' = engine /\ last' = last /\ moves' = moves
        /\ list' = list /\ conn' = conn /\ applied' = applied /\ phase' = phase /\ todo' = todo
        /\ ready' = ready /\ push' = push /\ peer' = peer /\ wire' = wire /\ sends' = sends
        /\ inbox' = inbox /\ reading' = reading /\ seenState' = seenState
    BY DEF portVars
  <1>2. PortShape' /\ Accepted' /\ Port!CommandsInOrder'
    BY <1>1 DEF PortInv, PortShape, Accepted, Port!CommandsInOrder
  <1>3. ASSUME NEW c \in Clients, peer'[c] # "gone" /\ ~conn'[c].doomed PROVE Chain(c)'
    BY <1>1, <1>3, ChainKept DEF PortInv
  <1> QED BY <1>2, <1>3 DEF PortInv

\* The multiview, when another part moves.
LEMMA BrowserStays == BrowserInv /\ UNCHANGED browserVars => BrowserInv'
  <1> SUFFICES ASSUME BrowserInv, UNCHANGED browserVars PROVE BrowserInv'
    OBVIOUS
  <1>1. /\ value' = value /\ stamp' = stamp /\ submitted' = submitted /\ whole' = whole
        /\ step' = step /\ done' = done /\ drawing' = drawing /\ pixels' = pixels /\ enc' = enc
        /\ seq' = seq /\ frame' = frame /\ frameSeq' = frameSeq /\ failed' = failed /\ hand' = hand
        /\ clientSeq' = clientSeq /\ watching' = watching /\ shown' = shown /\ events' = events
    BY DEF browserVars
  <1>2. BrowserShape'
    BY <1>1 DEF BrowserInv, BrowserShape
  <1>3. TicksInv'
    BY <1>1 DEF BrowserInv, TicksInv
  <1>4. PixelsInv'
    BY <1>1 DEF BrowserInv, PixelsInv, Topped
  <1>5. CopyInv' /\ ShownInv'
    BY <1>1 DEF BrowserInv, CopyInv, ShownInv
  <1> QED BY <1>2, <1>3, <1>4, <1>5 DEF BrowserInv

\* The input, when another part moves.
LEMMA PatchStays == PatchInv /\ UNCHANGED patchVars => PatchInv'
  <1> SUFFICES ASSUME PatchInv, UNCHANGED patchVars PROVE PatchInv'
    OBVIOUS
  <1>1. /\ spec' = spec /\ playing' = playing /\ queued' = queued /\ swapping' = swapping
        /\ req' = req /\ asked' = asked /\ calm' = calm /\ asks' = asks
    BY DEF patchVars
  <1>2. PatchShape'
    BY <1>1 DEF PatchInv, PatchShape
  <1>3. CalmSoFar'
    BY <1>1 DEF PatchInv, CalmSoFar, ReplaceSoFar, PlaylistSoFar, SyncSoFar, Patch!SourceOf, Patch!Normal
  <1>4. Patch!CalmRequestsKeepSource'
    BY <1>1 DEF PatchInv, Patch!CalmRequestsKeepSource, Patch!Newest, Patch!SourceOf
  <1> QED BY <1>2, <1>3, <1>4 DEF PatchInv

\* The settings, when another part moves.
LEMMA OutputStays == OutputInv /\ UNCHANGED outputVars => OutputInv'
  <1> SUFFICES ASSUME OutputInv, UNCHANGED outputVars PROVE OutputInv'
    OBVIOUS
  <1>1. /\ stored' = stored /\ send' = send /\ show' = show /\ settings' = settings
    BY DEF outputVars
  <1> QED BY <1>1 DEF OutputInv, Outputs!Startable

---------------------------------------------------------------------------
(* All of them                                                             *)

\* The parts share no variable: the invariants of those that stay hold as well.
SideInv ==
  /\ part \in Parts \cup {"done"}
  /\ SaveInv /\ PortInv /\ BrowserInv /\ PatchInv /\ OutputInv

\* Every part keeps its invariant, whichever moves.
THEOREM SideInvHolds == SideSpec => []SideInv
  <1> USE SideAssumption
  <1>1. SideInit => SideInv
    BY SaveInit, PortInit, BrowserInit, PatchInit, OutputInit DEF SideInit, SideInv
  <1>2. SideInv /\ [SideNext]_sideVars => SideInv'
    <2> SUFFICES ASSUME SideInv, [SideNext]_sideVars PROVE SideInv'
      OBVIOUS
    <2>0. part \in Parts \cup {"done"} /\ SaveInv /\ PortInv /\ BrowserInv /\ PatchInv /\ OutputInv
      BY DEF SideInv
    <2>1. CASE /\ Save!Next /\ UNCHANGED <<part, portVars, browserVars, patchVars, outputVars>>
      BY <2>0, <2>1, SaveStep, PortStays, BrowserStays, PatchStays, OutputStays DEF SideInv
    <2>2. CASE /\ Port!Next /\ UNCHANGED <<part, saveVars, browserVars, patchVars, outputVars>>
      BY <2>0, <2>2, SaveStays, PortStep, BrowserStays, PatchStays, OutputStays DEF SideInv
    <2>3. CASE /\ Browser!Next /\ UNCHANGED <<part, saveVars, portVars, patchVars, outputVars>>
      BY <2>0, <2>3, SaveStays, PortStays, BrowserStep, PatchStays, OutputStays DEF SideInv
    <2>4. CASE /\ Patch!Next /\ UNCHANGED <<part, saveVars, portVars, browserVars, outputVars>>
      BY <2>0, <2>4, SaveStays, PortStays, BrowserStays, PatchStep, OutputStays DEF SideInv
    <2>5. CASE /\ Outputs!Next /\ UNCHANGED <<part, saveVars, portVars, browserVars, patchVars>>
      BY <2>0, <2>5, SaveStays, PortStays, BrowserStays, PatchStays, OutputStep DEF SideInv
    <2>6. CASE /\ TextsDone
               /\ UNCHANGED <<saveVars, portVars, browserVars, patchVars, outputVars>>
      BY <2>0, <2>6, SaveStays, PortStays, BrowserStays, PatchStays, OutputStays
      DEF SideInv, TextsDone
    <2>7. CASE UNCHANGED sideVars
      <3>1. UNCHANGED <<part, saveVars, portVars, browserVars, patchVars, outputVars>>
        BY <2>7 DEF sideVars
      <3> QED BY <2>0, <3>1, SaveStays, PortStays, BrowserStays, PatchStays, OutputStays DEF SideInv
    <2> QED BY <2>1, <2>2, <2>3, <2>4, <2>5, <2>6, <2>7 DEF SideNext
  <1> QED BY <1>1, <1>2, PTL DEF SideSpec

\* At every moment the show file can be read as a whole show, and an orderly exit leaves
\* in it what the engine ran (Session, ShowFile, IniFile::save).
THEOREM ShowFileIsSafe == SideSpec => []ShowFileSafe
  <1>1. SideInv => ShowFileSafe
    BY SideAssumption, SaveWhole DEF SideInv, ShowFileSafe
  <1> QED BY <1>1, SideInvHolds, PTL

\* The commands of a connection are applied in the order they were sent, each once and
\* none skipped (ControlServer::run, WebServer::run).
THEOREM CommandsKeepOrder == SideSpec => []CommandsInOrder
  <1>1. SideInv => CommandsInOrder
    BY DEF SideInv, PortInv, CommandsInOrder
  <1> QED BY <1>1, SideInvHolds, PTL

\* A request about an input, with no other on its way, brings or keeps the source that was
\* asked for (WebServer::handleWsJson, Engine::replaceInput).
THEOREM CalmRequestsBringTheSource == SideSpec => []CalmRequestsKeepSource
  <1>1. SideInv => CalmRequestsKeepSource
    BY DEF SideInv, PatchInv, CalmRequestsKeepSource
  <1> QED BY <1>1, SideInvHolds, PTL

\* Every part keeps the types of its variables; the show format stored for the next start
\* is one the engine accepts.
THEOREM SideTypesHold == SideSpec => []SideTypes
  <1>1. SideInv => SideTypes
    <2> SUFFICES ASSUME SideInv PROVE SideTypes
      OBVIOUS
    <2>1. Save!TypeOK /\ Port!TypeOK /\ Browser!TypeOK /\ Patch!TypeOK /\ Outputs!TypeOK
      BY SideAssumption, SaveTypes, PortTypes, BrowserTypes, PatchTypesKept, OutputTypes DEF SideInv
    <2>2. part \in Parts \cup {"done"}
      BY DEF SideInv
    <2> QED BY <2>1, <2>2 DEF SideTypes, Parts
  <1> QED BY <1>1, SideInvHolds, PTL

\* No browser is given a picture put together from two ticks, nor one older than the one
\* it shows (Engine::copyMultiview, WebServer::encodeLoop).
THEOREM NoBrowserIsGivenATornPicture == SideSpec => MultiviewIntact
  <1>1. SideInv =>
          [Browser!Give(FALSE) =>
             shown'.top = shown'.bottom /\ (watching => shown'.top >= shown.top)]_(Browser!vars)
    BY GivenIntact DEF SideInv
  <1>2. SideSpec => [][Browser!Give(FALSE) =>
             shown'.top = shown'.bottom /\ (watching => shown'.top >= shown.top)]_(Browser!vars)
    BY <1>1, SideInvHolds, PTL
  <1> QED BY <1>2 DEF MultiviewIntact, Browser!MultiviewIntact
=============================================================================
