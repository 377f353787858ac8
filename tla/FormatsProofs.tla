--------------------------- MODULE FormatsProofs ---------------------------
(***************************************************************************)
(* Proofs about Formats, for any limits, widths and inputs.                *)
(*                                                                         *)
(* The conversions go through a text character by character, as recursive  *)
(* functions of the number of characters read; what they do is proved by   *)
(* induction on the text.                                                  *)
(***************************************************************************)
EXTENDS Formats, WireProofs

-----------------------------------------------------------------------------
(* Induction over texts, and recursion over them. *)

(* A sequence that is not empty is another one and a last element. *)
LEMMA FrontAndLast ==
  ASSUME NEW S, NEW s \in Seq(S), NEW n \in Nat, Len(s) = n + 1
  PROVE  \E t \in Seq(S) : \E x \in S : Len(t) = n /\ s = Append(t, x)
<1> DEFINE t == SubSeq(s, 1, n)
           x == s[n + 1]
<1>1. n <= Len(s) /\ 1 \in Nat /\ 1 <= 1 /\ 1 <= n + 1 /\ n + 1 \in 1..Len(s)
  OBVIOUS
<1>2. t \in Seq(S) /\ IsPart(t, s, 1, n)
  BY <1>1, SubSeqPart
<1>3. x \in S
  BY <1>1
<1> HIDE DEF t
<1>4. n - 1 + 1 = n /\ \A i \in 1..n : 1 + i - 1 = i
  OBVIOUS
<1>5. Len(t) = n /\ \A i \in 1..n : t[i] = s[i]
  BY <1>2, <1>4 DEF IsPart
<1> HIDE DEF x
<1>6. /\ Append(t, x) \in Seq(S) /\ Len(Append(t, x)) = Len(t) + 1
      /\ \A i \in 1..Len(t) : Append(t, x)[i] = t[i]
      /\ Append(t, x)[Len(t) + 1] = x
  BY <1>2, <1>3, AppendProperties
<1> DEFINE u == Append(t, x)
<1> HIDE DEF u
<1>7. u \in Seq(S) /\ Len(u) = Len(s)
  BY <1>5, <1>6 DEF u
<1>8. ASSUME NEW i \in 1..Len(s) PROVE s[i] = u[i]
  <2>1. i \in 1..n \/ i = n + 1
    OBVIOUS
  <2> QED BY <1>5, <1>6, <2>1 DEF u, x
<1>9. s = u
  BY <1>7, <1>8, SeqEqual
<1> QED BY <1>2, <1>3, <1>5, <1>9 DEF u

(* A pair is its parts, one after the other. *)
LEMMA PairAppended ==
  ASSUME NEW S, NEW a \in S, NEW b \in S
  PROVE  Append(<<a>>, b) = <<a, b>>
<1> DEFINE s == Append(<<a>>, b)
           t == <<a, b>>
<1>1. <<a>> \in Seq(S) /\ Len(<<a>>) = 1 /\ <<a>>[1] = a
  OBVIOUS
<1>2. /\ s \in Seq(S) /\ Len(s) = 1 + 1 /\ s[1] = a /\ s[1 + 1] = b
  BY <1>1, AppendProperties
<1>3. t \in Seq(S) /\ Len(t) = 2 /\ t[1] = a /\ t[2] = b
  OBVIOUS
<1> HIDE DEF s, t
<1>4. Len(s) = Len(t) /\ \A i \in 1..Len(s) : s[i] = t[i]
  <2>1. \A i \in 1..2 : i = 1 \/ i = 2
    OBVIOUS
  <2> QED BY <1>2, <1>3, <2>1
<1>5. s = t
  BY <1>2, <1>3, <1>4, SeqEqual
<1> QED BY <1>5 DEF s, t

(* A triple is a pair and its last part. *)
LEMMA TripleAppended ==
  ASSUME NEW S, NEW a \in S, NEW b \in S, NEW c \in S
  PROVE  Append(<<a, b>>, c) = <<a, b, c>>
<1> DEFINE s == Append(<<a, b>>, c)
           t == <<a, b, c>>
<1>1. <<a, b>> \in Seq(S) /\ Len(<<a, b>>) = 2 /\ <<a, b>>[1] = a /\ <<a, b>>[2] = b
  OBVIOUS
<1>2. s \in Seq(S) /\ Len(s) = 2 + 1 /\ s[1] = a /\ s[2] = b /\ s[2 + 1] = c
  BY <1>1, AppendProperties
<1>3. t \in Seq(S) /\ Len(t) = 3 /\ t[1] = a /\ t[2] = b /\ t[3] = c
  OBVIOUS
<1> HIDE DEF s, t
<1>4. Len(s) = Len(t) /\ \A i \in 1..Len(s) : s[i] = t[i]
  <2>1. (\A i \in 1..3 : i = 1 \/ i = 2 \/ i = 3) /\ 2 + 1 = 3
    OBVIOUS
  <2> QED BY <1>2, <1>3, <2>1
<1>5. s = t
  BY <1>2, <1>3, <1>4, SeqEqual
<1> QED BY <1>5 DEF s, t

(* Two parts put after a text are put there one after the other. *)
LEMMA PairAtEnd ==
  ASSUME NEW S, NEW e \in Seq(S), NEW a \in S, NEW b \in S
  PROVE  e \o <<a, b>> = Append(Append(e, a), b)
<1>1. <<a>> \in Seq(S) /\ <<b>> \in Seq(S)
  OBVIOUS
<1>2. (e \o <<a>>) \o <<b>> = e \o (<<a>> \o <<b>>)
  BY <1>1, ConcatAssociative
<1>3. Append(e, a) \in Seq(S) /\ Append(e, a) = e \o <<a>>
  BY AppendIsConcat, AppendProperties
<1>4. Append(Append(e, a), b) = Append(e, a) \o <<b>>
  BY <1>3, AppendIsConcat
<1>5. <<a>> \o <<b>> = <<a, b>>
  <2>1. <<a>> \o <<b>> = Append(<<a>>, b)
    BY <1>1, AppendIsConcat
  <2> QED BY <2>1, PairAppended
<1> QED BY <1>2, <1>3, <1>4, <1>5

(* And so are three. *)
LEMMA TripleAtEnd ==
  ASSUME NEW S, NEW e \in Seq(S), NEW a \in S, NEW b \in S, NEW c \in S
  PROVE  e \o <<a, b, c>> = Append(Append(Append(e, a), b), c)
<1> DEFINE m == <<a, b>>
           u == Append(Append(e, a), b)
<1>1. m \in Seq(S) /\ <<c>> \in Seq(S)
  OBVIOUS
<1>2. e \o m = u
  BY PairAtEnd
<1>3. u \in Seq(S)
  BY AppendProperties
<1>4. m \o <<c>> = <<a, b, c>>
  <2>1. m \o <<c>> = Append(m, c)
    BY <1>1, AppendIsConcat
  <2> QED BY <2>1, TripleAppended
<1> HIDE DEF m, u
<1>5. (e \o m) \o <<c>> = e \o (m \o <<c>>)
  BY <1>1, ConcatAssociative
<1>6. Append(u, c) = u \o <<c>>
  BY <1>3, AppendIsConcat
<1> QED BY <1>2, <1>4, <1>5, <1>6 DEF u

(* What holds of the empty sequence and stays true when one element is     *)
(* appended holds of all.                                                  *)
LEMMA SeqInduction ==
  ASSUME NEW S, NEW T, <<>> \in T,
         \A s \in Seq(S) : s \in T => \A x \in S : Append(s, x) \in T
  PROVE  \A s \in Seq(S) : s \in T
<1> DEFINE N == {n \in Nat : \A s \in Seq(S) : Len(s) = n => s \in T}
<1>1. 0 \in N
  <2> SUFFICES ASSUME NEW s \in Seq(S), Len(s) = 0 PROVE s \in T
    OBVIOUS
  <2>1. s = <<>>
    BY EmptySeq
  <2> QED BY <2>1
<1>2. ASSUME NEW n \in Nat, n \in N PROVE n + 1 \in N
  <2> SUFFICES ASSUME NEW s \in Seq(S), Len(s) = n + 1 PROVE s \in T
    OBVIOUS
  <2>1. PICK t \in Seq(S) : \E x \in S : Len(t) = n /\ s = Append(t, x)
    BY FrontAndLast
  <2>2. t \in T
    BY <1>2, <2>1
  <2> QED BY <2>1, <2>2
<1> HIDE DEF N
<1>3. \A n \in Nat : n \in N
  BY <1>1, <1>2, Induction
<1> SUFFICES ASSUME NEW s \in Seq(S) PROVE s \in T
  OBVIOUS
<1>4. Len(s) \in N
  BY <1>3, LenProperties
<1> QED BY <1>4 DEF N

(* The values a recursion over s goes through: it starts with c, and h     *)
(* says what an element makes of a value.                                  *)
Steps(g, c, h, s) == g[0] = c /\ \A i \in 1..Len(s) : g[i] = h[s[i]][g[i - 1]]

Folded(V, c, h, s) == (CHOOSE g \in [0..Len(s) -> V] : Steps(g, c, h, s))[Len(s)]

(* There are such values. *)
LEMMA StepsExist ==
  ASSUME NEW S, NEW V, NEW c \in V, NEW h \in [S -> [V -> V]], NEW s \in Seq(S)
  PROVE  \E g \in [0..Len(s) -> V] : Steps(g, c, h, s)
<1> DEFINE n == Len(s)
           k == [i \in Nat |-> IF i \in 1..n THEN h[s[i]] ELSE [v \in V |-> v]]
<1>1. n \in Nat /\ \A i \in 1..n : s[i] \in S
  BY LenProperties
<1>2. k \in [Nat -> [V -> V]]
  BY <1>1
<1>3. \A i \in 1..n : k[i] = h[s[i]]
  BY <1>1
<1> HIDE DEF k, n
<1>4. PICK g \in [0..n -> V] : Iterates(g, c, k, n)
  BY <1>1, <1>2, Recursion
<1>5. Steps(g, c, h, s)
  BY <1>3, <1>4 DEF Iterates, Steps, n
<1> QED BY <1>5 DEF n

Alike(f, g, n) == f[0] = g[0] /\ \A i \in 1..n : f[i - 1] = g[i - 1] => f[i] = g[i]

(* Two recursions that start alike and go on alike are alike. *)
LEMMA SameSteps ==
  ASSUME NEW f, NEW g, NEW n \in Nat, Alike(f, g, n)
  PROVE  \A i \in 0..n : f[i] = g[i]
<1>0. f[0] = g[0] /\ \A i \in 1..n : f[i - 1] = g[i - 1] => f[i] = g[i]
  BY DEF Alike
<1> DEFINE T == {i \in Nat : i <= n => f[i] = g[i]}
<1>1. 0 \in T
  BY <1>0
<1>2. ASSUME NEW i \in Nat, i \in T PROVE i + 1 \in T
  <2> SUFFICES ASSUME i + 1 <= n PROVE f[i + 1] = g[i + 1]
    OBVIOUS
  <2>1. i + 1 \in 1..n /\ (i + 1) - 1 = i /\ f[i] = g[i]
    BY <1>2
  <2> QED BY <1>0, <2>1
<1> HIDE DEF T
<1>3. \A i \in Nat : i \in T
  BY <1>1, <1>2, Induction
<1> QED BY <1>3 DEF T

(* The values of a recursion over a sequence are determined. *)
LEMMA FoldedIs ==
  ASSUME NEW S, NEW V, NEW c \in V, NEW h \in [S -> [V -> V]], NEW s \in Seq(S),
         NEW g, Steps(g, c, h, s)
  PROVE  Folded(V, c, h, s) = g[Len(s)] /\ Folded(V, c, h, s) \in V
<1> DEFINE f == CHOOSE p \in [0..Len(s) -> V] : Steps(p, c, h, s)
<1>1. f \in [0..Len(s) -> V] /\ Steps(f, c, h, s)
  BY StepsExist
<1>2. Folded(V, c, h, s) = f[Len(s)]
  BY DEF Folded
<1> HIDE DEF f
<1> DEFINE n == Len(s)
<1>3. n \in Nat /\ n \in 0..n
  BY LenProperties
<1>4. Alike(f, g, n)
  BY <1>1 DEF Steps, Alike
<1> HIDE DEF n
<1>5. \A i \in 0..n : f[i] = g[i]
  BY <1>3, <1>4, SameSteps
<1> QED BY <1>1, <1>2, <1>3, <1>5 DEF n

(* Over the empty sequence it is where it starts. *)
LEMMA FoldedEmpty ==
  ASSUME NEW V, NEW c \in V, NEW h
  PROVE  Folded(V, c, h, <<>>) = c
<1> DEFINE g == [i \in 0..0 |-> c]
           P == {p \in [0..0 -> V] : Steps(p, c, h, <<>>)}
<1>1. Len(<<>>) = 0
  OBVIOUS
<1>2. g \in [0..0 -> V] /\ Steps(g, c, h, <<>>)
  BY <1>1 DEF Steps
<1> HIDE DEF g
<1>3. PICK p : p = CHOOSE q \in [0..Len(<<>>) -> V] : Steps(q, c, h, <<>>)
  OBVIOUS
<1>4. Steps(p, c, h, <<>>)
  BY <1>1, <1>2, <1>3
<1>5. Folded(V, c, h, <<>>) = p[0]
  BY <1>1, <1>3 DEF Folded
<1> QED BY <1>4, <1>5 DEF Steps

(* One element more is one step more. *)
LEMMA FoldedAppend ==
  ASSUME NEW S, NEW V, NEW c \in V, NEW h \in [S -> [V -> V]], NEW s \in Seq(S), NEW x \in S
  PROVE  Folded(V, c, h, Append(s, x)) = h[x][Folded(V, c, h, s)]
<1> DEFINE t == Append(s, x)
           n == Len(s)
<1>1. /\ t \in Seq(S) /\ Len(t) = n + 1 /\ n \in Nat
      /\ \A i \in 1..n : t[i] = s[i]
      /\ t[n + 1] = x
  BY AppendProperties, LenProperties
<1> HIDE DEF t
<1>2. PICK g \in [0..Len(t) -> V] : Steps(g, c, h, t)
  BY <1>1, StepsExist
<1>3. Steps(g, c, h, s)
  <2>1. \A i \in 1..n : i \in 1..Len(t)
    BY <1>1
  <2> QED BY <1>1, <1>2, <2>1 DEF Steps
<1>4. Folded(V, c, h, s) = g[n]
  BY <1>3, FoldedIs
<1>5. Folded(V, c, h, t) = g[n + 1]
  BY <1>1, <1>2, FoldedIs
<1>6. g[n + 1] = h[x][g[n]]
  <2>1. n + 1 \in 1..Len(t) /\ (n + 1) - 1 = n
    BY <1>1
  <2> QED BY <1>1, <1>2, <2>1 DEF Steps
<1> QED BY <1>4, <1>5, <1>6 DEF t

-----------------------------------------------------------------------------
(* The limits and widths. *)
LEMMA LimitsAre ==
  /\ MaxNameBytes \in Nat /\ ToastChars \in Nat
  /\ SasBits \in Nat \ {0} /\ SasSpare \in Nat
BY FormatsAssumption

-----------------------------------------------------------------------------
(* Toasts. *)

(* The characters of a text and those its escaped form adds. *)
Chars == STRING \cup Special \cup {"amp;", "lt;", "gt;", "quot;", "apos;", " ", "..."}

(* What escaping makes of a character. *)
LEMMA EscapedType ==
  ASSUME NEW c \in Chars
  PROVE  Escaped(c) \in Seq(Chars)
<1>1. c \in Special => EntityOf(c) \in Chars
  BY DEF Special, EntityOf, Chars
<1>2. "&" \in Chars
  BY DEF Chars, Special
<1>3. CASE c \in Special
  <2> DEFINE e == EntityOf(c)
  <2>1. e \in Chars
    BY <1>1, <1>3
  <2> HIDE DEF e
  <2>2. <<"&", e>> \in Seq(Chars)
    BY <1>2, <2>1
  <2> QED BY <1>3, <2>2 DEF Escaped, e
<1>4. CASE c \notin Special
  BY <1>4 DEF Escaped
<1> QED BY <1>3, <1>4

EscapeStep == [c \in Chars |-> [v \in Seq(Chars) |-> v \o Escaped(c)]]

(* XmlEscape escapes one character after the other. *)
LEMMA EscapeFolds ==
  ASSUME NEW s \in Seq(Chars)
  PROVE  XmlEscape(s) = Folded(Seq(Chars), <<>>, EscapeStep, s)
<1> DEFINE V == Seq(Chars)
           h == EscapeStep
           n == Len(s)
<1>1. h \in [Chars -> [V -> V]]
  <2> SUFFICES ASSUME NEW c \in Chars, NEW v \in V PROVE v \o Escaped(c) \in V
    BY DEF EscapeStep
  <2> QED BY EscapedType, ConcatParts
<1>2. <<>> \in V /\ n \in Nat /\ \A i \in 1..n : s[i] \in Chars
  BY EmptySeq, LenProperties
<1> HIDE DEF V, h
<1>3. PICK g \in [0..n -> V] : Steps(g, <<>>, h, s)
  BY <1>1, <1>2, StepsExist
<1>4. ASSUME NEW i \in 1..n PROVE g[i] = g[i - 1] \o Escaped(s[i])
  <2>1. g[i - 1] \in V /\ s[i] \in Chars
    BY <1>2
  <2>2. h[s[i]][g[i - 1]] = g[i - 1] \o Escaped(s[i])
    BY <2>1 DEF h, V, EscapeStep
  <2> QED BY <1>3, <2>2 DEF Steps
<1>5. g[0] = <<>>
  BY <1>3 DEF Steps
<1>6. g = [i \in 0..n |-> IF i = 0 THEN <<>> ELSE g[i - 1] \o Escaped(s[i])]
  BY <1>2, <1>4, <1>5
<1> DEFINE f == CHOOSE out : out = [i \in 0..n |-> IF i = 0 THEN <<>> ELSE out[i - 1] \o Escaped(s[i])]
<1>7. f = [i \in 0..n |-> IF i = 0 THEN <<>> ELSE f[i - 1] \o Escaped(s[i])]
  BY <1>6
<1>8. XmlEscape(s) = f[n]
  BY DEF XmlEscape
<1> HIDE DEF f
<1>9. Alike(f, g, n)
  BY <1>2, <1>4, <1>5, <1>7 DEF Alike
<1>10. f[n] = g[n]
  <2> HIDE DEF n
  <2> QED BY <1>2, <1>9, SameSteps
<1>11. Folded(V, <<>>, h, s) = g[n]
  BY <1>1, <1>2, <1>3, FoldedIs
<1> QED BY <1>8, <1>10, <1>11 DEF V, h

(* What XmlEscape makes of a text and of one character more. *)
LEMMA EscapeGrows ==
  /\ XmlEscape(<<>>) = <<>>
  /\ \A s \in Seq(Chars) : XmlEscape(s) \in Seq(Chars)
  /\ \A s \in Seq(Chars), x \in Chars :
       XmlEscape(Append(s, x)) = XmlEscape(s) \o Escaped(x)
<1> DEFINE V == Seq(Chars)
           h == EscapeStep
<1>1. h \in [Chars -> [V -> V]]
  <2> SUFFICES ASSUME NEW c \in Chars, NEW v \in V PROVE v \o Escaped(c) \in V
    BY DEF EscapeStep
  <2> QED BY EscapedType, ConcatParts
<1>2. <<>> \in V /\ <<>> \in Seq(Chars)
  BY EmptySeq
<1> HIDE DEF V, h
<1>3. \A s \in Seq(Chars) : XmlEscape(s) = Folded(V, <<>>, h, s)
  BY EscapeFolds DEF V, h
<1>4. XmlEscape(<<>>) = <<>>
  BY <1>2, <1>3, FoldedEmpty
<1>5. ASSUME NEW s \in Seq(Chars) PROVE XmlEscape(s) \in V
  <2>1. PICK g \in [0..Len(s) -> V] : Steps(g, <<>>, h, s)
    BY <1>1, <1>2, StepsExist
  <2> QED BY <1>1, <1>2, <1>3, <2>1, FoldedIs
<1>6. ASSUME NEW s \in Seq(Chars), NEW x \in Chars
      PROVE  XmlEscape(Append(s, x)) = XmlEscape(s) \o Escaped(x)
  <2>1. Append(s, x) \in Seq(Chars)
    BY AppendProperties
  <2>2. XmlEscape(Append(s, x)) = h[x][XmlEscape(s)]
    <3>1. Folded(V, <<>>, h, Append(s, x)) = h[x][Folded(V, <<>>, h, s)]
      BY <1>1, <1>2, FoldedAppend
    <3> QED BY <1>3, <2>1, <3>1
  <2> QED BY <1>5, <2>2 DEF h, V, EscapeStep
<1> QED BY <1>4, <1>5, <1>6 DEF V

(* The states of a reader. *)
Readings == [at : {"text", "entity", "error"}, val : Seq(Chars)]

Start == [at |-> "text", val |-> <<>>]

(* What a character makes of a state. *)
LEMMA ReadCharType ==
  ASSUME NEW r \in Readings, NEW c \in Chars
  PROVE  ReadChar(r, c) \in Readings
<1> DEFINE d == CHOOSE x \in NamedBy(c) : TRUE
<1>1. NamedBy(c) # {} => d \in Chars
  BY DEF NamedBy, Chars
<1> HIDE DEF d
<1>2. r.val \in Seq(Chars) /\ r.at \in {"text", "entity", "error"}
  BY DEF Readings
<1>3. Append(r.val, c) \in Seq(Chars) /\ (NamedBy(c) # {} => Append(r.val, d) \in Seq(Chars))
  BY <1>1, <1>2, AppendProperties
<1> QED BY <1>2, <1>3 DEF ReadChar, Readings, d

ScanStep == [c \in Chars |-> [r \in Readings |-> ReadChar(r, c)]]

(* XmlScan reads one character after the other. *)
LEMMA ScanFolds ==
  ASSUME NEW s \in Seq(Chars)
  PROVE  XmlScan(s) = Folded(Readings, Start, ScanStep, s)
<1> DEFINE V == Readings
           h == ScanStep
           n == Len(s)
<1>1. h \in [Chars -> [V -> V]]
  BY ReadCharType DEF ScanStep
<1>2. Start \in V /\ n \in Nat /\ \A i \in 1..n : s[i] \in Chars
  <2>1. <<>> \in Seq(Chars)
    BY EmptySeq
  <2> QED BY <2>1, LenProperties DEF Start, Readings
<1> HIDE DEF V, h
<1>3. PICK g \in [0..n -> V] : Steps(g, Start, h, s)
  BY <1>1, <1>2, StepsExist
<1>4. ASSUME NEW i \in 1..n PROVE g[i] = ReadChar(g[i - 1], s[i])
  <2>1. g[i - 1] \in V /\ s[i] \in Chars
    BY <1>2
  <2>2. h[s[i]][g[i - 1]] = ReadChar(g[i - 1], s[i])
    BY <2>1 DEF h, V, ScanStep
  <2> QED BY <1>3, <2>2 DEF Steps
<1>5. g[0] = Start
  BY <1>3 DEF Steps
<1>6. g = [i \in 0..n |-> IF i = 0 THEN Start ELSE ReadChar(g[i - 1], s[i])]
  BY <1>2, <1>4, <1>5
<1> DEFINE f == CHOOSE after : after = [i \in 0..n |-> IF i = 0 THEN Start ELSE ReadChar(after[i - 1], s[i])]
<1>7. f = [i \in 0..n |-> IF i = 0 THEN Start ELSE ReadChar(f[i - 1], s[i])]
  BY <1>6
<1>8. XmlScan(s) = f[n]
  BY DEF XmlScan, Start
<1> HIDE DEF f
<1>9. Alike(f, g, n)
  BY <1>2, <1>4, <1>5, <1>7 DEF Alike
<1>10. f[n] = g[n]
  <2> HIDE DEF n
  <2> QED BY <1>2, <1>9, SameSteps
<1>11. Folded(V, Start, h, s) = g[n]
  BY <1>1, <1>2, <1>3, FoldedIs
<1> QED BY <1>8, <1>10, <1>11 DEF V, h

(* What XmlScan makes of a text and of one character more. *)
LEMMA ScanGrows ==
  /\ XmlScan(<<>>) = Start
  /\ \A s \in Seq(Chars), x \in Chars : XmlScan(Append(s, x)) = ReadChar(XmlScan(s), x)
<1> DEFINE V == Readings
           h == ScanStep
<1>1. h \in [Chars -> [V -> V]]
  BY ReadCharType DEF ScanStep
<1>2. Start \in V /\ <<>> \in Seq(Chars)
  BY EmptySeq DEF Start, Readings
<1> HIDE DEF V, h
<1>3. \A s \in Seq(Chars) : XmlScan(s) = Folded(V, Start, h, s)
  BY ScanFolds DEF V, h
<1>4. XmlScan(<<>>) = Start
  BY <1>2, <1>3, FoldedEmpty
<1>5. ASSUME NEW s \in Seq(Chars) PROVE XmlScan(s) \in V
  <2>1. PICK g \in [0..Len(s) -> V] : Steps(g, Start, h, s)
    BY <1>1, <1>2, StepsExist
  <2> QED BY <1>1, <1>2, <1>3, <2>1, FoldedIs
<1>6. ASSUME NEW s \in Seq(Chars), NEW x \in Chars
      PROVE  XmlScan(Append(s, x)) = ReadChar(XmlScan(s), x)
  <2>1. Append(s, x) \in Seq(Chars)
    BY AppendProperties
  <2>2. XmlScan(Append(s, x)) = h[x][XmlScan(s)]
    <3>1. Folded(V, Start, h, Append(s, x)) = h[x][Folded(V, Start, h, s)]
      BY <1>1, <1>2, FoldedAppend
    <3> QED BY <1>3, <2>1, <3>1
  <2> QED BY <1>5, <2>2 DEF h, V, ScanStep
<1> QED BY <1>4, <1>6

(* Reading the escaped form of a character is one step for most and two    *)
(* for those that become an entity.                                        *)
LEMMA EscapedRead ==
  ASSUME NEW e \in Seq(Chars), NEW x \in Chars
  PROVE  /\ x \notin Special => XmlScan(e \o Escaped(x)) = ReadChar(XmlScan(e), x)
         /\ x \in Special =>
              XmlScan(e \o Escaped(x)) = ReadChar(ReadChar(XmlScan(e), "&"), EntityOf(x))
<1>1. CASE x \notin Special
  <2>1. e \o Escaped(x) = Append(e, x)
    BY <1>1, AppendIsConcat DEF Escaped
  <2> QED BY <1>1, <2>1, ScanGrows
<1>2. CASE x \in Special
  <2> DEFINE n == EntityOf(x)
             a == Append(e, "&")
  <2>1. n \in Chars /\ "&" \in Chars
    BY <1>2 DEF EntityOf, Special, Chars
  <2> HIDE DEF n
  <2>2. a \in Seq(Chars)
    BY <2>1, AppendProperties
  <2>3. e \o Escaped(x) = Append(a, n)
    <3>1. Escaped(x) = <<"&", n>>
      BY <1>2 DEF Escaped, n
    <3> QED BY <2>1, <3>1, PairAtEnd
  <2>4. XmlScan(a) = ReadChar(XmlScan(e), "&")
    BY <2>1, ScanGrows
  <2> HIDE DEF a
  <2>5. XmlScan(Append(a, n)) = ReadChar(XmlScan(a), n)
    BY <2>1, <2>2, ScanGrows
  <2> QED BY <1>2, <2>3, <2>4, <2>5 DEF n
<1> QED BY <1>1, <1>2

(* Whether XML has a place for every character of a text. *)
AllXml(s) == \A i \in 1..Len(s) : s[i] \notin NoXml

(* It has for one character more when it has for that one. *)
LEMMA AllXmlGrows ==
  ASSUME NEW s \in Seq(Chars), NEW x \in Chars
  PROVE  AllXml(Append(s, x)) <=> AllXml(s) /\ x \notin NoXml
<1> DEFINE t == Append(s, x)
           n == Len(s)
<1>1. n \in Nat /\ Len(t) = n + 1 /\ t[n + 1] = x /\ \A i \in 1..n : t[i] = s[i]
  BY AppendProperties, LenProperties
<1> HIDE DEF t, n
<1>2. \A i : i \in 1..(n + 1) <=> i \in 1..n \/ i = n + 1
  BY <1>1
<1>3. AllXml(t) <=> \A i \in 1..(n + 1) : t[i] \notin NoXml
  BY <1>1 DEF AllXml
<1>4. AllXml(s) <=> \A i \in 1..n : t[i] \notin NoXml
  BY <1>1 DEF AllXml, n
<1> QED BY <1>1, <1>2, <1>3, <1>4 DEF t

(* A reader gets back what was escaped, or fails on a character for which  *)
(* XML has no place: escaping leaves it as it is.                          *)
LEMMA XmlRoundTrip ==
  ASSUME NEW s \in Seq(Chars)
  PROVE  XmlRead(XmlEscape(s)) = IF AllXml(s) THEN Ok(s) ELSE Failed
<1> DEFINE T == {t \in Seq(Chars) :
                   /\ AllXml(t) => XmlScan(XmlEscape(t)) = [at |-> "text", val |-> t]
                   /\ ~AllXml(t) => XmlScan(XmlEscape(t)).at = "error"}
<1>1. <<>> \in T
  <2>1. AllXml(<<>>)
    BY DEF AllXml
  <2> QED BY <2>1, EscapeGrows, ScanGrows, EmptySeq DEF Start
<1>2. ASSUME NEW t \in Seq(Chars), t \in T, NEW x \in Chars PROVE Append(t, x) \in T
  <2> DEFINE e == XmlEscape(t)
             u == Append(t, x)
             r == XmlScan(e \o Escaped(x))
  <2>1. e \in Seq(Chars) /\ XmlEscape(u) = e \o Escaped(x) /\ u \in Seq(Chars)
    BY EscapeGrows, AppendProperties
  <2>2. /\ AllXml(t) => XmlScan(e) = [at |-> "text", val |-> t]
        /\ ~AllXml(t) => XmlScan(e).at = "error"
    BY <1>2
  <2>3. AllXml(u) <=> AllXml(t) /\ x \notin NoXml
    BY AllXmlGrows
  <2>4. x \in NoXml => x \notin Special
    BY FormatsAssumption
  <2> HIDE DEF e
  <2>5. /\ x \notin Special => r = ReadChar(XmlScan(e), x)
        /\ x \in Special => r = ReadChar(ReadChar(XmlScan(e), "&"), EntityOf(x))
    BY <2>1, EscapedRead
  <2> HIDE DEF r
  <2>6. ASSUME AllXml(u) PROVE r = [at |-> "text", val |-> u]
    <3>1. XmlScan(e) = [at |-> "text", val |-> t] /\ x \notin NoXml
      BY <2>2, <2>3, <2>6
    <3>2. CASE x \notin Special
      <4>1. x \notin {"&", "<"} \cup NoXml
        BY <3>1, <3>2 DEF Special
      <4>2. ReadChar([at |-> "text", val |-> t], x) = [at |-> "text", val |-> u]
        BY <4>1 DEF ReadChar
      <4> QED BY <2>5, <3>1, <3>2, <4>2
    <3>3. CASE x \in Special
      <4> DEFINE n == EntityOf(x)
      <4>1. NamedBy(n) = {x}
        BY <3>3 DEF NamedBy, EntityOf, Special
      <4> HIDE DEF n
      <4>2. ReadChar([at |-> "text", val |-> t], "&") = [at |-> "entity", val |-> t]
        BY DEF ReadChar
      <4>3. (CHOOSE d \in NamedBy(n) : TRUE) = x /\ NamedBy(n) # {}
        BY <4>1
      <4>4. ReadChar([at |-> "entity", val |-> t], n) = [at |-> "text", val |-> u]
        BY <4>3 DEF ReadChar
      <4> QED BY <2>5, <3>1, <3>3, <4>2, <4>4 DEF n
    <3> QED BY <3>2, <3>3
  <2>7. ASSUME ~AllXml(u) PROVE r.at = "error"
    <3>1. CASE ~AllXml(t)
      <4>1. XmlScan(e).at = "error"
        BY <2>2, <3>1
      <4>2. \A c : ReadChar(XmlScan(e), c).at = "error"
        BY <4>1 DEF ReadChar
      <4> DEFINE q == ReadChar(XmlScan(e), "&")
      <4>3. q.at = "error"
        BY <4>2
      <4> HIDE DEF q
      <4>4. \A c : ReadChar(q, c).at = "error"
        BY <4>3 DEF ReadChar
      <4> QED BY <2>5, <4>2, <4>4 DEF q
    <3>2. CASE AllXml(t)
      <4>1. XmlScan(e) = [at |-> "text", val |-> t] /\ x \in NoXml /\ x \notin Special
        BY <2>2, <2>3, <2>4, <2>7, <3>2
      <4>2. x # "&"
        BY <4>1 DEF Special
      <4>3. ReadChar([at |-> "text", val |-> t], x).at = "error"
        BY <4>1, <4>2 DEF ReadChar
      <4> QED BY <2>5, <4>1, <4>3
    <3> QED BY <3>1, <3>2
  <2> HIDE DEF u
  <2>8. u \in T
    BY <2>1, <2>6, <2>7 DEF r
  <2> QED BY <2>8 DEF u
<1> HIDE DEF T
<1>3. \A t \in Seq(Chars) : t \in T
  BY <1>1, <1>2, SeqInduction
<1>4. s \in T
  BY <1>3
<1> QED BY <1>4 DEF T, XmlRead

(* The first n characters of a text on one line. *)
LEMMA OneLine ==
  ASSUME NEW s \in Seq(Chars), NEW n \in Nat, n <= Len(s)
  PROVE  LET p == [i \in 1..n |-> Flat(s[i])] IN
         /\ p \in Seq(Chars) /\ Len(p) = n
         /\ \A i \in 1..n : p[i] \notin {"\n", "\r"} /\ p[i] \in {s[i], " "}
<1> DEFINE p == [i \in 1..n |-> Flat(s[i])]
<1>1. \A i \in 1..n : s[i] \in Chars
  BY LenProperties
<1>2. \A c \in Chars : Flat(c) \in Chars /\ Flat(c) \notin {"\n", "\r"} /\ Flat(c) \in {c, " "}
  BY DEF Flat, Chars
<1>3. p \in [1..n -> Chars]
  BY <1>1, <1>2
<1>4. p \in Seq(Chars) /\ Len(p) = n
  BY <1>3
<1> QED BY <1>1, <1>2, <1>4

(* The parts of ToastReadable that are about what is shown. *)
Shows(p, s) ==
  /\ p \in Seq(Chars) /\ Len(p) <= ToastChars + 1
  /\ \A i \in 1..Len(p) : /\ p[i] \notin {"\n", "\r"}
                          /\ i <= ToastChars => p[i] \in {s[i], " "}
  /\ Len(s) <= ToastChars => Len(p) = Len(s)

(* What toast_preview makes of a text. *)
LEMMA PreviewShows ==
  ASSUME NEW s \in Seq(Chars)
  PROVE  Shows(ToastPreview(s), s)
<1> DEFINE p == ToastPreview(s)
           n == ToastChars
<1>1. n \in Nat /\ Len(s) \in Nat /\ DOMAIN s = 1..Len(s)
  BY LimitsAre, LenProperties
<1>2. CASE Len(s) <= n
  <2>1. p = [i \in 1..Len(s) |-> Flat(s[i])]
    BY <1>1, <1>2 DEF ToastPreview
  <2>2. Len(s) <= Len(s)
    BY <1>1
  <2> HIDE DEF p
  <2>3. /\ p \in Seq(Chars) /\ Len(p) = Len(s)
        /\ \A i \in 1..Len(s) : p[i] \notin {"\n", "\r"} /\ p[i] \in {s[i], " "}
    BY <1>1, <2>1, <2>2, OneLine
  <2>4. \A i \in 1..Len(p) : p[i] \notin {"\n", "\r"} /\ p[i] \in {s[i], " "}
    BY <2>3
  <2>5. Len(p) <= n + 1
    <3> DEFINE k == Len(p)
               l == Len(s)
    <3>1. n \in Nat /\ l \in Nat /\ k = l /\ l <= n
      BY <1>1, <1>2, <2>3
    <3> HIDE DEF n, k, l
    <3>2. k <= n + 1
      BY <3>1
    <3> QED BY <3>2 DEF k
  <2>6. Shows(p, s)
    BY <2>3, <2>4, <2>5 DEF Shows
  <2> QED BY <2>6 DEF p
<1>3. CASE ~(Len(s) <= n)
  <2> DEFINE a == [i \in 1..n |-> Flat(s[i])]
             e == <<"...">>
  <2>1. p = a \o e
    BY <1>3 DEF ToastPreview
  <2>2. n <= Len(s)
    BY <1>1, <1>3
  <2>3. /\ a \in Seq(Chars) /\ Len(a) = n
        /\ \A i \in 1..n : a[i] \notin {"\n", "\r"} /\ a[i] \in {s[i], " "}
    BY <1>1, <2>2, OneLine
  <2>4. e \in Seq(Chars) /\ Len(e) = 1 /\ e[1] = "..."
    <3>1. "..." \in Chars
      BY DEF Chars
    <3> QED BY <3>1
  <2> HIDE DEF a, e, p
  <2>5. p \in Seq(Chars) /\ Joins(p, a, e)
    BY <2>1, <2>3, <2>4, ConcatParts
  <2>6. Len(p) = n + 1 /\ (\A i \in 1..n : p[i] = a[i]) /\ p[n + 1] = "..."
    <3>1. Len(p) = Len(a) + Len(e) /\ (\A i \in 1..Len(a) : p[i] = a[i])
          /\ \A i \in 1..Len(e) : p[Len(a) + i] = e[i]
      BY <2>5 DEF Joins
    <3>2. 1 \in 1..Len(e)
      BY <2>4
    <3>3. p[n + 1] = e[1]
      BY <2>3, <3>1, <3>2
    <3> QED BY <2>3, <2>4, <3>1, <3>3
  <2>7. ASSUME NEW i \in 1..Len(p)
        PROVE  p[i] \notin {"\n", "\r"} /\ (i <= n => p[i] \in {s[i], " "})
    <3>1. i \in 1..n \/ (i = n + 1 /\ ~(i <= n))
      BY <1>1, <2>6
    <3> QED BY <2>3, <2>6, <3>1
  <2>8. Len(p) <= n + 1 /\ ~(Len(s) <= n)
    BY <1>1, <1>3, <2>6
  <2>9. Shows(p, s)
    BY <2>5, <2>7, <2>8 DEF Shows
  <2> QED BY <2>9 DEF p
<1> QED BY <1>2, <1>3

(* Every toast is readable, or has a character that XML forbids and is not *)
(* shown at all.                                                           *)
LEMMA ToastsAreReadable == FormatsInit => ToastReadable
<1> SUFFICES ASSUME FormatsInit, in.of = "text" PROVE ToastReadable
  BY DEF ToastReadable
<1>1. in \in Inputs
  BY DEF FormatsInit, NoInput
<1>2. in.text \in Seq(STRING)
  BY <1>1, FormatsAssumption
<1>3. in.text \in Seq(Chars)
  <2>1. STRING \subseteq Chars
    BY DEF Chars
  <2> QED BY <1>2, <2>1, SeqMonotonic
<1> DEFINE p == ToastPreview(in.text)
<1>4. Shows(p, in.text)
  BY <1>3, PreviewShows
<1> HIDE DEF p
<1>5. p \in Seq(Chars)
  BY <1>4 DEF Shows
<1>6. DOMAIN p = 1..Len(p)
  BY <1>5, LenProperties
<1> DEFINE shown == XmlRead(XmlEscape(p))
<1>7. shown = IF AllXml(p) THEN Ok(p) ELSE Failed
  BY <1>5, XmlRoundTrip
<1> HIDE DEF shown
<1>8. (shown.ok <=> AllXml(p)) /\ (shown.ok => shown.val = p)
  BY <1>7 DEF Ok, Failed
<1>9. shown.ok <=> \A i \in DOMAIN p : p[i] \notin NoXml
  BY <1>6, <1>8 DEF AllXml
<1> QED BY <1>4, <1>6, <1>8, <1>9 DEF ToastReadable, Shows, p, shown

-----------------------------------------------------------------------------
(* Emoji. *)

(* The powers of two. *)
LEMMA Powers ==
  /\ DigestBits \in Nat /\ Pow2[0] = 1
  /\ \A i \in 1..DigestBits : Pow2[i] = 2 * Pow2[i - 1]
  /\ \A i \in 0..DigestBits : Pow2[i] \in Nat \ {0}
<1> DEFINE V == Nat
           n == DigestBits
           h == [i \in Nat |-> [v \in V |-> 2 * v]]
<1>1. h \in [Nat -> [V -> V]] /\ 1 \in V
  OBVIOUS
<1>0. n \in Nat
  BY LimitsAre DEF DigestBits
<1> HIDE DEF h, V, n
<1>2. \E g \in [0..n -> V] : Iterates(g, 1, h, n)
  BY <1>0, <1>1, Recursion
<1>3. PICK g \in [0..n -> V] : Iterates(g, 1, h, n)
  BY <1>2
<1>4. ASSUME NEW i \in 1..n PROVE g[i] = 2 * g[i - 1]
  <2>1. i \in Nat /\ g[i - 1] \in V
    BY <1>0
  <2>2. h[i][g[i - 1]] = 2 * g[i - 1]
    BY <2>1 DEF h
  <2> QED BY <1>3, <2>2 DEF Iterates
<1>5. g = [i \in 0..n |-> IF i = 0 THEN 1 ELSE 2 * g[i - 1]]
  BY <1>0, <1>3, <1>4 DEF Iterates
<1>6. Pow2 = [i \in 0..n |-> IF i = 0 THEN 1 ELSE 2 * Pow2[i - 1]]
  BY <1>5 DEF Pow2, n
<1>7. Pow2[0] = 1 /\ \A i \in 1..n : Pow2[i] = 2 * Pow2[i - 1]
  <2>1. 0 \in 0..n /\ \A i \in 1..n : i \in 0..n /\ i # 0
    BY <1>0
  <2> QED BY <1>6, <2>1, Zenon
<1> DEFINE T == {i \in Nat : i <= n => Pow2[i] \in Nat \ {0}}
<1>8. 0 \in T
  BY <1>7
<1>9. ASSUME NEW i \in Nat, i \in T PROVE i + 1 \in T
  <2> SUFFICES ASSUME i + 1 <= n PROVE Pow2[i + 1] \in Nat \ {0}
    OBVIOUS
  <2>1. Pow2[i] \in Nat \ {0} /\ i + 1 \in 1..n /\ (i + 1) - 1 = i
    BY <1>0, <1>9
  <2>2. Pow2[i + 1] = 2 * Pow2[i]
    BY <1>7, <2>1
  <2> QED BY <2>1, <2>2
<1> HIDE DEF T
<1>10. \A i \in Nat : i \in T
  BY <1>8, <1>9, Induction
<1> QED BY <1>0, <1>7, <1>10 DEF T, n

(* The power of a sum is the product of the powers. *)
LEMMA PowerOfSum ==
  ASSUME NEW a \in Nat, NEW b \in Nat, a + b <= DigestBits
  PROVE  Pow2[a + b] = Pow2[a] * Pow2[b]
<1> DEFINE n == DigestBits
           T == {k \in Nat : a + k <= n => Pow2[a + k] = Pow2[a] * Pow2[k]}
<1>1. n \in Nat /\ Pow2[0] = 1
  BY Powers
<1> HIDE DEF n
<1>2. 0 \in T
  <2>1. a <= n => Pow2[a] \in Nat
    BY <1>1, Powers DEF n
  <2> QED BY <1>1, <2>1
<1>3. ASSUME NEW k \in Nat, k \in T PROVE k + 1 \in T
  <2> SUFFICES ASSUME a + (k + 1) <= n PROVE Pow2[a + (k + 1)] = Pow2[a] * Pow2[k + 1]
    OBVIOUS
  <2>1. /\ a + k <= n /\ a + (k + 1) \in 1..n /\ (a + (k + 1)) - 1 = a + k
        /\ k + 1 \in 1..n /\ (k + 1) - 1 = k /\ a \in 0..n /\ k \in 0..n
    BY <1>1
  <2>2. Pow2[a + k] = Pow2[a] * Pow2[k]
    BY <1>3, <2>1
  <2>3. Pow2[a + (k + 1)] = 2 * Pow2[a + k] /\ Pow2[k + 1] = 2 * Pow2[k]
    BY <2>1, Powers DEF n
  <2>4. Pow2[a] \in Nat /\ Pow2[k] \in Nat
    BY <2>1, Powers DEF n
  <2> DEFINE x == Pow2[a]
             y == Pow2[k]
  <2>5. 2 * (x * y) = x * (2 * y)
    <3> HIDE DEF x, y
    <3> QED BY <2>4 DEF x, y
  <2> QED BY <2>2, <2>3, <2>5
<1> HIDE DEF T
<1>4. b \in T
  BY <1>2, <1>3, Induction
<1> QED BY <1>4 DEF T, n

(* Division by a positive number, in the words of multiplication. *)
LEMMA DivIs ==
  ASSUME NEW x \in Nat, NEW m \in Nat \ {0}
  PROVE  /\ x \div m \in Nat /\ x % m \in 0..(m - 1)
         /\ x = m * (x \div m) + (x % m)
<1>1. x \in Int /\ m \in Int /\ m > 0
  OBVIOUS
<1> DEFINE q == x \div m
           r == x % m
<1>2. q \in Int /\ r \in 0..(m - 1) /\ x = m * q + r
  BY <1>1
<1> HIDE DEF q, r
<1>3. ASSUME q < 0 PROVE FALSE
  <2>1. q <= -1
    BY <1>2, <1>3
  <2>2. m * q <= m * (-1)
    BY <1>1, <1>2, <2>1
  <2> QED BY <1>2, <2>2
<1> QED BY <1>2, <1>3 DEF q, r

(* Quotient and remainder are determined. *)
LEMMA QuotientIs ==
  ASSUME NEW x \in Nat, NEW m \in Nat \ {0}, NEW q \in Nat, NEW r \in 0..(m - 1), x = m * q + r
  PROVE  x \div m = q
<1> DEFINE p == x \div m
           o == x % m
<1>1. p \in Nat /\ o \in 0..(m - 1) /\ x = m * p + o
  BY DivIs
<1> HIDE DEF p, o
<1>2. ASSUME p < q PROVE FALSE
  <2>1. p + 1 <= q
    BY <1>1, <1>2
  <2>2. m * (p + 1) <= m * q /\ m * (p + 1) = m * p + m
    BY <1>1, <2>1
  <2> QED BY <1>1, <2>2
<1>3. ASSUME q < p PROVE FALSE
  <2>1. q + 1 <= p
    BY <1>1, <1>3
  <2>2. m * (q + 1) <= m * p /\ m * (q + 1) = m * q + m
    BY <1>1, <2>1
  <2> QED BY <1>1, <2>2
<1> QED BY <1>1, <1>2, <1>3 DEF p

(* Dividing twice is dividing by the product. *)
LEMMA DivTwice ==
  ASSUME NEW x \in Nat, NEW a \in Nat \ {0}, NEW b \in Nat \ {0}
  PROVE  x \div (a * b) = (x \div a) \div b
<1> DEFINE y == x \div a
           r == x % a
<1>1. y \in Nat /\ r \in 0..(a - 1) /\ x = a * y + r
  BY DivIs
<1> HIDE DEF y, r
<1> DEFINE q == y \div b
           t == y % b
<1>2. q \in Nat /\ t \in 0..(b - 1) /\ y = b * q + t
  BY <1>1, DivIs
<1> HIDE DEF q, t
<1>3. a * b \in Nat \ {0}
  <2>1. a * b >= a
    OBVIOUS
  <2> QED BY <2>1
<1>4. a * t + r \in 0..(a * b - 1)
  <2>1. t <= b - 1
    BY <1>2
  <2>2. a * t <= a * (b - 1) /\ a * (b - 1) = a * b - a
    BY <1>2, <2>1
  <2>3. a * t >= 0 /\ a * t \in Int
    BY <1>2
  <2> QED BY <1>1, <1>3, <2>2, <2>3
<1>5. x = (a * b) * q + (a * t + r)
  <2>1. a * (b * q + t) = (a * b) * q + a * t
    BY <1>2
  <2> QED BY <1>1, <1>2, <2>1
<1>6. x \div (a * b) = q
  <2> DEFINE m == a * b
             o == a * t + r
  <2>1. m \in Nat \ {0} /\ o \in 0..(m - 1) /\ x = m * q + o
    BY <1>3, <1>4, <1>5
  <2> HIDE DEF m, o
  <2>2. x \div m = q
    BY <1>2, <2>1, QuotientIs
  <2> QED BY <2>2 DEF m
<1> QED BY <1>6 DEF q, y

(* What remains of a digest after the lowest k bits are shifted out. *)
Shifted(d, k) == d \div Pow2[k]

(* Shifting by the bits of one emoji more divides by their power. *)
LEMMA ShiftMore ==
  ASSUME NEW d \in Nat, NEW k \in Nat, NEW j \in Nat, j = k + SasBits, j <= DigestBits
  PROVE  /\ Shifted(d, k) \in Nat /\ Shifted(d, j) \in Nat
         /\ Pow2[SasBits] \in Nat \ {0}
         /\ Shifted(d, k) = Pow2[SasBits] * Shifted(d, j) + (Shifted(d, k) % Pow2[SasBits])
<1> DEFINE a == Pow2[k]
           b == Pow2[SasBits]
           y == d \div a
<1>1. SasBits \in Nat /\ DigestBits \in Nat
  BY Powers, LimitsAre
<1>2. k \in 0..DigestBits /\ SasBits \in 0..DigestBits /\ k + SasBits <= DigestBits
  BY <1>1
<1>3. a \in Nat \ {0} /\ b \in Nat \ {0}
  BY <1>2, Powers
<1>4. Pow2[j] = a * b
  BY <1>1, <1>2, PowerOfSum
<1> HIDE DEF a, b
<1>5. y \in Nat
  BY <1>3, DivIs
<1>6. d \div (a * b) = y \div b
  BY <1>3, DivTwice
<1> HIDE DEF y
<1>7. y \div b \in Nat /\ y = b * (y \div b) + (y % b)
  BY <1>3, <1>5, DivIs
<1> QED BY <1>3, <1>4, <1>5, <1>6, <1>7 DEF Shifted, a, b, y

(* A digest has nothing but its bits. *)
LEMMA ShiftAll ==
  ASSUME NEW d \in Digests
  PROVE  d \in Nat /\ Shifted(d, DigestBits) = 0
<1> DEFINE m == Pow2[DigestBits]
<1>1. m \in Nat \ {0}
  BY Powers
<1>2. d \in 0..(m - 1)
  BY DEF Digests
<1> HIDE DEF m
<1>3. d \in Nat /\ 0 \in Nat /\ d = m * 0 + d
  BY <1>1, <1>2
<1>4. d \div m = 0
  BY <1>1, <1>2, <1>3, QuotientIs
<1> QED BY <1>3, <1>4 DEF Shifted, m

(* Two digests that agree after a shift and on the emoji below it agree    *)
(* before the shift.                                                       *)
LEMMA SameBelow ==
  ASSUME NEW d \in Nat, NEW e \in Nat, NEW k \in Nat, NEW j \in Nat,
         j = k + SasBits, j <= DigestBits,
         Shifted(d, j) = Shifted(e, j), Symbol(d, k) = Symbol(e, k)
  PROVE  Shifted(d, k) = Shifted(e, k)
<1>1. Shifted(d, k) = Pow2[SasBits] * Shifted(d, j) + (Shifted(d, k) % Pow2[SasBits])
  BY ShiftMore
<1>2. Shifted(e, k) = Pow2[SasBits] * Shifted(e, j) + (Shifted(e, k) % Pow2[SasBits])
  BY ShiftMore
<1>3. Shifted(d, k) % Pow2[SasBits] = Shifted(e, k) % Pow2[SasBits]
  BY DEF Symbol, Shifted
<1> QED BY <1>1, <1>2, <1>3

(* And the other way round. *)
LEMMA SameAbove ==
  ASSUME NEW d \in Nat, NEW e \in Nat, NEW k \in Nat, NEW j \in Nat,
         j = k + SasBits, j <= DigestBits, Shifted(d, k) = Shifted(e, k)
  PROVE  Shifted(d, j) = Shifted(e, j) /\ Symbol(d, k) = Symbol(e, k)
<1> DEFINE b == Pow2[SasBits]
           r == Shifted(d, k) % b
           p == Shifted(d, j)
           q == Shifted(e, j)
<1>1. Shifted(d, k) = b * p + r /\ p \in Nat /\ b \in Nat \ {0} /\ Shifted(d, k) \in Nat
  BY ShiftMore
<1>2. Shifted(e, k) = b * q + (Shifted(e, k) % b) /\ q \in Nat
  BY ShiftMore
<1>3. Shifted(e, k) % b = r
  OBVIOUS
<1>4. r \in 0..(b - 1)
  <2> DEFINE x == Shifted(d, k)
  <2>1. x \in Nat /\ b \in Nat \ {0}
    BY <1>1
  <2> HIDE DEF x, b
  <2>2. x % b \in 0..(b - 1)
    BY <2>1, DivIs
  <2> QED BY <2>2 DEF x
<1>5. p = q
  <2> DEFINE x == Shifted(d, k)
  <2>1. x = b * p + r /\ x = b * q + r /\ x \in Nat
    BY <1>1, <1>2, <1>3
  <2>0. q \in Nat /\ b \in Nat \ {0}
    BY <1>1, <1>2
  <2> HIDE DEF x, b, p, q, r
  <2>2. x \div b = p
    BY <1>1, <1>4, <2>1, QuotientIs
  <2>3. x \div b = q
    BY <2>0, <1>4, <2>1, QuotientIs
  <2> QED BY <2>2, <2>3
<1>6. Symbol(d, k) = Symbol(e, k)
  BY DEF Symbol, Shifted
<1> QED BY <1>5, <1>6

(* The emoji of two digests are equal just when the digests agree on the   *)
(* bits that are not spare.                                                *)
LEMMA SameEmoji ==
  ASSUME NEW d \in Digests, NEW e \in Digests
  PROVE  SasEmoji(d) = SasEmoji(e) <=> Shifted(d, SasSpare) = Shifted(e, SasSpare)
<1> DEFINE k0 == SasSpare
           k1 == SasSpare + SasBits
           k2 == SasSpare + 2 * SasBits
           k3 == SasSpare + 3 * SasBits
           k4 == DigestBits
<1>1. /\ k0 \in Nat /\ k1 \in Nat /\ k2 \in Nat /\ k3 \in Nat /\ k4 \in Nat
      /\ k1 = k0 + SasBits /\ k2 = k1 + SasBits /\ k3 = k2 + SasBits /\ k4 = k3 + SasBits
      /\ k1 <= k4 /\ k2 <= k4 /\ k3 <= k4 /\ k4 <= k4
  BY LimitsAre DEF DigestBits
<1>2. d \in Nat /\ e \in Nat /\ Shifted(d, k4) = 0 /\ Shifted(e, k4) = 0
  BY ShiftAll
<1>3. SasEmoji(d) = SasEmoji(e) <=>
        /\ Symbol(d, k3) = Symbol(e, k3) /\ Symbol(d, k2) = Symbol(e, k2)
        /\ Symbol(d, k1) = Symbol(e, k1) /\ Symbol(d, k0) = Symbol(e, k0)
  BY DEF SasEmoji
<1> SUFFICES (/\ Symbol(d, k3) = Symbol(e, k3) /\ Symbol(d, k2) = Symbol(e, k2)
              /\ Symbol(d, k1) = Symbol(e, k1) /\ Symbol(d, k0) = Symbol(e, k0))
             <=> Shifted(d, k0) = Shifted(e, k0)
  BY <1>3
<1> HIDE DEF k0, k1, k2, k3, k4
<1>4. ASSUME Symbol(d, k3) = Symbol(e, k3), Symbol(d, k2) = Symbol(e, k2),
             Symbol(d, k1) = Symbol(e, k1), Symbol(d, k0) = Symbol(e, k0)
      PROVE  Shifted(d, k0) = Shifted(e, k0)
  <2>1. Shifted(d, k3) = Shifted(e, k3)
    BY <1>1, <1>2, <1>4, SameBelow DEF k4
  <2>2. Shifted(d, k2) = Shifted(e, k2)
    BY <1>1, <1>2, <1>4, <2>1, SameBelow DEF k4
  <2>3. Shifted(d, k1) = Shifted(e, k1)
    BY <1>1, <1>2, <1>4, <2>2, SameBelow DEF k4
  <2> QED BY <1>1, <1>2, <1>4, <2>3, SameBelow DEF k4
<1>5. ASSUME Shifted(d, k0) = Shifted(e, k0)
      PROVE  /\ Symbol(d, k3) = Symbol(e, k3) /\ Symbol(d, k2) = Symbol(e, k2)
             /\ Symbol(d, k1) = Symbol(e, k1) /\ Symbol(d, k0) = Symbol(e, k0)
  <2>1. Shifted(d, k1) = Shifted(e, k1) /\ Symbol(d, k0) = Symbol(e, k0)
    BY <1>1, <1>2, <1>5, SameAbove DEF k4
  <2>2. Shifted(d, k2) = Shifted(e, k2) /\ Symbol(d, k1) = Symbol(e, k1)
    BY <1>1, <1>2, <2>1, SameAbove DEF k4
  <2>3. Shifted(d, k3) = Shifted(e, k3) /\ Symbol(d, k2) = Symbol(e, k2)
    BY <1>1, <1>2, <2>2, SameAbove DEF k4
  <2>4. Symbol(d, k3) = Symbol(e, k3)
    BY <1>1, <1>2, <2>3, SameAbove DEF k4
  <2> QED BY <2>1, <2>2, <2>3, <2>4
<1> QED BY <1>4, <1>5

(* The emoji tell digests apart. *)
LEMMA EmojiTell == FormatsInit => EmojiTellApart
<1> SUFFICES ASSUME FormatsInit, in.of = "digest", NEW d \in Digests
             PROVE  SasEmoji(d) = SasEmoji(in.digest)
                      <=> d \div Pow2[SasSpare] = in.digest \div Pow2[SasSpare]
  BY DEF EmojiTellApart
<1>1. in \in Inputs
  BY DEF FormatsInit, NoInput
<1>2. in.digest \in Digests
  BY <1>1, FormatsAssumption
<1> QED BY <1>2, SameEmoji DEF Shifted

(* What a user is shown says what it stands for, for every digest, every   *)
(* text and every set of characters that XML forbids: emoji that are equal *)
(* show that all the bits they stand for are; a toast reads as the start   *)
(* of the clip on one line, whatever markup the clip has, and fails to     *)
(* load exactly when what it would show has a forbidden character.         *)
THEOREM ScreensTellTheTruth == FormatsSpec => []ScreenFormats
<1>1. FormatsInit => ScreenFormats
  BY ToastsAreReadable, EmojiTell DEF ScreenFormats
<1>2. FormatsInit /\ [FALSE]_in => FormatsInit'
  BY DEF FormatsInit
<1> QED BY <1>1, <1>2, PTL DEF FormatsSpec

-----------------------------------------------------------------------------
(* Names. *)

NameType == Seq(Nat \ {0})

(* Where the characters of a name end. *)
LEMMA WidthsAre ==
  ASSUME NEW name \in NameType
  PROVE  /\ Len(name) \in Nat /\ Widths(name)[0] = 0
         /\ \A k \in 1..Len(name) : Widths(name)[k] = Widths(name)[k - 1] + name[k]
         /\ \A k \in 0..Len(name) : Widths(name)[k] \in Nat
         /\ \A k \in 1..Len(name) : name[k] \in Nat \ {0}
<1> DEFINE n == Len(name)
           V == Nat
           h == [i \in Nat |-> [v \in V |-> IF i \in 1..n THEN v + name[i] ELSE v]]
<1>1. n \in Nat /\ \A i \in 1..n : name[i] \in Nat \ {0}
  BY LenProperties DEF NameType
<1>2. h \in [Nat -> [V -> V]] /\ 0 \in V
  BY <1>1
<1> HIDE DEF h, V, n
<1>3. PICK g \in [0..n -> V] : Iterates(g, 0, h, n)
  BY <1>1, <1>2, Recursion
<1>4. ASSUME NEW i \in 1..n PROVE g[i] = g[i - 1] + name[i]
  <2>1. i \in Nat /\ g[i - 1] \in V
    BY <1>1
  <2>2. h[i][g[i - 1]] = g[i - 1] + name[i]
    BY <2>1 DEF h
  <2> QED BY <1>3, <2>2 DEF Iterates
<1>5. g[0] = 0
  BY <1>3 DEF Iterates
<1>6. g = [i \in 0..n |-> IF i = 0 THEN 0 ELSE g[i - 1] + name[i]]
  BY <1>1, <1>4, <1>5
<1> DEFINE w == Widths(name)
<1>7. w = [i \in 0..n |-> IF i = 0 THEN 0 ELSE w[i - 1] + name[i]]
  BY <1>6 DEF Widths, n
<1> HIDE DEF w
<1>8. w[0] = 0 /\ \A i \in 1..n : w[i] = w[i - 1] + name[i]
  <2>1. 0 \in 0..n /\ \A i \in 1..n : i \in 0..n /\ i # 0
    BY <1>1
  <2> QED BY <1>7, <2>1, Zenon
<1>9. Alike(w, g, n)
  BY <1>4, <1>5, <1>8 DEF Alike
<1>10. \A i \in 0..n : w[i] = g[i]
  BY <1>1, <1>9, SameSteps
<1>11. \A i \in 0..n : w[i] \in Nat
  BY <1>10 DEF V
<1> QED BY <1>1, <1>8, <1>11 DEF w, n

(* The search for a boundary ends at the last one that is not after its    *)
(* start.                                                                  *)
LEMMA EndsAtBoundary ==
  ASSUME NEW name \in NameType
  PROVE  LET e == Ends(name)[MaxNameBytes] IN
         /\ e \in 0..MaxNameBytes /\ IsCharBoundary(name, e)
         /\ \A m \in (e + 1)..MaxNameBytes : ~IsCharBoundary(name, m)
<1> DEFINE n == MaxNameBytes
           V == Nat
           B == {m \in Nat : IsCharBoundary(name, m)}
           h == [i \in Nat |-> [v \in V |-> IF i \in B THEN i ELSE v]]
<1>1. n \in Nat
  BY LimitsAre
<1>2. h \in [Nat -> [V -> V]] /\ 0 \in V
  OBVIOUS
<1>3. 0 \in B
  <2>1. Widths(name)[0] = 0 /\ 0 \in 0..Len(name)
    BY WidthsAre
  <2> QED BY <2>1 DEF IsCharBoundary
<1>4. \A m \in 0..n : IsCharBoundary(name, m) <=> m \in B
  BY <1>1
<1> HIDE DEF h, V, n, B
<1>5. PICK g \in [0..n -> V] : Iterates(g, 0, h, n)
  BY <1>1, <1>2, Recursion
<1>6. ASSUME NEW i \in 1..n PROVE g[i] = IF i \in B THEN i ELSE g[i - 1]
  <2>1. i \in Nat /\ g[i - 1] \in V
    BY <1>1
  <2>2. h[i][g[i - 1]] = IF i \in B THEN i ELSE g[i - 1]
    BY <2>1 DEF h
  <2> QED BY <1>5, <2>2 DEF Iterates
<1>7. g[0] = 0
  BY <1>5 DEF Iterates
<1>8. g = [i \in 0..n |-> IF i > 0 /\ ~IsCharBoundary(name, i) THEN g[i - 1] ELSE i]
  <2>1. ASSUME NEW i \in 0..n
        PROVE  g[i] = IF i > 0 /\ ~IsCharBoundary(name, i) THEN g[i - 1] ELSE i
    <3>1. CASE i = 0
      BY <1>7, <3>1
    <3>2. CASE i \in 1..n
      BY <1>1, <1>4, <1>6, <3>2
    <3> QED BY <1>1, <3>1, <3>2
  <2> QED BY <2>1
<1> DEFINE e == Ends(name)
<1>9. e = [i \in 0..n |-> IF i > 0 /\ ~IsCharBoundary(name, i) THEN e[i - 1] ELSE i]
  BY <1>8 DEF Ends, n
<1> HIDE DEF e
<1>10. e[0] = 0 /\ \A i \in 1..n : e[i] = IF i \in B THEN i ELSE e[i - 1]
  <2>1. 0 \in 0..n /\ ~(0 > 0) /\ \A i \in 1..n : i \in 0..n /\ i > 0
    BY <1>1
  <2>2. \A i \in 0..n : e[i] = IF i > 0 /\ ~IsCharBoundary(name, i) THEN e[i - 1] ELSE i
    BY <1>9, Zenon
  <2> QED BY <1>4, <2>1, <2>2, Zenon
<1> DEFINE T == {k \in Nat : k <= n => /\ e[k] \in 0..k /\ e[k] \in B
                                       /\ \A m \in (e[k] + 1)..k : m \notin B}
<1>11. 0 \in T
  BY <1>3, <1>10
<1>12. ASSUME NEW k \in Nat, k \in T PROVE k + 1 \in T
  <2> SUFFICES ASSUME k + 1 <= n
               PROVE  /\ e[k + 1] \in 0..(k + 1) /\ e[k + 1] \in B
                      /\ \A m \in (e[k + 1] + 1)..(k + 1) : m \notin B
    OBVIOUS
  <2>1. /\ e[k] \in 0..k /\ e[k] \in B /\ \A m \in (e[k] + 1)..k : m \notin B
    BY <1>1, <1>12
  <2>2. k + 1 \in 1..n /\ (k + 1) - 1 = k
    BY <1>1
  <2>3. e[k + 1] = IF k + 1 \in B THEN k + 1 ELSE e[k]
    BY <1>10, <2>2
  <2>4. CASE k + 1 \in B
    BY <2>3, <2>4
  <2>5. CASE k + 1 \notin B
    <3> DEFINE c == e[k]
    <3>1. e[k + 1] = c
      BY <2>3, <2>5
    <3> HIDE DEF c
    <3>2. c \in 0..k /\ c \in B /\ \A m \in (c + 1)..k : m \notin B
      BY <2>1 DEF c
    <3>3. \A m \in (c + 1)..(k + 1) : m \in (c + 1)..k \/ m = k + 1
      BY <3>2
    <3> QED BY <2>5, <3>1, <3>2, <3>3
  <2> QED BY <2>4, <2>5
<1> HIDE DEF T
<1>13. n \in T
  BY <1>1, <1>11, <1>12, Induction
<1> DEFINE c == e[n]
<1>14. c \in 0..n /\ c \in B /\ \A m \in (c + 1)..n : m \notin B
  BY <1>1, <1>13 DEF T
<1> HIDE DEF c
<1>15. \A m \in (c + 1)..n : m \in 0..n
  BY <1>1, <1>14
<1> QED BY <1>4, <1>14, <1>15 DEF c, e, n

(* What a name is cut to. *)
LEMMA TruncatedIs ==
  ASSUME NEW name \in NameType
  PROVE  LET cut == TruncateName(name) IN
         /\ cut = SubSeq(name, 1, Len(cut)) /\ NameBytes(cut) <= MaxNameBytes
         /\ cut # name => NameBytes(cut) + name[Len(cut) + 1] > MaxNameBytes
<1> DEFINE cut == TruncateName(name)
           n == Len(name)
           w == Widths(name)
<1>1. /\ n \in Nat /\ w[0] = 0 /\ \A k \in 0..n : w[k] \in Nat
      /\ \A k \in 1..n : w[k] = w[k - 1] + name[k]
      /\ \A k \in 1..n : name[k] \in Nat \ {0}
  BY WidthsAre
<1>2. CASE w[n] <= MaxNameBytes
  <2>1. cut = name
    BY <1>2 DEF TruncateName, NameBytes
  <2>2. name = SubSeq(name, 1, n)
    BY SubSeqFull DEF NameType
  <2> HIDE DEF cut
  <2> QED BY <1>2, <2>1, <2>2 DEF NameBytes, cut
<1>3. CASE ~(w[n] <= MaxNameBytes)
  <2> DEFINE e == Ends(name)[MaxNameBytes]
  <2>1. /\ e \in 0..MaxNameBytes /\ IsCharBoundary(name, e)
        /\ \A m \in (e + 1)..MaxNameBytes : ~IsCharBoundary(name, m)
    BY EndsAtBoundary
  <2>2. cut = FirstBytes(name, e)
    BY <1>3 DEF TruncateName, NameBytes
  <2> HIDE DEF e, cut
  <2> DEFINE k == CHOOSE j \in 0..n : w[j] = e
  <2>3. k \in 0..n /\ w[k] = e
    BY <2>1 DEF IsCharBoundary
  <2>4. cut = SubSeq(name, 1, k)
    BY <2>2 DEF FirstBytes
  <2> HIDE DEF k, w, n
  <2>5. k \in Nat /\ 1 \in Nat /\ 1 <= 1 /\ 1 <= k + 1 /\ k <= n /\ k - 1 + 1 = k
    BY <1>1, <2>3
  <2>6. cut \in NameType /\ IsPart(cut, name, 1, k)
    BY <2>4, <2>5, SubSeqPart DEF NameType, n
  <2>7. Len(cut) = k /\ \A i \in 1..k : cut[i] = name[i]
    <3>1. \A i \in 1..k : 1 + i - 1 = i
      BY <2>5
    <3> QED BY <2>5, <2>6, <3>1 DEF IsPart
  <2>8. NameBytes(cut) = e
    <3> DEFINE v == Widths(cut)
    <3>1. v[0] = 0 /\ \A i \in 1..k : v[i] = v[i - 1] + cut[i]
      BY <2>6, <2>7, WidthsAre
    <3> HIDE DEF v
    <3>2. \A i \in 1..k : w[i] = w[i - 1] + name[i]
      BY <1>1, <2>5
    <3>3. Alike(v, w, k)
      BY <1>1, <2>7, <3>1, <3>2 DEF Alike
    <3>4. v[k] = w[k]
      BY <2>5, <3>3, SameSteps
    <3> QED BY <2>3, <2>7, <3>4 DEF NameBytes, v
  <2>9. k < n
    <3> SUFFICES ASSUME k = n PROVE FALSE
      BY <1>1, <2>5
    <3> QED BY <1>3, <2>1, <2>3, LimitsAre
  <2>10. e + name[k + 1] > MaxNameBytes
    <3>1. k + 1 \in 1..n /\ (k + 1) - 1 = k /\ k + 1 \in 0..n
      BY <1>1, <2>5, <2>9
    <3>2. w[k + 1] = e + name[k + 1] /\ name[k + 1] \in Nat \ {0}
      BY <1>1, <2>3, <3>1
    <3>3. IsCharBoundary(name, e + name[k + 1])
      BY <3>1, <3>2 DEF IsCharBoundary, w, n
    <3> DEFINE b == name[k + 1]
    <3>4. b \in Nat \ {0} /\ MaxNameBytes \in Nat
      BY <3>2, LimitsAre
    <3>5. e + b \in (e + 1)..MaxNameBytes \/ e + b > MaxNameBytes
      <4> HIDE DEF b
      <4> QED BY <2>1, <3>4
    <3> QED BY <2>1, <3>3, <3>5
  <2>11. e <= MaxNameBytes
    BY <2>1, LimitsAre
  <2> QED BY <2>4, <2>7, <2>8, <2>10, <2>11 DEF cut
<1> QED BY <1>2, <1>3

(* Every name is cut between characters. *)
LEMMA NamesAreCut == FormatsInit => NameCut
<1> SUFFICES ASSUME FormatsInit, in.of = "name" PROVE NameCut
  BY DEF NameCut
<1>1. in \in Inputs
  BY DEF FormatsInit, NoInput
<1>2. in.name \in NameType
  BY <1>1, FormatsAssumption DEF NameType
<1> QED BY <1>2, TruncatedIs DEF NameCut

-----------------------------------------------------------------------------
(* Pairs of keys and values. *)

(* Of the pairs, the one at i has the key k, and no other has. *)
OnlyAt(pairs, k, i) ==
  /\ DOMAIN pairs \subseteq Int /\ i \in DOMAIN pairs /\ pairs[i][1] = k
  /\ \A j \in DOMAIN pairs : pairs[j][1] = k => j = i

(* A key that only one pair has has the value of that pair. *)
LEMMA LastOfOne ==
  ASSUME NEW pairs, NEW k, NEW none, NEW i, OnlyAt(pairs, k, i)
  PROVE  LastOf(pairs, k, none) = pairs[i][2]
<1> DEFINE at == {j \in DOMAIN pairs : pairs[j][1] = k}
<1>1. at = {i} /\ i \in Int
  BY DEF OnlyAt
<1> HIDE DEF at
<1>2. (CHOOSE j \in at : \A m \in at : m <= j) = i
  <2>1. \E j \in at : \A m \in at : m <= j
    BY <1>1
  <2> QED BY <1>1, <2>1
<1>3. at # {}
  BY <1>1
<1> QED BY <1>2, <1>3 DEF LastOf, at

(* The pairs of a record and one more. *)
MorePairs(id, name, extra) == TxtPairs(id, name) \o <<extra>>

(* The pairs that are seen, in the order in which they are. *)
SeenPairs(x) ==
  LET pairs == MorePairs(x.id, x.name, x.extra)
  IN [i \in DOMAIN pairs |-> pairs[x.order[i]]]

IsFour(pairs, id, name, extra) ==
  /\ DOMAIN pairs = 1..4
  /\ pairs[1] = <<"v", "1">> /\ pairs[2] = <<"id", id>>
  /\ pairs[3] = <<"nm", TruncateName(name)>> /\ pairs[4] = extra

(* A record of three pairs and one more has four. *)
LEMMA FourPairs ==
  ASSUME NEW id, NEW name, NEW extra
  PROVE  IsFour(MorePairs(id, name, extra), id, name, extra)
<1> DEFINE a == <<"v", "1">>
           b == <<"id", id>>
           c == <<"nm", TruncateName(name)>>
           S == {a, b, c, extra}
<1> HIDE DEF a, b, c
<1>1. <<a, b, c>> \in Seq(S) /\ <<extra>> \in Seq(S)
  OBVIOUS
<1> DEFINE s == <<a, b, c>>
           t == <<extra>>
<1>2. Len(s) = 3 /\ Len(t) = 1 /\ s[1] = a /\ s[2] = b /\ s[3] = c /\ t[1] = extra
  OBVIOUS
<1> HIDE DEF s, t, S
<1>3. s \o t \in Seq(S) /\ Joins(s \o t, s, t)
  BY <1>1, ConcatParts DEF s, t
<1> DEFINE u == s \o t
<1> HIDE DEF u
<1>4. Len(u) = 4 /\ u[1] = a /\ u[2] = b /\ u[3] = c /\ u[4] = extra
  <2>1. 1 \in 1..3 /\ 2 \in 1..3 /\ 3 \in 1..3 /\ 1 \in 1..1 /\ 3 + 1 = 4
    OBVIOUS
  <2>2. Len(u) = 3 + 1 /\ (\A i \in 1..3 : u[i] = s[i]) /\ \A i \in 1..1 : u[3 + i] = t[i]
    BY <1>2, <1>3 DEF Joins, u
  <2> QED BY <1>2, <2>1, <2>2
<1>5. DOMAIN u = 1..4
  BY <1>3, <1>4, LenProperties DEF u
<1> QED BY <1>4, <1>5 DEF u, s, t, a, b, c, TxtPairs, MorePairs, IsFour

(* A function from 1..4 onto it takes no value twice. *)
LEMMA OntoIsOneToOne ==
  ASSUME NEW o \in [1..4 -> 1..4], \A j \in 1..4 : \E i \in 1..4 : o[i] = j,
         NEW i \in 1..4, NEW k \in 1..4, o[i] = o[k]
  PROVE  i = k
<1>1. \A m \in 1..4 : m = 1 \/ m = 2 \/ m = 3 \/ m = 4
  OBVIOUS
<1>2. 1 \in 1..4 /\ 2 \in 1..4 /\ 3 \in 1..4 /\ 4 \in 1..4
  OBVIOUS
<1>3. /\ o[1] = 1 \/ o[2] = 1 \/ o[3] = 1 \/ o[4] = 1
      /\ o[1] = 2 \/ o[2] = 2 \/ o[3] = 2 \/ o[4] = 2
      /\ o[1] = 3 \/ o[2] = 3 \/ o[3] = 3 \/ o[4] = 3
      /\ o[1] = 4 \/ o[2] = 4 \/ o[3] = 4 \/ o[4] = 4
  BY <1>1, <1>2
<1>4. /\ i = 1 \/ i = 2 \/ i = 3 \/ i = 4
      /\ k = 1 \/ k = 2 \/ k = 3 \/ k = 4
  BY <1>1
<1> QED BY <1>3, <1>4

(* What a reader finds among the pairs of a record. *)
LEMMA SeenIs ==
  ASSUME NEW x \in Inputs, x.of = "txt"
  PROVE  LET seen == SeenPairs(x) IN
         /\ LastOf(seen, "v", "none") = "1"
         /\ LastOf(seen, "nm", <<>>) = TruncateName(x.name)
         /\ (\E i \in DOMAIN seen : seen[i][1] = "id" /\ seen[i][2] \in BadTxtIds)
              <=> x.id \in BadTxtIds \/ x.extra[1] # "new"
         /\ x.extra[1] = "new" => LastOf(seen, "id", "none") = x.id
<1> DEFINE seen == SeenPairs(x)
           o == x.order
           pairs == MorePairs(x.id, x.name, x.extra)
<1>1. /\ o \in [1..4 -> 1..4] /\ \A j \in 1..4 : \E i \in 1..4 : o[i] = j
      /\ x.extra[1] # "new" => x.extra[1] = "id" /\ x.extra[2] \in BadTxtIds
  BY FormatsAssumption
<1>2. \A i, k \in 1..4 : o[i] = o[k] => i = k
  BY <1>1, OntoIsOneToOne
<1>3. /\ DOMAIN pairs = 1..4
      /\ pairs[1] = <<"v", "1">> /\ pairs[2] = <<"id", x.id>>
      /\ pairs[3] = <<"nm", TruncateName(x.name)>> /\ pairs[4] = x.extra
  BY FourPairs DEF IsFour
<1>4. seen = [i \in DOMAIN pairs |-> pairs[o[i]]]
  BY DEF SeenPairs
<1> HIDE DEF seen, pairs, o
<1>5. DOMAIN seen = 1..4 /\ \A i \in 1..4 : seen[i] = pairs[o[i]] /\ o[i] \in 1..4
  BY <1>1, <1>3, <1>4
<1>6. /\ pairs[1][1] = "v" /\ pairs[1][2] = "1" /\ pairs[2][1] = "id" /\ pairs[2][2] = x.id
      /\ pairs[3][1] = "nm" /\ pairs[3][2] = TruncateName(x.name)
      /\ pairs[4][1] = x.extra[1] /\ pairs[4][2] = x.extra[2]
  BY <1>3
<1>7. x.extra[1] = "new" \/ x.extra[1] = "id"
  BY <1>1
<1>8. \A m \in 1..4 : m = 1 \/ m = 2 \/ m = 3 \/ m = 4
  OBVIOUS
<1>9. PICK iv \in 1..4, ii \in 1..4, im \in 1..4, ie \in 1..4 :
        o[iv] = 1 /\ o[ii] = 2 /\ o[im] = 3 /\ o[ie] = 4
  <2>1. 1 \in 1..4 /\ 2 \in 1..4 /\ 3 \in 1..4 /\ 4 \in 1..4
    OBVIOUS
  <2> QED BY <1>1, <2>1
<1>10. DOMAIN seen \subseteq Int
  BY <1>5
<1>11. \A j \in 1..4 : /\ j = iv \/ j = ii \/ j = im \/ j = ie
  BY <1>2, <1>5, <1>8, <1>9
<1>12. /\ seen[iv][1] = "v" /\ seen[iv][2] = "1" /\ seen[ii][1] = "id" /\ seen[ii][2] = x.id
       /\ seen[im][1] = "nm" /\ seen[im][2] = TruncateName(x.name)
       /\ seen[ie][1] = x.extra[1] /\ seen[ie][2] = x.extra[2]
  BY <1>5, <1>6, <1>9
<1>13. LastOf(seen, "v", "none") = "1"
  <2>1. OnlyAt(seen, "v", iv)
    BY <1>5, <1>7, <1>11, <1>12, <1>10 DEF OnlyAt
  <2>2. LastOf(seen, "v", "none") = seen[iv][2]
    BY <2>1, LastOfOne
  <2> QED BY <1>12, <2>2
<1>14. LastOf(seen, "nm", <<>>) = TruncateName(x.name)
  <2>1. OnlyAt(seen, "nm", im)
    BY <1>5, <1>7, <1>11, <1>12, <1>10 DEF OnlyAt
  <2>2. LastOf(seen, "nm", <<>>) = seen[im][2]
    BY <2>1, LastOfOne
  <2> QED BY <1>12, <2>2
<1>15. (\E i \in DOMAIN seen : seen[i][1] = "id" /\ seen[i][2] \in BadTxtIds)
         <=> x.id \in BadTxtIds \/ x.extra[1] # "new"
  <2>1. ASSUME NEW i \in DOMAIN seen, seen[i][1] = "id", seen[i][2] \in BadTxtIds
        PROVE  x.id \in BadTxtIds \/ x.extra[1] # "new"
    BY <1>5, <1>11, <1>12, <2>1
  <2>2. x.id \in BadTxtIds => seen[ii][1] = "id" /\ seen[ii][2] \in BadTxtIds
    BY <1>12
  <2>3. x.extra[1] # "new" => seen[ie][1] = "id" /\ seen[ie][2] \in BadTxtIds
    BY <1>1, <1>12
  <2> QED BY <1>5, <2>1, <2>2, <2>3
<1>16. x.extra[1] = "new" => LastOf(seen, "id", "none") = x.id
  <2> SUFFICES ASSUME x.extra[1] = "new" PROVE LastOf(seen, "id", "none") = x.id
    OBVIOUS
  <2>1. OnlyAt(seen, "id", ii)
    BY <1>5, <1>11, <1>12, <1>10 DEF OnlyAt
  <2>2. LastOf(seen, "id", "none") = seen[ii][2]
    BY <2>1, LastOfOne
  <2> QED BY <1>12, <2>2
<1> QED BY <1>13, <1>14, <1>15, <1>16 DEF seen

(* A hint is what was advertised. *)
LEMMA HintsAreAdvertised == FormatsInit => HintIsAdvertised
<1> SUFFICES ASSUME FormatsInit, in.of = "txt" PROVE HintIsAdvertised
  BY DEF HintIsAdvertised
<1>1. in \in Inputs
  BY DEF FormatsInit, NoInput
<1>2. in.id # "none"
  BY <1>1, FormatsAssumption
<1> DEFINE seen == SeenPairs(in)
           cut == TruncateName(in.name)
           bad == in.id \in BadTxtIds \/ in.extra[1] # "new"
<1>3. /\ LastOf(seen, "v", "none") = "1"
      /\ LastOf(seen, "nm", <<>>) = cut
      /\ (\E i \in DOMAIN seen : seen[i][1] = "id" /\ seen[i][2] \in BadTxtIds) <=> bad
      /\ in.extra[1] = "new" => LastOf(seen, "id", "none") = in.id
  BY <1>1, SeenIs
<1> HIDE DEF seen, cut
<1>4. bad => TxtParse(seen) = Failed
  BY <1>3 DEF TxtParse
<1>5. ~bad => TxtParse(seen) = Ok([id |-> in.id, name |-> cut])
  BY <1>2, <1>3 DEF TxtParse
<1>6. HintFrom(seen, in.addrs) =
        IF in.id \in BadTxtIds \/ in.extra[1] # "new" \/ in.addrs = <<>> THEN Failed
        ELSE Ok([id |-> in.id, name |-> cut, addrs |-> in.addrs])
  <2>1. CASE bad
    BY <1>4, <2>1 DEF HintFrom, Failed
  <2>2. CASE ~bad
    <3> DEFINE r == [id |-> in.id, name |-> cut]
               p == TxtParse(seen)
    <3>1. p = Ok(r)
      BY <1>5, <2>2
    <3> HIDE DEF p
    <3>2. p.ok /\ p.val = r
      BY <3>1 DEF Ok
    <3>3. p.val.id = in.id /\ p.val.name = cut
      BY <3>2
    <3> QED BY <2>2, <3>2, <3>3 DEF HintFrom, p
  <2> QED BY <2>1, <2>2
<1> QED BY <1>6 DEF HintIsAdvertised, SeenPairs, MorePairs, seen, cut

(* The value of a key does not depend on the order of a map's entries. *)
LEMMA MapsAreOrderFree == FormatsInit => MapOrderFree
<1> SUFFICES ASSUME FormatsInit, in.of = "map" PROVE MapOrderFree
  BY DEF MapOrderFree
<1>1. in \in Inputs
  BY DEF FormatsInit, NoInput
<1> DEFINE s == in.pairs
           n == Len(s)
           t == [i \in DOMAIN s |-> s[n + 1 - i]]
<1>2. n \in Nat /\ DOMAIN s = 1..n
  <2>1. s \in Seq(Int \X STRING)
    BY <1>1, FormatsAssumption
  <2> QED BY <2>1, LenProperties
<1> HIDE DEF n, s
<1>3. /\ DOMAIN t = 1..n
      /\ \A i \in 1..n : n + 1 - i \in 1..n /\ t[i] = s[n + 1 - i] /\ s[i] = t[n + 1 - i]
  BY <1>2
<1> HIDE DEF t
<1> DEFINE NoInt(p) == \E i \in DOMAIN p : p[i][1] = NotAnInteger
           Twice(p) == \E i, j \in DOMAIN p : i # j /\ p[i][1] = p[j][1]
           Keys(p) == {p[i][1] : i \in DOMAIN p}
<1>4. NoInt(s) <=> NoInt(t)
  BY <1>2, <1>3
<1>5. Twice(s) <=> Twice(t)
  <2>1. \A i, j \in 1..n : i # j => n + 1 - i # n + 1 - j
    BY <1>2
  <2> QED BY <1>2, <1>3, <2>1
<1>6. Keys(s) = Keys(t)
  BY <1>2, <1>3
<1>7. ASSUME ~Twice(s), NEW k \in Keys(s)
      PROVE  LastOf(s, k, "none") = LastOf(t, k, "none")
  <2>1. PICK i \in 1..n : s[i][1] = k
    BY <1>2
  <2> DEFINE j == n + 1 - i
  <2>2. j \in 1..n /\ t[j] = s[i]
    BY <1>3
  <2> HIDE DEF j
  <2>3. \A m \in DOMAIN s : s[m][1] = k => m = i
    BY <1>2, <1>7, <2>1
  <2>4. ASSUME NEW m \in DOMAIN t, t[m][1] = k PROVE m = j
    <3>1. m \in 1..n /\ j \in 1..n /\ t[j][1] = t[m][1]
      BY <1>3, <2>1, <2>2, <2>4
    <3> QED BY <1>3, <1>5, <1>7, <3>1
  <2>5. DOMAIN s \subseteq Int /\ DOMAIN t \subseteq Int
    BY <1>2, <1>3
  <2>6. LastOf(s, k, "none") = s[i][2]
    <3>1. OnlyAt(s, k, i)
      BY <1>2, <2>1, <2>3, <2>5 DEF OnlyAt
    <3> QED BY <3>1, LastOfOne
  <2>7. LastOf(t, k, "none") = t[j][2]
    <3>1. OnlyAt(t, k, j)
      BY <1>3, <2>1, <2>2, <2>4, <2>5 DEF OnlyAt
    <3> QED BY <3>1, LastOfOne
  <2> QED BY <2>2, <2>6, <2>7
<1>8. FromValue(s) = FromValue(t)
  <2>1. CASE NoInt(s) \/ Twice(s)
    BY <1>4, <1>5, <2>1 DEF FromValue
  <2>2. CASE ~(NoInt(s) \/ Twice(s))
    <3>1. [k \in Keys(s) |-> LastOf(s, k, "none")] = [k \in Keys(t) |-> LastOf(t, k, "none")]
      BY <1>6, <1>7, <2>2
    <3>2. FromValue(s) = Ok([k \in Keys(s) |-> LastOf(s, k, "none")])
      BY <2>2 DEF FromValue
    <3>3. FromValue(t) = Ok([k \in Keys(t) |-> LastOf(t, k, "none")])
      BY <1>4, <1>5, <2>2 DEF FromValue
    <3> QED BY <3>1, <3>2, <3>3
  <2> QED BY <2>1, <2>2
<1> QED BY <1>8 DEF MapOrderFree, t, s, n

-----------------------------------------------------------------------------
(* The encoding of a URL. *)

(* The characters of a URL and of what it is made of. *)
QChars == Int

(* The characters of an encoded text. *)
Clean == (QChars \ Reserved) \cup {Percent}

(* What the two hexadecimal digits of a byte are, and what they are read as. *)
LEMMA HexIsRead ==
  ASSUME NEW c \in Byte
  PROVE  /\ HexDigit(c \div 16) \in HexDigits /\ HexDigit(c % 16) \in HexDigits
         /\ 16 * HexValue(HexDigit(c \div 16)) + HexValue(HexDigit(c % 16)) = c
<1>1. c \div 16 \in 0..15 /\ c % 16 \in 0..15 /\ 16 * (c \div 16) + (c % 16) = c
  BY DEF Byte
<1>2. ASSUME NEW n \in 0..15 PROVE HexDigit(n) \in HexDigits /\ HexValue(HexDigit(n)) = n
  BY DEF HexDigit, HexDigits, HexValue
<1>3. /\ HexValue(HexDigit(c \div 16)) = c \div 16
      /\ HexValue(HexDigit(c % 16)) = c % 16
  BY <1>1, <1>2
<1> QED BY <1>1, <1>2, <1>3

(* What encoding makes of a character. *)
LEMMA PercentedType ==
  ASSUME NEW c \in QChars
  PROVE  Percented(c) \in Seq(Clean)
<1>1. CASE c \in Reserved
  <2> DEFINE a == HexDigit(c \div 16)
             b == HexDigit(c % 16)
  <2>1. a \in HexDigits /\ b \in HexDigits
    BY <1>1, HexIsRead DEF Reserved
  <2>2. HexDigits \subseteq Clean /\ Percent \in Clean
    BY DEF HexDigits, Clean, QChars, Reserved, Unreserved
  <2> HIDE DEF a, b
  <2>3. <<Percent, a, b>> \in Seq(Clean)
    BY <2>1, <2>2
  <2> QED BY <1>1, <2>3 DEF Percented, a, b
<1>2. CASE c \notin Reserved
  BY <1>2 DEF Percented, Clean
<1> QED BY <1>1, <1>2

EncodeStep == [c \in QChars |-> [v \in Seq(Clean) |-> v \o Percented(c)]]

(* What UrlEncode makes of a text and of one character more. *)
LEMMA EncodeGrows ==
  /\ UrlEncode(<<>>) = <<>>
  /\ \A s \in Seq(QChars) : UrlEncode(s) \in Seq(Clean)
  /\ \A s \in Seq(QChars), x \in QChars :
       UrlEncode(Append(s, x)) = UrlEncode(s) \o Percented(x)
<1> DEFINE V == Seq(Clean)
           h == EncodeStep
<1>1. h \in [QChars -> [V -> V]]
  <2> SUFFICES ASSUME NEW c \in QChars, NEW v \in V PROVE v \o Percented(c) \in V
    BY DEF EncodeStep
  <2> QED BY PercentedType, ConcatParts
<1>2. <<>> \in V /\ <<>> \in Seq(QChars)
  BY EmptySeq
<1>h. \A c \in QChars, v \in V : h[c][v] = v \o Percented(c)
  BY DEF EncodeStep
<1> HIDE DEF V, h
<1>3. ASSUME NEW s \in Seq(QChars)
      PROVE  UrlEncode(s) = Folded(V, <<>>, h, s) /\ UrlEncode(s) \in V
  <2> DEFINE n == Len(s)
  <2>1. n \in Nat /\ \A i \in 1..n : s[i] \in QChars
    BY LenProperties
  <2>2. PICK g \in [0..n -> V] : Steps(g, <<>>, h, s)
    BY <1>1, <1>2, StepsExist
  <2>3. ASSUME NEW i \in 1..n PROVE g[i] = g[i - 1] \o Percented(s[i])
    <3>1. g[i - 1] \in V /\ s[i] \in QChars
      BY <2>1
    <3>2. h[s[i]][g[i - 1]] = g[i - 1] \o Percented(s[i])
      BY <1>h, <3>1
    <3> QED BY <2>2, <3>2 DEF Steps
  <2>4. g[0] = <<>>
    BY <2>2 DEF Steps
  <2>5. g = [i \in 0..n |-> IF i = 0 THEN <<>> ELSE g[i - 1] \o Percented(s[i])]
    BY <2>1, <2>3, <2>4
  <2> DEFINE f == CHOOSE out : out = [i \in 0..n |-> IF i = 0 THEN <<>> ELSE out[i - 1] \o Percented(s[i])]
  <2>6. f = [i \in 0..n |-> IF i = 0 THEN <<>> ELSE f[i - 1] \o Percented(s[i])]
    BY <2>5
  <2>7. UrlEncode(s) = f[n]
    BY DEF UrlEncode
  <2> HIDE DEF f
  <2>8. Alike(f, g, n)
    BY <2>1, <2>3, <2>4, <2>6 DEF Alike
  <2>9. f[n] = g[n]
    <3> HIDE DEF n
    <3> QED BY <2>1, <2>8, SameSteps
  <2>10. Folded(V, <<>>, h, s) = g[n] /\ Folded(V, <<>>, h, s) \in V
    BY <1>1, <1>2, <2>2, FoldedIs
  <2> QED BY <2>7, <2>9, <2>10
<1>4. UrlEncode(<<>>) = <<>>
  BY <1>2, <1>3, FoldedEmpty
<1>5. ASSUME NEW s \in Seq(QChars), NEW x \in QChars
      PROVE  UrlEncode(Append(s, x)) = UrlEncode(s) \o Percented(x)
  <2>1. Append(s, x) \in Seq(QChars)
    BY AppendProperties
  <2>2. Folded(V, <<>>, h, Append(s, x)) = h[x][Folded(V, <<>>, h, s)]
    BY <1>1, <1>2, FoldedAppend
  <2>3. UrlEncode(Append(s, x)) = h[x][UrlEncode(s)]
    BY <1>3, <2>1, <2>2
  <2> QED BY <1>3, <1>h, <2>3
<1> QED BY <1>3, <1>4, <1>5 DEF V

(* The states of a decoder. *)
Decodings == [at : {"text", "percent", "digit"}, high : Int, val : Seq(QChars)]

DStart == [at |-> "text", high |-> 0, val |-> <<>>]

(* What a character makes of a state. *)
LEMMA DecodeCharType ==
  ASSUME NEW r \in Decodings, NEW c \in QChars
  PROVE  DecodeChar(r, c) \in Decodings
<1> DEFINE d == 16 * HexValue(r.high) + HexValue(c)
           p == Pending(r)
           e == IF c = Plus THEN Space ELSE c
<1>1. r.val \in Seq(QChars) /\ r.at \in {"text", "percent", "digit"} /\ r.high \in Int
  BY DEF Decodings
<1>2. d \in QChars /\ e \in QChars /\ Percent \in QChars /\ r.high \in QChars
  <2>1. \A n \in Int : HexValue(n) \in Int
    BY DEF HexValue
  <2>2. HexValue(r.high) \in Int /\ HexValue(c) \in Int
    BY <1>1, <2>1 DEF QChars
  <2>3. d \in QChars
    <3> DEFINE h == HexValue(r.high)
               l == HexValue(c)
    <3>1. h \in Int /\ l \in Int
      BY <2>2
    <3> HIDE DEF h, l
    <3>2. 16 * h + l \in Int
      BY <3>1
    <3> QED BY <3>2 DEF h, l, QChars
  <2>4. Space \in QChars /\ Percent \in QChars
    BY DEF Space, Percent, QChars
  <2>5. e \in QChars
    BY <2>4
  <2> QED BY <1>1, <2>3, <2>4, <2>5 DEF QChars
<1> HIDE DEF d, e
<1>3. p \in Seq(QChars)
  <2>1. Append(r.val, Percent) \in Seq(QChars)
    BY <1>1, <1>2, AppendProperties
  <2>2. Append(Append(r.val, Percent), r.high) \in Seq(QChars)
    BY <1>2, <2>1, AppendProperties
  <2> QED BY <1>1, <2>1, <2>2 DEF Pending
<1> HIDE DEF p
<1>4. Append(p, e) \in Seq(QChars) /\ Append(r.val, d) \in Seq(QChars)
  BY <1>1, <1>2, <1>3, AppendProperties
<1>5. CASE r.at = "percent" /\ c \in HexDigits
  <2>1. DecodeChar(r, c) = [at |-> "digit", high |-> c, val |-> r.val]
    BY <1>5 DEF DecodeChar
  <2> QED BY <1>1, <2>1 DEF Decodings, QChars
<1>6. CASE r.at = "digit" /\ c \in HexDigits
  <2>1. DecodeChar(r, c) = [at |-> "text", high |-> 0, val |-> Append(r.val, d)]
    BY <1>6 DEF DecodeChar, d
  <2> QED BY <1>4, <2>1 DEF Decodings
<1>7. CASE (r.at = "text" \/ c \notin HexDigits) /\ c = Percent
  <2>1. DecodeChar(r, c) = [at |-> "percent", high |-> 0, val |-> p]
    BY <1>7 DEF DecodeChar, p
  <2> QED BY <1>3, <2>1 DEF Decodings
<1>8. CASE (r.at = "text" \/ c \notin HexDigits) /\ c # Percent
  <2>1. DecodeChar(r, c) = [at |-> "text", high |-> 0, val |-> Append(p, e)]
    BY <1>8 DEF DecodeChar, p, e
  <2> QED BY <1>4, <2>1 DEF Decodings
<1> QED BY <1>1, <1>5, <1>6, <1>7, <1>8

DecodeStep == [c \in QChars |-> [r \in Decodings |-> DecodeChar(r, c)]]

(* What UrlScan makes of a text and of one character more. *)
LEMMA DecodeGrows ==
  /\ UrlScan(<<>>) = DStart
  /\ \A s \in Seq(QChars), x \in QChars : UrlScan(Append(s, x)) = DecodeChar(UrlScan(s), x)
<1> DEFINE V == Decodings
           h == DecodeStep
<1>1. h \in [QChars -> [V -> V]]
  BY DecodeCharType DEF DecodeStep
<1>2. DStart \in V /\ <<>> \in Seq(QChars)
  BY EmptySeq DEF DStart, Decodings
<1>h. \A c \in QChars, v \in V : h[c][v] = DecodeChar(v, c)
  BY DEF DecodeStep
<1> HIDE DEF V, h
<1>3. ASSUME NEW s \in Seq(QChars)
      PROVE  UrlScan(s) = Folded(V, DStart, h, s) /\ UrlScan(s) \in V
  <2> DEFINE n == Len(s)
  <2>1. n \in Nat /\ \A i \in 1..n : s[i] \in QChars
    BY LenProperties
  <2>2. PICK g \in [0..n -> V] : Steps(g, DStart, h, s)
    BY <1>1, <1>2, StepsExist
  <2>3. ASSUME NEW i \in 1..n PROVE g[i] = DecodeChar(g[i - 1], s[i])
    <3>1. g[i - 1] \in V /\ s[i] \in QChars
      BY <2>1
    <3>2. h[s[i]][g[i - 1]] = DecodeChar(g[i - 1], s[i])
      BY <1>h, <3>1
    <3> QED BY <2>2, <3>2 DEF Steps
  <2>4. g[0] = DStart
    BY <2>2 DEF Steps
  <2>5. g = [i \in 0..n |-> IF i = 0 THEN DStart ELSE DecodeChar(g[i - 1], s[i])]
    BY <2>1, <2>3, <2>4
  <2> DEFINE f == CHOOSE after : after = [i \in 0..n |-> IF i = 0 THEN DStart ELSE DecodeChar(after[i - 1], s[i])]
  <2>6. f = [i \in 0..n |-> IF i = 0 THEN DStart ELSE DecodeChar(f[i - 1], s[i])]
    BY <2>5
  <2>7. UrlScan(s) = f[n]
    BY DEF UrlScan, DStart
  <2> HIDE DEF f
  <2>8. Alike(f, g, n)
    BY <2>1, <2>3, <2>4, <2>6 DEF Alike
  <2>9. f[n] = g[n]
    <3> HIDE DEF n
    <3> QED BY <2>1, <2>8, SameSteps
  <2>10. Folded(V, DStart, h, s) = g[n] /\ Folded(V, DStart, h, s) \in V
    BY <1>1, <1>2, <2>2, FoldedIs
  <2> QED BY <2>7, <2>9, <2>10
<1>4. UrlScan(<<>>) = DStart
  BY <1>2, <1>3, FoldedEmpty
<1>5. ASSUME NEW s \in Seq(QChars), NEW x \in QChars
      PROVE  UrlScan(Append(s, x)) = DecodeChar(UrlScan(s), x)
  <2>1. Append(s, x) \in Seq(QChars)
    BY AppendProperties
  <2>2. Folded(V, DStart, h, Append(s, x)) = h[x][Folded(V, DStart, h, s)]
    BY <1>1, <1>2, FoldedAppend
  <2>3. UrlScan(Append(s, x)) = h[x][UrlScan(s)]
    BY <1>3, <2>1, <2>2
  <2> QED BY <1>3, <1>h, <2>3
<1> QED BY <1>4, <1>5

(* What has been decoded when a whole text has been read. *)
Decoded(s) == [at |-> "text", high |-> 0, val |-> s]

(* Three bytes of the encoding are read as one. *)
LEMMA TripleRead ==
  ASSUME NEW s \in Seq(QChars), NEW e \in Seq(QChars), UrlScan(e) = Decoded(s), NEW x \in Reserved
  PROVE  UrlScan(e \o Percented(x)) = Decoded(Append(s, x))
<1> DEFINE a == HexDigit(x \div 16)
           b == HexDigit(x % 16)
           e1 == Append(e, Percent)
           e2 == Append(e1, a)
           r1 == [at |-> "percent", high |-> 0, val |-> s]
           r2 == [at |-> "digit", high |-> a, val |-> s]
<1>1. a \in HexDigits /\ b \in HexDigits /\ 16 * HexValue(a) + HexValue(b) = x
  BY HexIsRead DEF Reserved
<1>2. a \in QChars /\ b \in QChars /\ Percent \in QChars /\ Percent \notin HexDigits
  <2>1. HexDigits \subseteq QChars
    BY DEF HexDigits, QChars
  <2>2. Percent \in QChars /\ Percent \notin HexDigits
    BY DEF Percent, HexDigits, QChars
  <2> HIDE DEF a, b
  <2> QED BY <1>1, <2>1, <2>2
<1> HIDE DEF a, b
<1>3. e1 \in Seq(QChars)
  BY <1>2, AppendProperties
<1>4. UrlScan(e1) = r1
  <2>1. UrlScan(e1) = DecodeChar(Decoded(s), Percent)
    BY <1>2, DecodeGrows
  <2>2. DecodeChar(Decoded(s), Percent) = r1
    BY <1>2 DEF DecodeChar, Decoded, Pending
  <2> QED BY <2>1, <2>2
<1>5. e \o Percented(x) = Append(Append(e1, a), b)
  <2>1. Percented(x) = <<Percent, a, b>>
    BY DEF Percented, a, b
  <2> QED BY <1>2, <2>1, TripleAtEnd
<1> HIDE DEF e1
<1>6. e2 \in Seq(QChars)
  BY <1>2, <1>3, AppendProperties
<1>7. UrlScan(e2) = r2
  <2>1. UrlScan(e2) = DecodeChar(r1, a)
    BY <1>2, <1>3, <1>4, DecodeGrows
  <2>2. DecodeChar(r1, a) = r2
    BY <1>1 DEF DecodeChar
  <2> QED BY <2>1, <2>2
<1> HIDE DEF e2
<1>8. UrlScan(Append(e2, b)) = DecodeChar(r2, b)
  BY <1>2, <1>6, <1>7, DecodeGrows
<1>9. DecodeChar(r2, b) = Decoded(Append(s, x))
  BY <1>1 DEF DecodeChar, Decoded
<1> QED BY <1>5, <1>8, <1>9 DEF e2

(* Decoding gives back what was encoded. *)
LEMMA UrlRoundTrip == \A s \in Seq(QChars) : UrlDecode(UrlEncode(s)) = s
<1> DEFINE T == {s \in Seq(QChars) : UrlScan(UrlEncode(s)) = Decoded(s)}
<1>0. Clean \subseteq QChars
  BY DEF Clean, QChars, Percent
<1>1. <<>> \in T
  BY EncodeGrows, DecodeGrows, EmptySeq DEF DStart, Decoded
<1>2. ASSUME NEW s \in Seq(QChars), s \in T, NEW x \in QChars PROVE Append(s, x) \in T
  <2> DEFINE e == UrlEncode(s)
             more == Decoded(Append(s, x))
  <2>1. e \in Seq(QChars) /\ UrlEncode(Append(s, x)) = e \o Percented(x)
    <3>1. e \in Seq(Clean)
      BY EncodeGrows
    <3> QED BY <1>0, <3>1, EncodeGrows, SeqMonotonic
  <2>2. UrlScan(e) = Decoded(s)
    BY <1>2
  <2>3. Append(s, x) \in Seq(QChars)
    BY AppendProperties
  <2> HIDE DEF e
  <2>4. UrlScan(e \o Percented(x)) = more
    <3>1. CASE x \notin Reserved
      <4>1. e \o Percented(x) = Append(e, x)
        BY <2>1, <3>1, AppendIsConcat DEF Percented
      <4>2. UrlScan(Append(e, x)) = DecodeChar(Decoded(s), x)
        BY <2>1, <2>2, DecodeGrows
      <4>3. x # Percent /\ x # Plus
        <5>1. Percent \in Reserved /\ Plus \in Reserved
          BY DEF Reserved, Byte, Unreserved, Percent, Plus
        <5> QED BY <3>1, <5>1
      <4>4. DecodeChar(Decoded(s), x) = more
        BY <4>3 DEF DecodeChar, Pending, Decoded
      <4> QED BY <4>1, <4>2, <4>4
    <3>2. CASE x \in Reserved
      BY <2>1, <2>2, <3>2, TripleRead
    <3> QED BY <3>1, <3>2
  <2> QED BY <2>1, <2>3, <2>4
<1> HIDE DEF T
<1>3. \A s \in Seq(QChars) : s \in T
  BY <1>1, <1>2, SeqInduction
<1> QED BY <1>3 DEF T, UrlDecode, Pending, Decoded

(* A character that is not reserved is its own encoding. *)
LEMMA PlainDecodes ==
  ASSUME NEW c \in QChars \ Reserved
  PROVE  UrlDecode(<<c>>) = <<c>>
<1>1. <<>> \in Seq(QChars) /\ <<c>> \in Seq(QChars)
  BY EmptySeq
<1>2. <<c>> = Append(<<>>, c)
  <2>1. Append(<<>>, c) = <<>> \o <<c>>
    BY <1>1, AppendIsConcat
  <2>2. <<>> \o <<c>> = <<c>>
    BY <1>1, ConcatEmptySeq
  <2> QED BY <2>1, <2>2
<1>3. UrlEncode(<<c>>) = <<>> \o Percented(c)
  BY <1>1, <1>2, EncodeGrows
<1>4. UrlEncode(<<c>>) = <<c>>
  BY <1>1, <1>3, ConcatEmptySeq DEF Percented
<1> QED BY <1>1, <1>4, UrlRoundTrip

-----------------------------------------------------------------------------
(* Joining and splitting. *)

Splits(S) == [parts : Seq(Seq(S)), last : Seq(S)]

SStart == [parts |-> <<>>, last |-> <<>>]

SplitStep(S, c) == [x \in S |-> [r \in Splits(S) |-> SplitAt(r, c, x)]]

(* What a character makes of the parts. *)
LEMMA SplitAtType ==
  ASSUME NEW S, NEW c, NEW r \in Splits(S), NEW x \in S
  PROVE  SplitAt(r, c, x) \in Splits(S)
<1>1. r.parts \in Seq(Seq(S)) /\ r.last \in Seq(S) /\ <<>> \in Seq(S)
  BY EmptySeq DEF Splits
<1>2. Append(r.parts, r.last) \in Seq(Seq(S)) /\ Append(r.last, x) \in Seq(S)
  BY <1>1, AppendProperties
<1> QED BY <1>1, <1>2 DEF SplitAt, Splits

(* What SplitScan makes of a text and of one character more. *)
LEMMA SplitGrows ==
  ASSUME NEW S, NEW c
  PROVE  /\ SplitScan(<<>>, c) = SStart
         /\ \A s \in Seq(S) : SplitScan(s, c) \in Splits(S)
         /\ \A s \in Seq(S), x \in S : SplitScan(Append(s, x), c) = SplitAt(SplitScan(s, c), c, x)
<1> DEFINE V == Splits(S)
           h == SplitStep(S, c)
<1>1. h \in [S -> [V -> V]]
  BY SplitAtType DEF SplitStep
<1>2. SStart \in V /\ <<>> \in Seq(S)
  <2>1. <<>> \in Seq(S) /\ <<>> \in Seq(Seq(S))
    BY EmptySeq
  <2> QED BY <2>1 DEF SStart, Splits
<1>h. \A x \in S, v \in V : h[x][v] = SplitAt(v, c, x)
  BY DEF SplitStep
<1> HIDE DEF V, h
<1>3. ASSUME NEW s \in Seq(S)
      PROVE  SplitScan(s, c) = Folded(V, SStart, h, s) /\ SplitScan(s, c) \in V
  <2> DEFINE n == Len(s)
  <2>1. n \in Nat /\ \A i \in 1..n : s[i] \in S
    BY LenProperties
  <2>2. PICK g \in [0..n -> V] : Steps(g, SStart, h, s)
    BY <1>1, <1>2, StepsExist
  <2>3. ASSUME NEW i \in 1..n PROVE g[i] = SplitAt(g[i - 1], c, s[i])
    <3>1. g[i - 1] \in V /\ s[i] \in S
      BY <2>1
    <3>2. h[s[i]][g[i - 1]] = SplitAt(g[i - 1], c, s[i])
      BY <1>h, <3>1
    <3> QED BY <2>2, <3>2 DEF Steps
  <2>4. g[0] = SStart
    BY <2>2 DEF Steps
  <2>5. g = [i \in 0..n |-> IF i = 0 THEN SStart ELSE SplitAt(g[i - 1], c, s[i])]
    BY <2>1, <2>3, <2>4
  <2> DEFINE f == CHOOSE at : at = [i \in 0..n |-> IF i = 0 THEN SStart ELSE SplitAt(at[i - 1], c, s[i])]
  <2>6. f = [i \in 0..n |-> IF i = 0 THEN SStart ELSE SplitAt(f[i - 1], c, s[i])]
    BY <2>5
  <2>7. SplitScan(s, c) = f[n]
    BY DEF SplitScan, SStart
  <2> HIDE DEF f
  <2>8. Alike(f, g, n)
    BY <2>1, <2>3, <2>4, <2>6 DEF Alike
  <2>9. f[n] = g[n]
    <3> HIDE DEF n
    <3> QED BY <2>1, <2>8, SameSteps
  <2>10. Folded(V, SStart, h, s) = g[n] /\ Folded(V, SStart, h, s) \in V
    BY <1>1, <1>2, <2>2, FoldedIs
  <2> QED BY <2>7, <2>9, <2>10
<1>4. SplitScan(<<>>, c) = SStart
  BY <1>2, <1>3, FoldedEmpty
<1>5. ASSUME NEW s \in Seq(S), NEW x \in S
      PROVE  SplitScan(Append(s, x), c) = SplitAt(SplitScan(s, c), c, x)
  <2>1. Append(s, x) \in Seq(S)
    BY AppendProperties
  <2>2. Folded(V, SStart, h, Append(s, x)) = h[x][Folded(V, SStart, h, s)]
    BY <1>1, <1>2, FoldedAppend
  <2>3. SplitScan(Append(s, x), c) = h[x][SplitScan(s, c)]
    BY <1>3, <2>1, <2>2
  <2> QED BY <1>3, <1>h, <2>3
<1> QED BY <1>3, <1>4, <1>5 DEF V

(* What p adds to the parts of s when it has no separator. *)
Adds(s, p, c) ==
  /\ SplitScan(s \o p, c).parts = SplitScan(s, c).parts
  /\ SplitScan(s \o p, c).last = SplitScan(s, c).last \o p

(* A text without the separator goes into the last part. *)
LEMMA SplitPlain ==
  ASSUME NEW S, NEW c, NEW s \in Seq(S), NEW q \in Seq(S \ {c})
  PROVE  Adds(s, q, c)
<1> DEFINE r == SplitScan(s, c)
           Then(p) == [parts |-> r.parts, last |-> r.last \o p]
           P == S \ {c}
           T == {p \in Seq(P) : SplitScan(s \o p, c) = Then(p)}
<1>0. r \in Splits(S) /\ r.last \in Seq(S)
  <2>1. r \in Splits(S)
    BY SplitGrows
  <2> QED BY <2>1 DEF Splits
<1>g. \A v \in Seq(S), y \in S : SplitScan(Append(v, y), c) = SplitAt(SplitScan(v, c), c, y)
  BY SplitGrows
<1>1. <<>> \in T
  <2>1. <<>> \in Seq(P)
    BY EmptySeq
  <2>2. s \o <<>> = s /\ r.last \o <<>> = r.last
    BY <1>0, ConcatEmptySeq
  <2>3. r = [parts |-> r.parts, last |-> r.last]
    BY <1>0 DEF Splits
  <2> QED BY <2>1, <2>2, <2>3
<1>2. ASSUME NEW p \in Seq(P), p \in T, NEW x \in P PROVE Append(p, x) \in T
  <2>1. Append(p, x) \in Seq(P) /\ p \in Seq(S) /\ x \in S /\ <<x>> \in Seq(S)
    <3>1. P \subseteq S
      OBVIOUS
    <3> HIDE DEF P
    <3> QED BY <3>1, AppendProperties, SeqMonotonic
  <2>2. SplitScan(s \o p, c) = Then(p)
    BY <1>2
  <2>3. s \o Append(p, x) = Append(s \o p, x) /\ r.last \o Append(p, x) = Append(r.last \o p, x)
    <3> HIDE DEF r
    <3>1. Append(p, x) = p \o <<x>>
      BY <2>1, AppendIsConcat
    <3>2. s \o p \in Seq(S) /\ r.last \o p \in Seq(S)
      BY <1>0, <2>1, ConcatProperties
    <3>3. Append(s \o p, x) = (s \o p) \o <<x>> /\ Append(r.last \o p, x) = (r.last \o p) \o <<x>>
      BY <2>1, <3>2, AppendIsConcat
    <3>4. (s \o p) \o <<x>> = s \o (p \o <<x>>)
      BY <2>1, ConcatAssociative
    <3> DEFINE l == r.last
               e == <<x>>
    <3>5. l \in Seq(S) /\ e \in Seq(S)
      BY <1>0, <2>1
    <3> HIDE DEF l, e
    <3>6. (l \o p) \o e = l \o (p \o e)
      BY <2>1, <3>5, ConcatAssociative
    <3> QED BY <3>1, <3>3, <3>4, <3>6 DEF l, e
  <2>4. SplitScan(Append(s \o p, x), c) = SplitAt(SplitScan(s \o p, c), c, x)
    <3> DEFINE u == s \o p
    <3>1. u \in Seq(S) /\ x \in S
      BY <2>1, ConcatProperties
    <3> HIDE DEF u
    <3>2. SplitScan(Append(u, x), c) = SplitAt(SplitScan(u, c), c, x)
      BY <1>g, <3>1
    <3> QED BY <3>2 DEF u
  <2>5. SplitAt(Then(p), c, x) = [parts |-> r.parts, last |-> Append(r.last \o p, x)]
    <3> HIDE DEF r
    <3> QED BY DEF SplitAt
  <2>6. SplitScan(s \o Append(p, x), c) = Then(Append(p, x))
    BY <2>2, <2>3, <2>4, <2>5
  <2> QED BY <2>1, <2>6
<1> HIDE DEF T
<1>3. \A p \in Seq(P) : p \in T
  <2> HIDE DEF P
  <2> QED BY <1>1, <1>2, SeqInduction
<1>4. SplitScan(s \o q, c) = Then(q)
  BY <1>3 DEF T
<1> DEFINE u == SplitScan(s \o q, c)
<1> HIDE DEF u
<1>5. u.parts = r.parts /\ u.last = r.last \o q
  BY <1>4 DEF u
<1> QED BY <1>5 DEF Adds, u

(* What is joined of the first i parts. *)
LEMMA JoinedIs ==
  ASSUME NEW S, NEW c \in S, NEW parts \in Seq(Seq(S)), Len(parts) > 0
  PROVE  LET out == Joined(parts, c) IN
         /\ out[1] = parts[1]
         /\ \A i \in 1..Len(parts) : out[i] \in Seq(S)
         /\ \A i \in 2..Len(parts) : out[i] = (out[i - 1] \o <<c>>) \o parts[i]
<1> DEFINE n == Len(parts)
           V == Seq(S)
           next(i, v) == IF i = 1 THEN parts[1] ELSE (v \o <<c>>) \o parts[i]
           h == [i \in Nat |-> [v \in V |-> IF i \in 1..n THEN next(i, v) ELSE v]]
<1>1. n \in Nat \ {0} /\ \A i \in 1..n : parts[i] \in V
  BY LenProperties
<1>2. h \in [Nat -> [V -> V]] /\ <<>> \in V
  <2>1. <<>> \in V /\ <<c>> \in V
    BY EmptySeq
  <2> HIDE DEF n
  <2>2. ASSUME NEW i \in 1..n, NEW v \in V PROVE next(i, v) \in V
    <3>1. 1 \in 1..n
      BY <1>1
    <3>2. v \o <<c>> \in V
      BY <2>1, ConcatProperties
    <3>3. (v \o <<c>>) \o parts[i] \in V
      BY <1>1, <3>2, ConcatProperties
    <3> QED BY <1>1, <3>1, <3>3
  <2> HIDE DEF V, next
  <2> QED BY <2>1, <2>2
<1>h. \A i \in 1..n, v \in V : h[i][v] = next(i, v)
  BY <1>1
<1> HIDE DEF V, h, n, next
<1>3. PICK g \in [0..n -> V] : Iterates(g, <<>>, h, n)
  BY <1>1, <1>2, Recursion
<1>4. \A i \in 1..n : g[i] = next(i, g[i - 1])
  <2> SUFFICES ASSUME NEW i \in 1..n PROVE g[i] = next(i, g[i - 1])
    OBVIOUS
  <2>1. g[i - 1] \in V
    BY <1>1
  <2> QED BY <1>3, <1>h, <2>1 DEF Iterates
<1>5. g[0] = <<>>
  BY <1>3 DEF Iterates
<1> DEFINE Out(f) == [i \in 0..n |-> IF i = 0 THEN <<>> ELSE IF i = 1 THEN parts[1]
                                     ELSE (f[i - 1] \o <<c>>) \o parts[i]]
<1>6. g = Out(g)
  <2>1. ASSUME NEW i \in 0..n
        PROVE  g[i] = IF i = 0 THEN <<>> ELSE next(i, g[i - 1])
    <3>1. i = 0 \/ (i # 0 /\ i \in 1..n)
      BY <1>1
    <3> QED BY <1>4, <1>5, <3>1
  <2>2. g = [i \in 0..n |-> IF i = 0 THEN <<>> ELSE next(i, g[i - 1])]
    BY <2>1
  <2> QED BY <2>2 DEF next
<1> DEFINE f == Joined(parts, c)
<1>7. f = Out(f)
  BY <1>6 DEF Joined, n
<1> HIDE DEF f
<1>8. f[0] = <<>> /\ \A i \in 1..n : f[i] = next(i, f[i - 1])
  <2>1. 0 \in 0..n /\ \A i \in 1..n : i \in 0..n /\ i # 0
    BY <1>1
  <2> QED BY <1>7, <2>1, Zenon DEF next
<1>9. Alike(f, g, n)
  BY <1>4, <1>5, <1>8 DEF Alike
<1>10. \A i \in 0..n : f[i] = g[i]
  BY <1>1, <1>9, SameSteps
<1>11. \A i \in 1..n : f[i] \in V
  BY <1>1, <1>10
<1>12. f[1] = parts[1]
  <2>1. 1 \in 1..n
    BY <1>1
  <2> QED BY <1>8, <2>1 DEF next
<1>13. \A i \in 2..n : f[i] = (f[i - 1] \o <<c>>) \o parts[i]
  <2>1. \A i \in 2..n : i \in 1..n /\ i # 1
    BY <1>1
  <2> QED BY <1>8, <2>1 DEF next
<1> QED BY <1>11, <1>12, <1>13 DEF f, n, V

(* Splitting gives back what was joined. *)
LEMMA SplitOfJoin ==
  ASSUME NEW S, NEW c \in S, NEW parts \in Seq(Seq(S \ {c})), Len(parts) > 0
  PROVE  Split(Join(parts, c), c) = parts
<1> DEFINE P == S \ {c}
           n == Len(parts)
           out == Joined(parts, c)
           Done(i) == /\ SplitScan(out[i], c).parts = SubSeq(parts, 1, i - 1)
                      /\ SplitScan(out[i], c).last = parts[i]
           T == {k \in Nat : k + 1 <= n => Done(k + 1)}
<1>1. n \in Nat \ {0} /\ \A i \in 1..n : parts[i] \in Seq(P)
  BY LenProperties
<1>2. P \subseteq S /\ parts \in Seq(Seq(S))
  <2>1. Seq(P) \subseteq Seq(S)
    BY SeqMonotonic
  <2> HIDE DEF P
  <2> QED BY <2>1, SeqMonotonic DEF P
<1>3. /\ out[1] = parts[1]
      /\ \A i \in 1..n : out[i] \in Seq(S)
      /\ \A i \in 2..n : out[i] = (out[i - 1] \o <<c>>) \o parts[i]
  BY <1>2, JoinedIs
<1> HIDE DEF n, out
<1>4. 0 \in T
  <2>1. 1 \in 1..n /\ 0 + 1 = 1 /\ 1 - 1 = 0
    BY <1>1
  <2>2. <<>> \in Seq(S) /\ <<>> \o parts[1] = parts[1]
    BY <1>1, <2>1, EmptySeq, ConcatEmptySeq
  <2>3. SplitScan(<<>>, c) = SStart
    BY SplitGrows
  <2> DEFINE e == <<>>
             p == parts[1]
             r == SplitScan(e, c)
  <2>4. e \in Seq(S) /\ p \in Seq(P) /\ e \o p = p /\ r.parts = <<>> /\ r.last = e
    BY <1>1, <2>1, <2>2, <2>3 DEF SStart
  <2> HIDE DEF e, p
  <2>5. Adds(e, p, c)
    BY <2>4, SplitPlain
  <2>6. SplitScan(p, c).parts = <<>> /\ SplitScan(p, c).last = p
    BY <2>4, <2>5 DEF Adds
  <2>7. SubSeq(parts, 1, 0) = <<>>
    BY SubSeqEmpty
  <2>8. Done(1)
    BY <1>3, <2>1, <2>6, <2>7 DEF p
  <2> HIDE DEF Done
  <2> QED BY <2>1, <2>8
<1>5. ASSUME NEW k \in Nat, k \in T PROVE k + 1 \in T
  <2> DEFINE i == k + 1
             j == i + 1
  <2> SUFFICES ASSUME j <= n PROVE Done(j)
    OBVIOUS
  <2>1. i \in 1..n /\ j \in 2..n /\ j - 1 = i /\ j \in 1..n /\ i \in Nat /\ 1 <= i /\ 1 \in 1..n
    BY <1>1
  <2>2. Done(i)
    <3> HIDE DEF Done
    <3> QED BY <1>5, <2>1
  <2> HIDE DEF i, j
  <2> DEFINE a == out[i]
  <2>3. a \in Seq(S) /\ out[j] = (a \o <<c>>) \o parts[j]
    BY <1>3, <2>1
  <2> DEFINE r == SplitScan(a, c)
  <2>4. r.parts = SubSeq(parts, 1, i - 1) /\ r.last = parts[i]
    BY <2>2 DEF a
  <2> HIDE DEF a
  <2>5. a \o <<c>> = Append(a, c) /\ Append(a, c) \in Seq(S)
    BY <2>3, AppendIsConcat, AppendProperties
  <2>6. SplitScan(Append(a, c), c) = SplitAt(r, c, c)
    BY <2>3, SplitGrows
  <2> HIDE DEF r
  <2>7. Append(SubSeq(parts, 1, i - 1), parts[i]) = SubSeq(parts, 1, i)
    <3>1. SubSeq(parts, 1, i) = SubSeq(parts, 1, i - 1) \o <<parts[i]>>
      BY <2>1, SubSeqRecursiveSecond DEF n
    <3>2. SubSeq(parts, 1, i - 1) \in Seq(Seq(P))
      <4>1. i - 1 \in Nat /\ 1 \in Nat /\ 1 <= 1 /\ 1 <= (i - 1) + 1 /\ i - 1 <= n
        BY <1>1, <2>1
      <4> QED BY <4>1, SubSeqPart DEF n
    <3>3. parts[i] \in Seq(P)
      BY <1>1, <2>1
    <3> QED BY <3>1, <3>2, <3>3, AppendIsConcat
  <2>8. SplitAt(r, c, c) = [parts |-> SubSeq(parts, 1, i), last |-> <<>>]
    BY <2>4, <2>7 DEF SplitAt
  <2> DEFINE b == Append(a, c)
             q == SplitScan(b, c)
             p == parts[j]
  <2>9. b \in Seq(S) /\ q.parts = SubSeq(parts, 1, i) /\ q.last = <<>> /\ out[j] = b \o p
    <3>1. b \in Seq(S) /\ out[j] = b \o p
      BY <2>3, <2>5
    <3>2. q = [parts |-> SubSeq(parts, 1, i), last |-> <<>>]
      BY <2>6, <2>8
    <3> HIDE DEF q
    <3>3. q.parts = SubSeq(parts, 1, i) /\ q.last = <<>>
      BY <3>2
    <3> QED BY <3>1, <3>3 DEF q
  <2> HIDE DEF b
  <2>10. p \in Seq(P)
    BY <1>1, <2>1
  <2> HIDE DEF p
  <2>11. Adds(b, p, c)
    BY <2>9, <2>10, SplitPlain
  <2>12. <<>> \o p = p
    BY <2>10, ConcatEmptySeq
  <2>13. SplitScan(b \o p, c).parts = SubSeq(parts, 1, i) /\ SplitScan(b \o p, c).last = p
    BY <2>9, <2>11, <2>12 DEF Adds
  <2> QED BY <2>1, <2>9, <2>13 DEF p
<1> HIDE DEF T
<1>6. n - 1 \in T /\ n - 1 \in Nat /\ (n - 1) + 1 = n /\ n \in 1..n /\ 1 \in 1..n /\ 1 <= n
  <2>1. \A k \in Nat : k \in T
    BY <1>4, <1>5, Induction
  <2> QED BY <1>1, <2>1
<1>7. Done(n)
  <2> DEFINE m == n - 1
  <2>1. m \in T /\ m + 1 = n /\ m + 1 <= n
    BY <1>1, <1>6
  <2> HIDE DEF m, Done
  <2> QED BY <2>1 DEF T
<1>8. Split(out[n], c) = Append(SubSeq(parts, 1, n - 1), parts[n])
  BY <1>7, Zenon DEF Split
<1>9. Append(SubSeq(parts, 1, n - 1), parts[n]) = SubSeq(parts, 1, n)
  <2>1. SubSeq(parts, 1, n) = SubSeq(parts, 1, n - 1) \o <<parts[n]>>
    BY <1>6, SubSeqRecursiveSecond DEF n
  <2>2. SubSeq(parts, 1, n - 1) \in Seq(Seq(P))
    <3>1. n - 1 \in Nat /\ 1 \in Nat /\ 1 <= 1 /\ 1 <= (n - 1) + 1 /\ n - 1 <= n
      BY <1>1
    <3> QED BY <3>1, SubSeqPart DEF n
  <2>3. parts[n] \in Seq(P)
    BY <1>1, <1>6
  <2> QED BY <2>1, <2>2, <2>3, AppendIsConcat
<1>10. SubSeq(parts, 1, n) = parts
  BY SubSeqFull DEF n
<1>11. Join(parts, c) = out[n]
  BY DEF Join, out, n
<1> QED BY <1>8, <1>9, <1>10, <1>11

(* Joining characters of S gives a text over S. *)
LEMMA JoinType ==
  ASSUME NEW S, NEW c \in S, NEW parts \in Seq(Seq(S)), Len(parts) > 0
  PROVE  Join(parts, c) \in Seq(S)
<1>1. Len(parts) \in 1..Len(parts)
  BY LenProperties
<1>2. \A i \in 1..Len(parts) : Joined(parts, c)[i] \in Seq(S)
  BY JoinedIs
<1> QED BY <1>1, <1>2 DEF Join

(* Joining and splitting nothing. *)
LEMMA SplitOfNothing ==
  ASSUME NEW c
  PROVE  Join(<<>>, c) = <<>> /\ Split(<<>>, c) = <<<<>>>>
<1>1. SplitScan(<<>>, c) = SStart
  BY SplitGrows
<1>2. Split(<<>>, c) = Append(<<>>, <<>>)
  <2> DEFINE e == <<>>
             r == SplitScan(e, c)
  <2>1. r.parts = e /\ r.last = e
    BY <1>1 DEF SStart
  <2> HIDE DEF e
  <2> QED BY <2>1, Zenon DEF Split, e
<1>3. Append(<<>>, <<>>) = <<<<>>>>
  <2>1. <<>> \in Seq({<<>>}) /\ <<>> \in {<<>>} /\ <<<<>>>> \in Seq({<<>>})
    BY EmptySeq
  <2>2. Append(<<>>, <<>>) = <<>> \o <<<<>>>>
    BY <2>1, AppendIsConcat
  <2>3. <<>> \o <<<<>>>> = <<<<>>>>
    BY <2>1, ConcatEmptySeq
  <2> QED BY <2>2, <2>3
<1>4. Len(<<>>) = 0
  OBVIOUS
<1> DEFINE Out(f) == [i \in 0..0 |-> IF i = 0 THEN <<>> ELSE IF i = 1 THEN <<>>[1]
                                     ELSE (f[i - 1] \o <<c>>) \o <<>>[i]]
           g == [i \in 0..0 |-> <<>>]
           f == Joined(<<>>, c)
<1>5. g = Out(g)
  OBVIOUS
<1>6. f = Out(f)
  BY <1>4, <1>5 DEF Joined
<1> HIDE DEF f
<1>7. f[0] = <<>>
  BY <1>6
<1> QED BY <1>2, <1>3, <1>4, <1>7 DEF Join, f

-----------------------------------------------------------------------------
(* Filtering. *)

KeepOne(r, K, x) == IF x \in K THEN Append(r, x) ELSE r

KeepStep(S, K) == [x \in S |-> [r \in Seq(S \cap K) |-> KeepOne(r, K, x)]]

(* What Keep makes of a sequence and of one element more. *)
LEMMA KeepGrows ==
  ASSUME NEW S, NEW K
  PROVE  /\ Keep(<<>>, K) = <<>>
         /\ \A s \in Seq(S) : Keep(s, K) \in Seq(S \cap K)
         /\ \A s \in Seq(S), x \in S : Keep(Append(s, x), K) = KeepOne(Keep(s, K), K, x)
<1> DEFINE V == Seq(S \cap K)
           h == KeepStep(S, K)
<1>1. h \in [S -> [V -> V]]
  <2> SUFFICES ASSUME NEW x \in S, NEW r \in V PROVE KeepOne(r, K, x) \in V
    BY DEF KeepStep
  <2> QED BY AppendProperties DEF KeepOne
<1>2. <<>> \in V /\ <<>> \in Seq(S)
  BY EmptySeq
<1>h. \A x \in S, v \in V : h[x][v] = KeepOne(v, K, x)
  BY DEF KeepStep
<1> HIDE DEF V, h
<1>3. ASSUME NEW s \in Seq(S)
      PROVE  Keep(s, K) = Folded(V, <<>>, h, s) /\ Keep(s, K) \in V
  <2> DEFINE n == Len(s)
             Out(f) == [i \in 0..n |-> IF i = 0 THEN <<>>
                                       ELSE IF s[i] \in K THEN Append(f[i - 1], s[i]) ELSE f[i - 1]]
  <2>1. n \in Nat /\ \A i \in 1..n : s[i] \in S
    BY LenProperties
  <2>2. PICK g \in [0..n -> V] : Steps(g, <<>>, h, s)
    BY <1>1, <1>2, StepsExist
  <2>3. ASSUME NEW i \in 1..n PROVE g[i] = KeepOne(g[i - 1], K, s[i])
    <3>1. g[i - 1] \in V /\ s[i] \in S
      BY <2>1
    <3>2. h[s[i]][g[i - 1]] = KeepOne(g[i - 1], K, s[i])
      BY <1>h, <3>1
    <3> QED BY <2>2, <3>2 DEF Steps
  <2>4. g[0] = <<>>
    BY <2>2 DEF Steps
  <2>5. g = Out(g)
    <3>1. ASSUME NEW i \in 0..n
          PROVE  g[i] = IF i = 0 THEN <<>> ELSE KeepOne(g[i - 1], K, s[i])
      <4>1. i = 0 \/ (i # 0 /\ i \in 1..n)
        BY <2>1
      <4> QED BY <2>3, <2>4, <4>1
    <3>2. g = [i \in 0..n |-> IF i = 0 THEN <<>> ELSE KeepOne(g[i - 1], K, s[i])]
      BY <3>1
    <3> QED BY <3>2 DEF KeepOne
  <2> DEFINE f == CHOOSE kept : kept = Out(kept)
  <2>6. f = Out(f)
    BY <2>5
  <2>7. Keep(s, K) = f[n]
    BY DEF Keep
  <2> HIDE DEF f
  <2>8. Alike(f, g, n)
    <3>1. f = [i \in 0..n |-> IF i = 0 THEN <<>> ELSE KeepOne(f[i - 1], K, s[i])]
      BY <2>6 DEF KeepOne
    <3>2. f[0] = <<>> /\ \A i \in 1..n : f[i] = KeepOne(f[i - 1], K, s[i])
      <4>1. 0 \in 0..n /\ \A i \in 1..n : i \in 0..n /\ i # 0
        BY <2>1
      <4> QED BY <3>1, <4>1, Zenon
    <3> QED BY <2>3, <2>4, <3>2 DEF Alike
  <2>9. f[n] = g[n]
    <3> HIDE DEF n
    <3> QED BY <2>1, <2>8, SameSteps
  <2>10. Folded(V, <<>>, h, s) = g[n] /\ Folded(V, <<>>, h, s) \in V
    BY <1>1, <1>2, <2>2, FoldedIs
  <2> QED BY <2>7, <2>9, <2>10
<1>4. Keep(<<>>, K) = <<>>
  BY <1>2, <1>3, FoldedEmpty
<1>5. ASSUME NEW s \in Seq(S), NEW x \in S
      PROVE  Keep(Append(s, x), K) = KeepOne(Keep(s, K), K, x)
  <2>1. Append(s, x) \in Seq(S)
    BY AppendProperties
  <2>2. Folded(V, <<>>, h, Append(s, x)) = h[x][Folded(V, <<>>, h, s)]
    BY <1>1, <1>2, FoldedAppend
  <2>3. Keep(Append(s, x), K) = h[x][Keep(s, K)]
    BY <1>3, <2>1, <2>2
  <2> QED BY <1>3, <1>h, <2>3
<1> QED BY <1>3, <1>4, <1>5 DEF V

(* All of a sequence over K is kept. *)
LEMMA KeepAll ==
  ASSUME NEW K, NEW s \in Seq(K)
  PROVE  Keep(s, K) = s
<1> DEFINE T == {t \in Seq(K) : Keep(t, K) = t}
<1>1. <<>> \in T
  BY KeepGrows, EmptySeq
<1>g. \A t \in Seq(K), x \in K : Keep(Append(t, x), K) = KeepOne(Keep(t, K), K, x)
  BY KeepGrows
<1>2. ASSUME NEW t \in Seq(K), t \in T, NEW x \in K PROVE Append(t, x) \in T
  <2>1. Append(t, x) \in Seq(K) /\ Keep(t, K) = t
    BY <1>2, AppendProperties
  <2>2. Keep(Append(t, x), K) = KeepOne(t, K, x)
    BY <1>g, <2>1
  <2> QED BY <2>1, <2>2 DEF KeepOne
<1> HIDE DEF T
<1>3. \A t \in Seq(K) : t \in T
  BY <1>1, <1>2, SeqInduction
<1> QED BY <1>3 DEF T

(* Nothing is kept of one element that is not in K. *)
LEMMA KeepNone ==
  ASSUME NEW K, NEW x, x \notin K
  PROVE  Keep(<<x>>, K) = <<>>
<1>1. <<>> \in Seq({x}) /\ x \in {x} /\ <<x>> \in Seq({x})
  BY EmptySeq
<1>2. Append(<<>>, x) = <<>> \o <<x>> /\ <<>> \o <<x>> = <<x>>
  BY <1>1, AppendIsConcat, ConcatEmptySeq
<1>g. \A t \in Seq({x}), y \in {x} : Keep(Append(t, y), K) = KeepOne(Keep(t, K), K, y)
  BY KeepGrows
<1>3. Keep(<<>>, K) = <<>>
  BY KeepGrows
<1> DEFINE e == <<>>
<1> HIDE DEF e
<1>4. Keep(Append(e, x), K) = KeepOne(Keep(e, K), K, x)
  BY <1>1, <1>g DEF e
<1>5. KeepOne(Keep(e, K), K, x) = Keep(e, K)
  BY DEF KeepOne
<1>6. Append(e, x) = <<x>>
  BY <1>2 DEF e
<1> QED BY <1>3, <1>4, <1>5, <1>6 DEF e

-----------------------------------------------------------------------------
(* Cutting. *)

(* A part is what it has, one after the other. *)
LEMMA PartIs ==
  ASSUME NEW S, NEW s \in Seq(S), NEW m \in Nat, NEW n \in Nat, 1 <= m, m <= n + 1, n <= Len(s),
         NEW t \in Seq(S), Len(t) = n - m + 1, \A i \in 1..Len(t) : t[i] = s[m + i - 1]
  PROVE  SubSeq(s, m, n) = t
<1> DEFINE p == SubSeq(s, m, n)
<1>1. p \in Seq(S) /\ IsPart(p, s, m, n)
  BY SubSeqPart
<1> HIDE DEF p
<1>2. Len(p) = Len(t) /\ \A i \in 1..Len(p) : p[i] = t[i]
  BY <1>1 DEF IsPart
<1>3. p = t
  BY <1>1, <1>2, SeqEqual
<1> QED BY <1>3 DEF p

(* Where the first character of C stands. *)
LEMMA FirstIs ==
  ASSUME NEW S, NEW s \in Seq(S), NEW C, NEW m \in 1..(Len(s) + 1),
         m <= Len(s) => s[m] \in C, \A i \in 1..(m - 1) : s[i] \notin C
  PROVE  First(s, C) = m
<1> DEFINE n == Len(s)
           at == {i \in DOMAIN s : s[i] \in C} \cup {n + 1}
<1>1. n \in Nat /\ DOMAIN s = 1..n
  BY LenProperties
<1> HIDE DEF n
<1>2. m \in 1..(n + 1) /\ (m <= n => s[m] \in C)
  BY DEF n
<1>3. m \in at
  <2>1. m \in 1..n \/ m = n + 1
    BY <1>1, <1>2
  <2>2. m \in 1..n => m <= n
    BY <1>1
  <2> QED BY <1>1, <1>2, <2>1, <2>2
<1>4. ASSUME NEW i \in at PROVE m <= i
  <2>1. (i \in 1..n /\ s[i] \in C) \/ i = n + 1
    BY <1>1
  <2>2. i \in 1..n => i \in 1..(m - 1) \/ m <= i
    BY <1>1, <1>2
  <2>3. i = n + 1 => m <= i
    BY <1>1, <1>2
  <2> QED BY <2>1, <2>2, <2>3
<1>5. at \subseteq Int
  BY <1>1
<1>6. First(s, C) = CHOOSE i \in at : \A j \in at : i <= j
  BY DEF First, n
<1> HIDE DEF at
<1>7. \A i \in at : (\A j \in at : i <= j) => i = m
  BY <1>2, <1>3, <1>4, <1>5
<1> QED BY <1>3, <1>4, <1>6, <1>7

(* A text without a character of C is not cut. *)
LEMMA CutNowhere ==
  ASSUME NEW S, NEW C, NEW s \in Seq(S), \A i \in 1..Len(s) : s[i] \notin C
  PROVE  Before(s, C) = s
<1> DEFINE n == Len(s)
<1>1. n \in Nat /\ n + 1 \in 1..(n + 1) /\ ~(n + 1 <= n) /\ (n + 1) - 1 = n
  BY LenProperties
<1>2. First(s, C) = n + 1
  BY <1>1, FirstIs
<1>3. SubSeq(s, 1, n) = s
  <2>1. /\ 1 \in Nat /\ 1 <= 1 /\ 1 <= n + 1 /\ n <= Len(s) /\ Len(s) = n - 1 + 1
        /\ \A i \in 1..Len(s) : 1 + i - 1 = i
    BY <1>1
  <2>2. \A i \in 1..Len(s) : s[i] = s[1 + i - 1]
    BY <2>1
  <2> HIDE DEF n
  <2> QED BY <1>1, <2>1, <2>2, PartIs
<1> HIDE DEF n
<1> QED BY <1>1, <1>2, <1>3 DEF Before

(* What stands before and after the first character of C. *)
Sides(s, C, a, v) == Before(s, C) = a /\ After(s, C) = v

(* A text that is made of them has them. *)
LEMMA SidesOfCut ==
  ASSUME NEW S, NEW C, NEW a \in Seq(S \ C), NEW c \in S \cap C, NEW v \in Seq(S)
  PROVE  Sides((a \o <<c>>) \o v, C, a, v)
<1> DEFINE b == a \o <<c>>
           s == b \o v
           k == Len(a)
           m == Len(v)
<1>1. a \in Seq(S) /\ <<c>> \in Seq(S) /\ k \in Nat /\ m \in Nat /\ Len(<<c>>) = 1 /\ <<c>>[1] = c
  <2>1. S \ C \subseteq S /\ c \in S
    OBVIOUS
  <2>2. a \in Seq(S)
    BY <2>1, SeqMonotonic
  <2> QED BY <2>1, <2>2, LenProperties
<1>2. \A i \in 1..k : a[i] \notin C
  BY LenProperties
<1>3. b \in Seq(S) /\ Joins(b, a, <<c>>)
  BY <1>1, ConcatParts
<1> HIDE DEF b
<1>4. Len(b) = k + 1 /\ b[k + 1] = c /\ \A i \in 1..k : b[i] = a[i]
  <2>1. 1 \in 1..1
    OBVIOUS
  <2> QED BY <1>1, <1>3, <2>1 DEF Joins
<1>5. s \in Seq(S) /\ Joins(s, b, v)
  BY <1>3, ConcatParts
<1> HIDE DEF s
<1>6. /\ Len(s) = k + 1 + m /\ s[k + 1] = c /\ \A i \in 1..k : s[i] = a[i]
      /\ \A i \in 1..m : s[k + 1 + i] = v[i]
  <2>1. k + 1 \in 1..(k + 1) /\ \A i \in 1..k : i \in 1..(k + 1)
    BY <1>1
  <2> QED BY <1>4, <1>5, <2>1 DEF Joins
<1> HIDE DEF k, m
<1>7. First(s, C) = k + 1
  <2>1. k + 1 \in 1..(Len(s) + 1) /\ (k + 1) - 1 = k
    BY <1>1, <1>6
  <2>2. s[k + 1] \in C /\ \A i \in 1..((k + 1) - 1) : s[i] \notin C
    BY <1>2, <1>6, <2>1 DEF k
  <2> QED BY <1>5, <2>1, <2>2, FirstIs
<1>8. SubSeq(s, 1, (k + 1) - 1) = a
  <2>1. /\ 1 \in Nat /\ k \in Nat /\ 1 <= 1 /\ 1 <= k + 1 /\ k <= Len(s) /\ Len(a) = k - 1 + 1
        /\ (k + 1) - 1 = k /\ \A i \in 1..Len(a) : 1 + i - 1 = i /\ i \in 1..k
    BY <1>1, <1>6 DEF k
  <2>2. \A i \in 1..Len(a) : a[i] = s[1 + i - 1]
    BY <1>6, <2>1
  <2>3. SubSeq(s, 1, k) = a
    BY <1>1, <1>5, <2>1, <2>2, PartIs
  <2> QED BY <2>1, <2>3
<1>9. SubSeq(s, (k + 1) + 1, Len(s)) = v
  <2> DEFINE l == (k + 1) + 1
             n == Len(s)
  <2>1. /\ l \in Nat /\ n \in Nat /\ 1 <= l /\ l <= n + 1 /\ n <= Len(s) /\ Len(v) = n - l + 1
        /\ \A i \in 1..Len(v) : l + i - 1 = k + 1 + i /\ i \in 1..m
    BY <1>1, <1>6 DEF m
  <2> HIDE DEF l, n
  <2>2. \A i \in 1..Len(v) : v[i] = s[l + i - 1]
    BY <1>6, <2>1
  <2>3. SubSeq(s, l, n) = v
    BY <1>5, <2>1, <2>2, PartIs
  <2> QED BY <2>3 DEF l, n
<1> QED BY <1>7, <1>8, <1>9 DEF Sides, Before, After, s, b

-----------------------------------------------------------------------------
(* Hosts. *)

(* The words are numbers above the bytes. *)
LEMMA WordsAre ==
  /\ Word.v = 256 /\ Word.id = 257 /\ Word.pk = 258 /\ Word.nm = 259 /\ Word.hosts = 260
  /\ Word.tok = 261 /\ Word.airclip = 262 /\ Word.pair = 263 /\ Word.port = 264
  /\ Word.pk1 = 265 /\ Word.pk2 = 266 /\ Word.id1 = 267 /\ Word.id2 = 268
  /\ Word.token = 269 /\ Word.malformed = 270 /\ Word.other = 271
BY DEF Word

Ifaces == [ip : Seq(Nat \ {Comma}), kind : STRING]
NoComma == QChars \ {Comma}

(* The interfaces whose addresses are offered. *)
Offered(ifaces) == OfKind(ifaces, "v4") \o OfKind(ifaces, "v6")

(* What is offered is of an interface that is there, and of a kind that a  *)
(* phone can reach.                                                        *)
LEMMA OfferedType ==
  ASSUME NEW ifaces \in Seq(Ifaces)
  PROVE  Offered(ifaces) \in Seq({f \in Range(ifaces) : f.kind \in {"v4", "v6"}})
<1> DEFINE All == {f \in Range(ifaces) : f.kind \in {"v4", "v6"}}
           R == Range(ifaces)
<1>1. ifaces \in Seq(R)
  <2> DEFINE n == Len(ifaces)
  <2>1. n \in Nat /\ ifaces \in [1..n -> Ifaces] /\ DOMAIN ifaces = 1..n
    BY LenProperties
  <2> HIDE DEF n
  <2>2. ifaces \in [1..n -> R]
    BY <2>1 DEF Range
  <2> HIDE DEF R
  <2> QED BY <2>1, <2>2
<1>2. ASSUME NEW kind \in {"v4", "v6"} PROVE OfKind(ifaces, kind) \in Seq(All)
  <2> DEFINE K == {f \in R : f.kind = kind}
  <2>1. R \cap K \subseteq All
    OBVIOUS
  <2>2. OfKind(ifaces, kind) = Keep(ifaces, K)
    BY DEF OfKind
  <2> HIDE DEF K, R, All
  <2>3. Keep(ifaces, K) \in Seq(R \cap K)
    BY <1>1, KeepGrows
  <2> QED BY <2>1, <2>2, <2>3, SeqMonotonic
<1> DEFINE a == OfKind(ifaces, "v4")
           b == OfKind(ifaces, "v6")
<1>3. a \in Seq(All) /\ b \in Seq(All)
  BY <1>2
<1> HIDE DEF a, b, All
<1>4. a \o b \in Seq(All)
  BY <1>3, ConcatProperties
<1> QED BY <1>4 DEF Offered, a, b, All

(* How an interface is written. *)
LEMMA HostIs ==
  ASSUME NEW f \in Ifaces
  PROVE  HostOf(f, Word.port) \in Seq(NoComma) \ {<<>>}
<1> DEFINE a == f.ip
           h == HostOf(f, Word.port)
           tail == <<Close, Colon, Word.port>>
           end == <<Colon, Word.port>>
           open == <<Open>>
<1>1. a \in Seq(NoComma)
  <2>1. Nat \ {Comma} \subseteq NoComma
    BY DEF NoComma, QChars
  <2>2. a \in Seq(Nat \ {Comma})
    BY DEF Ifaces
  <2> QED BY <2>1, <2>2, SeqMonotonic
<1>2. /\ open \in Seq(NoComma)
      /\ tail \in Seq(NoComma) /\ Len(tail) > 0
      /\ end \in Seq(NoComma) /\ Len(end) > 0
  <2>1. Open \in NoComma /\ Close \in NoComma /\ Colon \in NoComma /\ Word.port \in NoComma
    BY WordsAre DEF NoComma, QChars, Open, Close, Colon, Comma
  <2> DEFINE o == Open
             c == Close
             d == Colon
             w == Word.port
  <2>2. o \in NoComma /\ c \in NoComma /\ d \in NoComma /\ w \in NoComma
    BY <2>1
  <2> HIDE DEF o, c, d, w
  <2>3. /\ <<o>> \in Seq(NoComma)
        /\ <<c, d, w>> \in Seq(NoComma) /\ Len(<<c, d, w>>) > 0
        /\ <<d, w>> \in Seq(NoComma) /\ Len(<<d, w>>) > 0
    BY <2>2
  <2> QED BY <2>3 DEF o, c, d, w
<1>3. h = IF f.kind = "v6" THEN (open \o a) \o tail ELSE a \o end
  BY DEF HostOf
<1> HIDE DEF a, tail, end, open
<1>4. ASSUME NEW t \in Seq(NoComma), NEW u \in Seq(NoComma), Len(u) > 0
      PROVE  t \o u \in Seq(NoComma) \ {<<>>}
  <2>1. t \o u \in Seq(NoComma) /\ Joins(t \o u, t, u)
    BY ConcatParts
  <2>2. Len(t \o u) > 0
    <3>1. Len(t) \in Nat /\ Len(u) \in Nat
      BY LenProperties
    <3> QED BY <1>4, <2>1, <3>1 DEF Joins
  <2>3. Len(<<>>) = 0
    OBVIOUS
  <2> QED BY <2>1, <2>2, <2>3
<1>5. open \o a \in Seq(NoComma)
  BY <1>1, <1>2, ConcatProperties
<1>6. (open \o a) \o tail \in Seq(NoComma) \ {<<>>}
  BY <1>2, <1>4, <1>5
<1>7. a \o end \in Seq(NoComma) \ {<<>>}
  BY <1>1, <1>2, <1>4
<1> HIDE DEF h
<1>8. h \in Seq(NoComma) \ {<<>>}
  BY <1>3, <1>6, <1>7
<1> QED BY <1>8 DEF h

(* The hosts in a pairing code are read as they were written, and all of   *)
(* them resolve.                                                           *)
LEMMA HostsAre ==
  ASSUME NEW ifaces \in Seq(Ifaces)
  PROVE  LET hosts == LocalHosts(ifaces, Word.port)
             addrs == SocketAddrs(ifaces)
             dialled == Offered(ifaces)
         IN /\ hosts \in Seq(Seq(QChars)) /\ Join(hosts, Comma) \in Seq(QChars)
            /\ NotEmpty(Split(Join(hosts, Comma), Comma)) = hosts
            /\ ResolveHosts(hosts, addrs) = [i \in DOMAIN dialled |-> HostOf(dialled[i], Word.port)]
<1> DEFINE hosts == LocalHosts(ifaces, Word.port)
           addrs == SocketAddrs(ifaces)
           all == Offered(ifaces)
           n == Len(all)
           H == Seq(NoComma) \ {<<>>}
<1>1. n \in Nat /\ DOMAIN all = 1..n /\ \A i \in 1..n : all[i] \in Range(ifaces)
  <2>1. all \in Seq({f \in Range(ifaces) : f.kind \in {"v4", "v6"}})
    BY OfferedType
  <2> HIDE DEF all
  <2> QED BY <2>1, LenProperties
<1>2. \A f \in Range(ifaces) : f \in Ifaces /\ HostOf(f, Word.port) \in addrs
  <2>1. \A i \in DOMAIN ifaces : ifaces[i] \in Ifaces
    BY LenProperties
  <2> QED BY <2>1 DEF Range, SocketAddrs
<1>3. hosts = [i \in 1..n |-> HostOf(all[i], Word.port)]
  BY <1>1 DEF LocalHosts, Offered
<1> HIDE DEF hosts, all, n, addrs
<1>4. \A i \in 1..n : hosts[i] \in H /\ hosts[i] \in addrs
  BY <1>1, <1>2, <1>3, HostIs
<1>5. hosts \in [1..n -> H] /\ hosts \in [1..n -> addrs] /\ DOMAIN hosts = 1..n
  BY <1>3, <1>4
<1>6. hosts \in Seq(H) /\ hosts \in Seq(addrs) /\ Len(hosts) = n
  <2> HIDE DEF H
  <2> QED BY <1>1, <1>5
<1>types. hosts \in Seq(Seq(NoComma)) /\ hosts \in Seq(Seq(QChars))
  <2>1. H \subseteq Seq(NoComma)
    OBVIOUS
  <2>2. Seq(NoComma) \subseteq Seq(QChars)
    <3>1. NoComma \subseteq QChars
      BY DEF NoComma
    <3> QED BY <3>1, SeqMonotonic
  <2>3. hosts \in Seq(Seq(NoComma))
    <3> HIDE DEF H
    <3> QED BY <1>6, <2>1, SeqMonotonic
  <2>4. hosts \in Seq(Seq(QChars))
    BY <2>2, <2>3, SeqMonotonic
  <2> QED BY <2>3, <2>4
<1>7. ResolveHosts(hosts, addrs) = [i \in DOMAIN all |-> HostOf(all[i], Word.port)]
  <2>1. Keep(hosts, addrs) = hosts
    BY <1>6, KeepAll
  <2> QED BY <1>1, <1>3, <2>1 DEF ResolveHosts
<1>8. NotEmpty(hosts) = hosts
  <2> DEFINE K == Range(hosts) \ {<<>>}
  <2>1. hosts \in [1..n -> K]
    BY <1>4, <1>5 DEF Range
  <2> HIDE DEF K
  <2>2. hosts \in Seq(K)
    BY <1>1, <2>1
  <2>3. Keep(hosts, K) = hosts
    BY <2>2, KeepAll
  <2> QED BY <2>3 DEF NotEmpty, K
<1> DEFINE Good == Join(hosts, Comma) \in Seq(QChars) /\ NotEmpty(Split(Join(hosts, Comma), Comma)) = hosts
<1>9. ASSUME n = 0 PROVE Good
  <2>1. hosts = <<>>
    BY <1>6, <1>9, EmptySeq
  <2> DEFINE e == <<>>
             one == <<e>>
             K == Range(one) \ {e}
  <2>2. e \in Seq(QChars)
    BY EmptySeq
  <2>3. Join(e, Comma) = e /\ Split(e, Comma) = one
    BY SplitOfNothing
  <2>4. Keep(one, K) = e
    <3>1. e \notin K
      OBVIOUS
    <3> HIDE DEF K
    <3> QED BY <3>1, KeepNone
  <2>5. NotEmpty(one) = e
    BY <2>4 DEF NotEmpty
  <2> HIDE DEF e, one
  <2>6. hosts = e
    BY <2>1 DEF e
  <2> QED BY <2>2, <2>3, <2>5, <2>6
<1>10. ASSUME n > 0 PROVE Good
  <2>1. Comma \in QChars /\ NoComma \subseteq QChars
    BY DEF QChars, Comma, NoComma
  <2>2. hosts \in Seq(Seq(NoComma)) /\ hosts \in Seq(Seq(QChars)) /\ Len(hosts) > 0
    BY <1>6, <1>10, <1>types
  <2>3. Split(Join(hosts, Comma), Comma) = hosts
    BY <2>1, <2>2, SplitOfJoin DEF NoComma
  <2>4. Join(hosts, Comma) \in Seq(QChars)
    BY <2>1, <2>2, JoinType
  <2> QED BY <1>8, <2>3, <2>4
<1>11. Good
  <2> HIDE DEF Good
  <2> QED BY <1>1, <1>9, <1>10
<1> QED BY <1>7, <1>11, <1>types DEF hosts, all, addrs

-----------------------------------------------------------------------------
(* The pairing URL. *)

(* The characters of a query, and of one of its fields. *)
FieldChars == Clean \cup {Equals}
QueryChars == FieldChars \cup {Amp}

(* The bytes the code names are reserved, and those that cut a URL are not *)
(* among the characters of a query.                                        *)
LEMMA CharsAre ==
  /\ FieldChars = QueryChars \ {Amp} /\ Amp \in QueryChars /\ QueryChars \subseteq QChars
  /\ Clean \subseteq FieldChars /\ Equals \in FieldChars /\ Equals \notin Clean
  /\ QChars \ Reserved \subseteq Clean /\ Equals \notin QChars \ Reserved
  /\ Colon \notin QueryChars /\ Hash \notin QueryChars /\ Question \notin QueryChars
  /\ Colon \in QChars /\ Slash \in QChars /\ Hash \in QChars /\ Question \in QChars
  /\ Colon # Slash /\ Colon # Question /\ Slash # Question /\ Hash # Colon /\ Hash # Slash
  /\ Hash # Question
  /\ \A w \in QChars : w > 255 => w \notin {Colon, Slash, Hash, Question} /\ w \notin Reserved
BY DEF FieldChars, QueryChars, Clean, QChars, Reserved, Unreserved, Byte, Equals, Amp, Colon, Slash,
       Hash, Question, Percent

(* A key and its value, encoded. *)
Field(k, v) == <<k, Equals>> \o v

(* A reader finds the key and the decoded value. *)
LEMMA FieldRead ==
  ASSUME NEW k \in QChars \ Reserved, NEW v \in Seq(Clean)
  PROVE  /\ Field(k, v) \in Seq(FieldChars)
         /\ PairOf(Field(k, v)) = << <<k>>, UrlDecode(v) >>
<1> DEFINE S == FieldChars
           C == {Equals}
           e == Equals
           key == <<k>>
           a == <<k, Equals>>
           p == Field(k, v)
<1>1. k \in S /\ k \in S \ C /\ e \in S /\ e \in S \cap C /\ Clean \subseteq S
  BY CharsAre
<1>2. v \in Seq(S)
  BY <1>1, SeqMonotonic
<1>3. key \in Seq(S \ C) /\ key \in Seq(S)
  BY <1>1
<1>4. a = key \o <<e>>
  <2>1. Append(key, e) = key \o <<e>>
    BY <1>1, <1>3, AppendIsConcat
  <2>2. Append(<<k>>, e) = <<k, e>>
    BY <1>1, PairAppended
  <2> QED BY <2>1, <2>2
<1>5. p \in Seq(S)
  <2>1. a \in Seq(S)
    BY <1>1
  <2> HIDE DEF S, a
  <2>2. a \o v \in Seq(S)
    BY <1>2, <2>1, ConcatParts
  <2> QED BY <2>2 DEF Field, a
<1>6. p = (key \o <<e>>) \o v
  BY <1>4 DEF Field
<1> HIDE DEF S, C, e, key, p
<1>7. Sides((key \o <<e>>) \o v, C, key, v)
  BY <1>1, <1>2, <1>3, SidesOfCut
<1>8. Before(p, C) = key /\ After(p, C) = v
  BY <1>6, <1>7 DEF Sides
<1>9. UrlDecode(<<k>>) = <<k>>
  BY PlainDecodes
<1> QED BY <1>5, <1>8, <1>9 DEF PairOf, S, C, key, p

(* What a payload of a pairing code is made of. *)
Payloads ==
  [version : QChars \ Reserved, id : QChars \ Reserved, pk : QChars \ Reserved,
   name : Seq(QChars), hosts : {h \in Seq(Seq(QChars)) : Join(h, Comma) \in Seq(QChars)},
   tok : QChars \ Reserved]

Fields(q) ==
  << Field(Word.v, <<q.version>>), Field(Word.id, <<q.id>>), Field(Word.pk, <<q.pk>>),
     Field(Word.nm, UrlEncode(q.name)), Field(Word.hosts, UrlEncode(Join(q.hosts, Comma))),
     Field(Word.tok, <<q.tok>>) >>

Pairs(q) ==
  << << <<Word.v>>, <<q.version>> >>, << <<Word.id>>, <<q.id>> >>, << <<Word.pk>>, <<q.pk>> >>,
     << <<Word.nm>>, q.name >>, << <<Word.hosts>>, Join(q.hosts, Comma) >>, << <<Word.tok>>, <<q.tok>> >> >>

(* A field of one character. *)
LEMMA FieldOfOne ==
  ASSUME NEW k \in QChars \ Reserved, NEW c \in QChars \ Reserved
  PROVE  /\ Field(k, <<c>>) = <<k, Equals, c>>
         /\ Field(k, <<c>>) \in Seq(FieldChars)
         /\ PairOf(Field(k, <<c>>)) = << <<k>>, <<c>> >>
<1>1. c \in Clean /\ <<c>> \in Seq(Clean)
  BY DEF Clean
<1>2. UrlDecode(<<c>>) = <<c>>
  BY PlainDecodes
<1>3. Field(k, <<c>>) = <<k, Equals, c>>
  <2> DEFINE S == {k, Equals, c}
             a == <<k, Equals>>
             b == <<c>>
             u == a \o b
             w == <<k, Equals, c>>
  <2>1. /\ a \in Seq(S) /\ b \in Seq(S) /\ Len(a) = 2 /\ Len(b) = 1
        /\ a[1] = k /\ a[2] = Equals /\ b[1] = c
    OBVIOUS
  <2>2. w \in Seq(S) /\ Len(w) = 3 /\ w[1] = k /\ w[2] = Equals /\ w[3] = c
    OBVIOUS
  <2> HIDE DEF S, a, b, w
  <2>3. u \in Seq(S) /\ Joins(u, a, b)
    BY <2>1, ConcatParts
  <2> HIDE DEF u
  <2>4. Len(u) = 3 /\ u[1] = k /\ u[2] = Equals /\ u[3] = c
    <3>1. 1 \in 1..2 /\ 2 \in 1..2 /\ 1 \in 1..1 /\ 2 + 1 = 3
      OBVIOUS
    <3>2. Len(u) = 2 + 1 /\ (\A i \in 1..2 : u[i] = a[i]) /\ \A i \in 1..1 : u[2 + i] = b[i]
      BY <2>1, <2>3 DEF Joins
    <3> QED BY <2>1, <3>1, <3>2
  <2>5. \A i \in 1..3 : u[i] = w[i]
    <3>1. \A i \in 1..3 : i = 1 \/ i = 2 \/ i = 3
      OBVIOUS
    <3> QED BY <2>2, <2>4, <3>1
  <2>6. u = w
    BY <2>2, <2>3, <2>4, <2>5, SeqEqual
  <2> QED BY <2>6 DEF Field, u, a, b, w
<1> QED BY <1>1, <1>2, <1>3, FieldRead

(* The pairs that a reader gets from a query. *)
LEMMA UrlRead ==
  ASSUME NEW q \in Payloads
  PROVE  Query(q) \in Seq(QueryChars) /\ QueryPairs(Query(q)) = Pairs(q)
<1> DEFINE S == FieldChars
           f1 == Field(Word.v, <<q.version>>)
           f2 == Field(Word.id, <<q.id>>)
           f3 == Field(Word.pk, <<q.pk>>)
           f4 == Field(Word.nm, UrlEncode(q.name))
           f5 == Field(Word.hosts, UrlEncode(Join(q.hosts, Comma)))
           f6 == Field(Word.tok, <<q.tok>>)
<1>1. /\ Word.v \in QChars \ Reserved /\ Word.id \in QChars \ Reserved /\ Word.pk \in QChars \ Reserved
      /\ Word.nm \in QChars \ Reserved /\ Word.hosts \in QChars \ Reserved /\ Word.tok \in QChars \ Reserved
  <2>1. \A w \in QChars : w > 255 => w \in QChars \ Reserved
    BY CharsAre
  <2> QED BY <2>1, WordsAre DEF QChars
<1>2. /\ q.version \in QChars \ Reserved /\ q.id \in QChars \ Reserved /\ q.pk \in QChars \ Reserved
      /\ q.tok \in QChars \ Reserved /\ q.name \in Seq(QChars) /\ Join(q.hosts, Comma) \in Seq(QChars)
  BY DEF Payloads
<1>3. /\ f1 \in Seq(S) /\ f1 = <<Word.v, Equals, q.version>> /\ PairOf(f1) = << <<Word.v>>, <<q.version>> >>
  BY <1>1, <1>2, FieldOfOne
<1>4. /\ f2 \in Seq(S) /\ f2 = <<Word.id, Equals, q.id>> /\ PairOf(f2) = << <<Word.id>>, <<q.id>> >>
  BY <1>1, <1>2, FieldOfOne
<1>5. /\ f3 \in Seq(S) /\ f3 = <<Word.pk, Equals, q.pk>> /\ PairOf(f3) = << <<Word.pk>>, <<q.pk>> >>
  BY <1>1, <1>2, FieldOfOne
<1>6. /\ f6 \in Seq(S) /\ f6 = <<Word.tok, Equals, q.tok>> /\ PairOf(f6) = << <<Word.tok>>, <<q.tok>> >>
  BY <1>1, <1>2, FieldOfOne
<1>7. f4 \in Seq(S) /\ PairOf(f4) = << <<Word.nm>>, q.name >>
  <2> DEFINE n == q.name
             e == UrlEncode(n)
  <2>1. e \in Seq(Clean) /\ UrlDecode(e) = n
    BY <1>2, EncodeGrows, UrlRoundTrip
  <2> HIDE DEF e, n
  <2>2. Field(Word.nm, e) \in Seq(S) /\ PairOf(Field(Word.nm, e)) = << <<Word.nm>>, UrlDecode(e) >>
    BY <1>1, <2>1, FieldRead
  <2> QED BY <2>1, <2>2 DEF e, n
<1>8. f5 \in Seq(S) /\ PairOf(f5) = << <<Word.hosts>>, Join(q.hosts, Comma) >>
  <2> DEFINE n == Join(q.hosts, Comma)
             e == UrlEncode(n)
  <2>1. e \in Seq(Clean) /\ UrlDecode(e) = n
    BY <1>2, EncodeGrows, UrlRoundTrip
  <2> HIDE DEF e, n
  <2>2. Field(Word.hosts, e) \in Seq(S) /\ PairOf(Field(Word.hosts, e)) = << <<Word.hosts>>, UrlDecode(e) >>
    BY <1>1, <2>1, FieldRead
  <2> QED BY <2>1, <2>2 DEF e, n
<1>9. Query(q) = Join(Fields(q), Amp)
  <2>1. f4 = <<Word.nm, Equals>> \o UrlEncode(q.name) /\ f5 = <<Word.hosts, Equals>> \o UrlEncode(Join(q.hosts, Comma))
    BY DEF Field
  <2> HIDE DEF f1, f2, f3, f4, f5, f6
  <2>2. Fields(q) = <<f1, f2, f3, f4, f5, f6>>
    BY DEF Fields, f1, f2, f3, f4, f5, f6
  <2> QED BY <1>3, <1>4, <1>5, <1>6, <2>1, <2>2 DEF Query
<1> DEFINE p1 == << <<Word.v>>, <<q.version>> >>
           p2 == << <<Word.id>>, <<q.id>> >>
           p3 == << <<Word.pk>>, <<q.pk>> >>
           p4 == << <<Word.nm>>, q.name >>
           p5 == << <<Word.hosts>>, Join(q.hosts, Comma) >>
           p6 == << <<Word.tok>>, <<q.tok>> >>
<1>10. Fields(q) = <<f1, f2, f3, f4, f5, f6>> /\ Pairs(q) = <<p1, p2, p3, p4, p5, p6>>
  BY DEF Fields, Pairs
<1> DEFINE fs == <<f1, f2, f3, f4, f5, f6>>
           ps == <<p1, p2, p3, p4, p5, p6>>
<1>t. /\ f1 \in Seq(S) /\ f2 \in Seq(S) /\ f3 \in Seq(S) /\ f4 \in Seq(S) /\ f5 \in Seq(S) /\ f6 \in Seq(S)
      /\ PairOf(f1) = p1 /\ PairOf(f2) = p2 /\ PairOf(f3) = p3 /\ PairOf(f4) = p4
      /\ PairOf(f5) = p5 /\ PairOf(f6) = p6
  BY <1>3, <1>4, <1>5, <1>6, <1>7, <1>8
<1> HIDE DEF f1, f2, f3, f4, f5, f6, p1, p2, p3, p4, p5, p6
<1>11. fs \in Seq(Seq(S)) /\ Len(fs) = 6 /\ Len(fs) > 0 /\ DOMAIN fs = 1..6
  <2> HIDE DEF S
  <2> QED BY <1>t
<1>12. Split(Join(fs, Amp), Amp) = fs /\ Join(fs, Amp) \in Seq(QueryChars)
  <2> DEFINE Q == QueryChars
             c == Amp
  <2>1. c \in Q /\ S = Q \ {c} /\ S \subseteq Q
    BY CharsAre
  <2> HIDE DEF fs, Q, c, S
  <2>2. fs \in Seq(Seq(Q \ {c}))
    BY <1>11, <2>1
  <2>3. Split(Join(fs, c), c) = fs
    BY <1>11, <2>1, <2>2, SplitOfJoin
  <2>4. fs \in Seq(Seq(Q))
    <3>1. Seq(S) \subseteq Seq(Q)
      BY <2>1, SeqMonotonic
    <3> QED BY <1>11, <3>1, SeqMonotonic
  <2>5. Join(fs, c) \in Seq(Q)
    BY <1>11, <2>1, <2>4, JoinType
  <2> QED BY <2>3, <2>5 DEF Q, c
<1>13. [i \in DOMAIN fs |-> PairOf(fs[i])] = ps
  <2> DEFINE T == {p1, p2, p3, p4, p5, p6}
             m == [i \in DOMAIN fs |-> PairOf(fs[i])]
  <2>1. ps \in Seq(T) /\ Len(ps) = 6 /\ DOMAIN ps = 1..6
    OBVIOUS
  <2>2. ASSUME NEW i \in 1..6 PROVE PairOf(fs[i]) = ps[i]
    <3>1. i = 1 \/ i = 2 \/ i = 3 \/ i = 4 \/ i = 5 \/ i = 6
      OBVIOUS
    <3> QED BY <1>t, <3>1
  <2>3. ps = [i \in 1..6 |-> ps[i]]
    OBVIOUS
  <2> HIDE DEF fs, ps
  <2> QED BY <1>11, <2>2, <2>3
<1>14. QueryPairs(Query(q)) = [i \in DOMAIN fs |-> PairOf(fs[i])]
  <2> HIDE DEF fs
  <2> QED BY <1>9, <1>10, <1>12 DEF QueryPairs, fs
<1>15. Query(q) \in Seq(QueryChars)
  <2> HIDE DEF fs
  <2> QED BY <1>9, <1>10, <1>12 DEF fs
<1> QED BY <1>10, <1>13, <1>14, <1>15

(* The pairs of a pairing URL, by their places. *)
PairsAre(s, q) ==
  /\ DOMAIN s = 1..6
  /\ s[1][1] = <<Word.v>> /\ s[2][1] = <<Word.id>> /\ s[3][1] = <<Word.pk>> /\ s[4][1] = <<Word.nm>>
  /\ s[5][1] = <<Word.hosts>> /\ s[6][1] = <<Word.tok>>
  /\ s[1][2] = <<q.version>> /\ s[2][2] = <<q.id>> /\ s[3][2] = <<q.pk>> /\ s[4][2] = q.name
  /\ s[5][2] = Join(q.hosts, Comma) /\ s[6][2] = <<q.tok>>

(* They are these. *)
LEMMA PairsPlaces ==
  ASSUME NEW q
  PROVE  PairsAre(Pairs(q), q)
<1> DEFINE a1 == <<Word.v>>
           a2 == <<Word.id>>
           a3 == <<Word.pk>>
           a4 == <<Word.nm>>
           a5 == <<Word.hosts>>
           a6 == <<Word.tok>>
           b1 == <<q.version>>
           b2 == <<q.id>>
           b3 == <<q.pk>>
           b4 == q.name
           b5 == Join(q.hosts, Comma)
           b6 == <<q.tok>>
           s == Pairs(q)
<1>1. s = << <<a1, b1>>, <<a2, b2>>, <<a3, b3>>, <<a4, b4>>, <<a5, b5>>, <<a6, b6>> >>
  BY DEF Pairs
<1> HIDE DEF a1, a2, a3, a4, a5, a6, b1, b2, b3, b4, b5, b6
<1> DEFINE p1 == <<a1, b1>>
           p2 == <<a2, b2>>
           p3 == <<a3, b3>>
           p4 == <<a4, b4>>
           p5 == <<a5, b5>>
           p6 == <<a6, b6>>
<1>2. /\ p1[1] = a1 /\ p2[1] = a2 /\ p3[1] = a3 /\ p4[1] = a4 /\ p5[1] = a5 /\ p6[1] = a6
      /\ p1[2] = b1 /\ p2[2] = b2 /\ p3[2] = b3 /\ p4[2] = b4 /\ p5[2] = b5 /\ p6[2] = b6
  OBVIOUS
<1>3. s = <<p1, p2, p3, p4, p5, p6>>
  BY <1>1
<1> HIDE DEF p1, p2, p3, p4, p5, p6, s
<1>4. /\ s[1] = p1 /\ s[2] = p2 /\ s[3] = p3 /\ s[4] = p4 /\ s[5] = p5 /\ s[6] = p6
      /\ DOMAIN s = 1..6
  BY <1>3
<1>5. /\ s[1][1] = a1 /\ s[2][1] = a2 /\ s[3][1] = a3 /\ s[4][1] = a4 /\ s[5][1] = a5 /\ s[6][1] = a6
      /\ s[1][2] = b1 /\ s[2][2] = b2 /\ s[3][2] = b3 /\ s[4][2] = b4 /\ s[5][2] = b5 /\ s[6][2] = b6
  BY <1>2, <1>4
<1> QED BY <1>4, <1>5, Zenon DEF PairsAre, s, a1, a2, a3, a4, a5, a6, b1, b2, b3, b4, b5, b6

(* The keys of a pairing URL are different ones. *)
LEMMA KeysDiffer ==
  /\ <<Word.v>> # <<Word.id>> /\ <<Word.v>> # <<Word.pk>> /\ <<Word.v>> # <<Word.nm>> /\ <<Word.v>> # <<Word.hosts>>
  /\ <<Word.v>> # <<Word.tok>> /\ <<Word.id>> # <<Word.pk>> /\ <<Word.id>> # <<Word.nm>> /\ <<Word.id>> # <<Word.hosts>>
  /\ <<Word.id>> # <<Word.tok>> /\ <<Word.pk>> # <<Word.nm>> /\ <<Word.pk>> # <<Word.hosts>> /\ <<Word.pk>> # <<Word.tok>>
  /\ <<Word.nm>> # <<Word.hosts>> /\ <<Word.nm>> # <<Word.tok>> /\ <<Word.hosts>> # <<Word.tok>>
<1>1. \A m, n : m # n => <<m>> # <<n>>
  OBVIOUS
<1>2. /\ Word.v # Word.id /\ Word.v # Word.pk /\ Word.v # Word.nm /\ Word.v # Word.hosts
      /\ Word.v # Word.tok /\ Word.id # Word.pk /\ Word.id # Word.nm /\ Word.id # Word.hosts
      /\ Word.id # Word.tok /\ Word.pk # Word.nm /\ Word.pk # Word.hosts
      /\ Word.pk # Word.tok /\ Word.nm # Word.hosts /\ Word.nm # Word.tok /\ Word.hosts # Word.tok
  BY WordsAre
<1> QED BY <1>1, <1>2

(* What a reader finds under each key of a pairing URL. *)
LEMMA PairsOnce ==
  ASSUME NEW s, NEW q, PairsAre(s, q)
  PROVE  /\ LastOf(s, <<Word.v>>, <<>>) = <<q.version>> /\ LastOf(s, <<Word.id>>, <<>>) = <<q.id>>
         /\ LastOf(s, <<Word.pk>>, <<>>) = <<q.pk>> /\ LastOf(s, <<Word.nm>>, <<>>) = q.name
         /\ LastOf(s, <<Word.hosts>>, <<>>) = Join(q.hosts, Comma)
         /\ LastOf(s, <<Word.tok>>, <<>>) = <<q.tok>>
<1> DEFINE a1 == <<Word.v>>
           a2 == <<Word.id>>
           a3 == <<Word.pk>>
           a4 == <<Word.nm>>
           a5 == <<Word.hosts>>
           a6 == <<Word.tok>>
           none == <<>>
<1>1. /\ DOMAIN s = 1..6
      /\ s[1][1] = a1 /\ s[2][1] = a2 /\ s[3][1] = a3 /\ s[4][1] = a4 /\ s[5][1] = a5 /\ s[6][1] = a6
  BY DEF PairsAre
<1>2. /\ a1 # a2 /\ a1 # a3 /\ a1 # a4 /\ a1 # a5 /\ a1 # a6 /\ a2 # a3 /\ a2 # a4 /\ a2 # a5
      /\ a2 # a6 /\ a3 # a4 /\ a3 # a5 /\ a3 # a6 /\ a4 # a5 /\ a4 # a6 /\ a5 # a6
  BY KeysDiffer
<1> HIDE DEF a1, a2, a3, a4, a5, a6, none
<1>3. \A i \in 1..6 : i = 1 \/ i = 2 \/ i = 3 \/ i = 4 \/ i = 5 \/ i = 6
  OBVIOUS
<1>4. \A i, j \in 1..6 : s[i][1] = s[j][1] => i = j
  BY <1>1, <1>2, <1>3
<1>5. \A i \in 1..6 : OnlyAt(s, s[i][1], i)
  <2>1. 1..6 \subseteq Int
    OBVIOUS
  <2> QED BY <1>1, <1>4, <2>1 DEF OnlyAt
<1>6. \A i \in 1..6 : LastOf(s, s[i][1], none) = s[i][2]
  BY <1>5, LastOfOne
<1>7. 1 \in 1..6 /\ 2 \in 1..6 /\ 3 \in 1..6 /\ 4 \in 1..6 /\ 5 \in 1..6 /\ 6 \in 1..6
  OBVIOUS
<1>8. /\ LastOf(s, a1, none) = s[1][2] /\ LastOf(s, a2, none) = s[2][2]
      /\ LastOf(s, a3, none) = s[3][2] /\ LastOf(s, a4, none) = s[4][2]
      /\ LastOf(s, a5, none) = s[5][2] /\ LastOf(s, a6, none) = s[6][2]
  BY <1>1, <1>6, <1>7
<1> QED BY <1>8, Zenon DEF PairsAre, a1, a2, a3, a4, a5, a6, none

(* What a scheme and a host are: words, so nothing that cuts a URL. *)
Words == {w \in QChars : w > 255}

(* Where the characters of a URL stand. *)
UrlPlaces(u, scheme, host, query) ==
  /\ u \in Seq(QChars) /\ Len(u) = 6 + Len(query)
  /\ u[1] = scheme /\ u[2] = Colon /\ u[3] = Slash /\ u[4] = Slash /\ u[5] = host /\ u[6] = Question
  /\ \A i \in 1..Len(query) : u[6 + i] = query[i]

(* They stand there. *)
LEMMA UrlHasPlaces ==
  ASSUME NEW scheme \in Words, NEW host \in Words, NEW query \in Seq(QueryChars)
  PROVE  UrlPlaces(Url(scheme, host, query), scheme, host, query)
<1> DEFINE a == Colon
           b == Slash
           c == Question
           h == <<scheme, a, b, b, host, c>>
           u == h \o query
<1>1. query \in Seq(QChars) /\ a \in QChars /\ b \in QChars /\ c \in QChars
      /\ scheme \in QChars /\ host \in QChars
  BY CharsAre, SeqMonotonic DEF Words
<1>2. u = Url(scheme, host, query)
  BY DEF Url
<1> HIDE DEF a, b, c
<1>3. /\ h \in Seq(QChars) /\ Len(h) = 6 /\ h[1] = scheme /\ h[2] = a /\ h[3] = b /\ h[4] = b
      /\ h[5] = host /\ h[6] = c
  BY <1>1
<1> HIDE DEF h
<1>4. u \in Seq(QChars) /\ Joins(u, h, query)
  BY <1>1, <1>3, ConcatParts
<1> HIDE DEF u
<1>5. /\ Len(u) = 6 + Len(query) /\ \A i \in 1..6 : u[i] = h[i]
      /\ \A i \in 1..Len(query) : u[6 + i] = query[i]
  BY <1>3, <1>4 DEF Joins
<1>6. u[1] = scheme /\ u[2] = a /\ u[3] = b /\ u[4] = b /\ u[5] = host /\ u[6] = c
  <2>1. 1 \in 1..6 /\ 2 \in 1..6 /\ 3 \in 1..6 /\ 4 \in 1..6 /\ 5 \in 1..6 /\ 6 \in 1..6
    OBVIOUS
  <2> QED BY <1>3, <1>5, <2>1
<1> QED BY <1>2, <1>4, <1>5, <1>6 DEF UrlPlaces, a, b, c

(* One character is a part. *)
LEMMA PartOfOne ==
  ASSUME NEW S, NEW s \in Seq(S), Len(s) >= 1
  PROVE  SubSeq(s, 1, 1) = <<s[1]>>
<1> DEFINE x == s[1]
           t == <<x>>
<1>1. Len(s) \in Nat /\ x \in S
  BY LenProperties
<1> HIDE DEF x
<1>2. t \in Seq(S) /\ Len(t) = 1 /\ t[1] = x
  BY <1>1
<1> HIDE DEF t
<1>3. 1 \in Nat /\ 1 <= 1 /\ 1 <= 1 + 1 /\ Len(t) = 1 - 1 + 1 /\ \A i \in 1..Len(t) : i = 1 /\ 1 + i - 1 = 1
  BY <1>2
<1>4. \A i \in 1..Len(t) : t[i] = s[1 + i - 1]
  BY <1>2, <1>3 DEF x
<1>5. SubSeq(s, 1, 1) = t
  BY <1>2, <1>3, <1>4, PartIs
<1> QED BY <1>5 DEF t, x

(* What a reader cuts such a URL into. *)
LEMMA UrlCut ==
  ASSUME NEW scheme \in Words, NEW host \in Words, NEW query \in Seq(QueryChars), NEW u,
         UrlPlaces(u, scheme, host, query)
  PROVE  /\ HasScheme(u) /\ Before(u, {Colon}) = <<scheme>>
         /\ HostPart(u) = <<host>> /\ QueryPart(u) = query
<1> DEFINE m == Len(query)
           n == Len(u)
<1>1. m \in Nat /\ n = 6 + m /\ u \in Seq(QChars) /\ query \in Seq(QChars) /\ DOMAIN u = 1..n
  BY LenProperties, CharsAre, SeqMonotonic DEF UrlPlaces
<1>2. /\ u[1] = scheme /\ u[2] = Colon /\ u[3] = Slash /\ u[4] = Slash /\ u[5] = host /\ u[6] = Question
      /\ \A i \in 1..m : u[6 + i] = query[i]
  BY DEF UrlPlaces
<1>3. \A i \in 1..m : query[i] # Hash
  BY CharsAre, LenProperties
<1>4. /\ scheme \notin {Colon, Slash, Hash, Question} /\ host \notin {Colon, Slash, Hash, Question}
  BY CharsAre DEF Words
<1> HIDE DEF m, n
<1>5. First(u, {Colon}) = 2
  <2>1. 2 \in 1..(Len(u) + 1) /\ \A i \in 1..(2 - 1) : i = 1
    BY <1>1 DEF n
  <2>2. u[2] \in {Colon} /\ \A i \in 1..(2 - 1) : u[i] \notin {Colon}
    BY <1>2, <1>4, <2>1
  <2> QED BY <1>1, <2>1, <2>2, FirstIs
<1>6. Before(u, {Colon}) = <<scheme>>
  <2>1. Len(u) >= 1 /\ 2 - 1 = 1
    BY <1>1 DEF n
  <2>2. SubSeq(u, 1, 1) = <<u[1]>>
    BY <1>1, <2>1, PartOfOne
  <2> QED BY <1>2, <1>5, <2>1, <2>2 DEF Before
<1>7. HasScheme(u)
  <2>1. 2 \in DOMAIN u
    BY <1>1
  <2>2. <<scheme>> # <<>>
    OBVIOUS
  <2> QED BY <1>2, <1>6, <2>1, <2>2 DEF HasScheme, Range
<1> DEFINE rest == After(u, {Colon})
           r == SubSeq(rest, 3, Len(rest))
<1>8. rest \in Seq(QChars) /\ Len(rest) = 4 + m /\ \A i \in 1..(4 + m) : rest[i] = u[2 + i]
  <2>1. 3 \in Nat /\ n \in Nat /\ 1 <= 3 /\ 3 <= n + 1 /\ n <= Len(u) /\ 2 + 1 = 3
        /\ n - 3 + 1 = 4 + m /\ \A i \in 1..(4 + m) : 3 + i - 1 = 2 + i
    BY <1>1 DEF n
  <2>2. SubSeq(u, 3, n) \in Seq(QChars) /\ IsPart(SubSeq(u, 3, n), u, 3, n)
    BY <1>1, <2>1, SubSeqPart
  <2>3. rest = SubSeq(u, 3, n)
    BY <1>5, <2>1 DEF After, n
  <2> QED BY <2>1, <2>2, <2>3 DEF IsPart
<1> HIDE DEF rest
<1>9. rest[1] = Slash /\ rest[2] = Slash /\ rest[3] = host /\ rest[4] = Question
  <2>1. 1 \in 1..(4 + m) /\ 2 \in 1..(4 + m) /\ 3 \in 1..(4 + m) /\ 4 \in 1..(4 + m)
        /\ 2 + 1 = 3 /\ 2 + 2 = 4 /\ 2 + 3 = 5 /\ 2 + 4 = 6
    BY <1>1
  <2> QED BY <1>2, <1>8, <2>1
<1>10. SubSeq(rest, 1, 2) = <<Slash, Slash>>
  <2> DEFINE x == Slash
             t == <<x, x>>
  <2>1. x \in QChars /\ rest[1] = x /\ rest[2] = x
    BY <1>9, CharsAre
  <2> HIDE DEF x
  <2>2. t \in Seq(QChars) /\ Len(t) = 2 /\ t[1] = x /\ t[2] = x
    BY <2>1
  <2> HIDE DEF t
  <2>3. 1 \in Nat /\ 2 \in Nat /\ 1 <= 1 /\ 1 <= 2 + 1 /\ 2 <= Len(rest) /\ Len(t) = 2 - 1 + 1
        /\ \A i \in 1..Len(t) : (i = 1 \/ i = 2) /\ 1 + i - 1 = i
    BY <1>1, <1>8, <2>2
  <2>4. \A i \in 1..Len(t) : t[i] = rest[1 + i - 1]
    BY <2>1, <2>2, <2>3
  <2>5. SubSeq(rest, 1, 2) = t
    BY <1>8, <2>2, <2>3, <2>4, PartIs
  <2> QED BY <2>5 DEF t, x
<1>11. r \in Seq(QChars) /\ Len(r) = 2 + m /\ r[1] = host /\ r[2] = Question
  <2> DEFINE l == Len(rest)
  <2>1. 3 \in Nat /\ l \in Nat /\ 1 <= 3 /\ 3 <= l + 1 /\ l <= Len(rest) /\ l - 3 + 1 = 2 + m
        /\ 3 + 1 - 1 = 3 /\ 3 + 2 - 1 = 4 /\ 1 \in 1..(2 + m) /\ 2 \in 1..(2 + m)
    BY <1>1, <1>8
  <2> HIDE DEF l
  <2>2. SubSeq(rest, 3, l) \in Seq(QChars) /\ IsPart(SubSeq(rest, 3, l), rest, 3, l)
    BY <1>8, <2>1, SubSeqPart
  <2>3. r = SubSeq(rest, 3, l)
    BY DEF l
  <2> HIDE DEF r
  <2>4. Len(r) = 2 + m /\ \A i \in 1..(2 + m) : r[i] = rest[3 + i - 1]
    BY <2>1, <2>2, <2>3 DEF IsPart
  <2>5. r[1] = rest[3] /\ r[2] = rest[4]
    BY <2>1, <2>4
  <2> QED BY <1>9, <2>2, <2>3, <2>4, <2>5
<1> HIDE DEF r
<1>12. Before(r, {Slash, Question, Hash}) = <<host>>
  <2> DEFINE C == {Slash, Question, Hash}
  <2>1. 2 \in 1..(Len(r) + 1) /\ 2 - 1 = 1 /\ Len(r) >= 1 /\ \A i \in 1..(2 - 1) : i = 1
    BY <1>1, <1>11
  <2>2. r[2] \in C /\ r[1] \notin C
    BY <1>4, <1>11
  <2> HIDE DEF C
  <2>3. First(r, C) = 2
    BY <1>11, <2>1, <2>2, FirstIs
  <2>4. SubSeq(r, 1, 1) = <<r[1]>>
    BY <1>11, <2>1, PartOfOne
  <2> QED BY <1>11, <2>1, <2>3, <2>4 DEF Before, C
<1>13. HostPart(u) = <<host>>
  BY <1>10, <1>12 DEF HostPart, rest, r
<1>14. Before(u, {Hash}) = u
  <2>1. ASSUME NEW i \in 1..Len(u) PROVE u[i] # Hash
    <3>1. i \in {1, 2, 3, 4, 5, 6} \/ (i - 6 \in 1..m /\ 6 + (i - 6) = i)
      BY <1>1 DEF n
    <3>2. ASSUME i - 6 \in 1..m, 6 + (i - 6) = i PROVE u[i] # Hash
      BY <1>2, <1>3, <3>2
    <3>3. ASSUME i \in {1, 2, 3, 4, 5, 6} PROVE u[i] # Hash
      BY <1>2, <1>4, <3>3, CharsAre
    <3> QED BY <3>1, <3>2, <3>3
  <2> QED BY <1>1, <2>1, CutNowhere
<1>15. First(u, {Question}) = 6
  <2>1. 6 \in 1..(Len(u) + 1) /\ 6 - 1 = 5
        /\ \A i \in 1..5 : i = 1 \/ i = 2 \/ i = 3 \/ i = 4 \/ i = 5
    BY <1>1 DEF n
  <2>2. \A i \in 1..(6 - 1) : u[i] \notin {Question}
    BY <1>2, <1>4, <2>1, CharsAre
  <2>3. u[6] \in {Question}
    BY <1>2
  <2> QED BY <1>1, <2>1, <2>2, <2>3, FirstIs
<1>16. SubSeq(u, 7, n) = query
  <2>1. 7 \in Nat /\ n \in Nat /\ 1 <= 7 /\ 7 <= n + 1 /\ n <= Len(u) /\ m = n - 7 + 1
        /\ \A i \in 1..m : 7 + i - 1 = 6 + i
    BY <1>1 DEF n
  <2>2. \A i \in 1..m : query[i] = u[7 + i - 1]
    BY <1>2, <2>1
  <2> QED BY <1>1, <2>1, <2>2, PartIs DEF m
<1>17. QueryPart(u) = query
  <2>1. 6 + 1 = 7
    OBVIOUS
  <2> QED BY <1>14, <1>15, <1>16, <2>1 DEF QueryPart, After, n
<1> QED BY <1>6, <1>7, <1>13, <1>17

(* A query alone has no scheme. *)
LEMMA NoScheme ==
  ASSUME NEW query \in Seq(QueryChars)
  PROVE  QrParse(query) = Failed
<1>1. \A i \in DOMAIN query : query[i] \in QueryChars
  BY LenProperties
<1>2. Colon \notin Range(query)
  BY <1>1, CharsAre DEF Range
<1>3. ~HasScheme(query)
  BY <1>2 DEF HasScheme
<1> QED BY <1>3, Zenon DEF QrParse

(* What a phone gets from the URL of a payload. *)
LEMMA UrlParsed ==
  ASSUME NEW q \in Payloads, NEW scheme \in Words, NEW host \in Words
  PROVE  QrParse(Url(scheme, host, Query(q))) =
           IF \/ scheme # Word.airclip \/ host # Word.pair
              \/ q.id = Word.malformed \/ q.pk = Word.malformed \/ q.tok = Word.malformed
              \/ q.version # One \/ DeviceIdOf(q.pk) # q.id
           THEN Failed
           ELSE Ok([version |-> One, id |-> q.id, pk |-> q.pk, name |-> q.name, tok |-> q.tok,
                    hosts |-> NotEmpty(Split(Join(q.hosts, Comma), Comma))])
<1> DEFINE query == Query(q)
           u == Url(scheme, host, query)
           s == Pairs(q)
           fv == LastOf(s, <<Word.v>>, <<>>)
           fi == LastOf(s, <<Word.id>>, <<>>)
           fp == LastOf(s, <<Word.pk>>, <<>>)
           fn == LastOf(s, <<Word.nm>>, <<>>)
           fh == LastOf(s, <<Word.hosts>>, <<>>)
           ft == LastOf(s, <<Word.tok>>, <<>>)
           Mal == \E i \in DOMAIN s : s[i][1] \in {<<Word.id>>, <<Word.pk>>, <<Word.tok>>}
                                        /\ s[i][2] = <<Word.malformed>>
           res == Ok([version |-> One, id |-> fi[1], pk |-> fp[1], name |-> fn, tok |-> ft[1],
                      hosts |-> NotEmpty(Split(fh, Comma))])
           Wrong == ~HasScheme(u) \/ Before(u, {Colon}) # <<Word.airclip>> \/ HostPart(u) # <<Word.pair>>
<1>q. query \in Seq(QueryChars) /\ QueryPairs(query) = s
  BY UrlRead
<1> HIDE DEF query
<1>u. UrlPlaces(u, scheme, host, query)
  BY <1>q, UrlHasPlaces
<1> HIDE DEF u
<1>c. /\ HasScheme(u) /\ Before(u, {Colon}) = <<scheme>>
      /\ HostPart(u) = <<host>> /\ QueryPart(u) = query
  BY <1>q, <1>u, UrlCut
<1>w. Wrong <=> scheme # Word.airclip \/ host # Word.pair
  <2>1. \A x, y : <<x>> # <<y>> <=> x # y
    OBVIOUS
  <2>2. /\ <<scheme>> # <<Word.airclip>> <=> scheme # Word.airclip
        /\ <<host>> # <<Word.pair>> <=> host # Word.pair
    BY <2>1
  <2> QED BY <1>c, <2>2
<1>2. QrParse(u) =
        IF \/ Wrong \/ Mal \/ fv # <<One>> \/ fi = <<>> \/ fp = <<>> \/ ft = <<>>
           \/ DeviceIdOf(fp[1]) # fi[1]
        THEN Failed ELSE res
  BY <1>q, <1>c, Zenon DEF QrParse
<1>0. PairsAre(s, q)
  BY PairsPlaces
<1> HIDE DEF s
<1>3. /\ fv = <<q.version>> /\ fi = <<q.id>> /\ fp = <<q.pk>> /\ fn = q.name
      /\ fh = Join(q.hosts, Comma) /\ ft = <<q.tok>>
  BY <1>0, PairsOnce
<1>4. Mal <=> q.id = Word.malformed \/ q.pk = Word.malformed \/ q.tok = Word.malformed
  <2>1. /\ DOMAIN s = 1..6
        /\ s[1][1] = <<Word.v>> /\ s[2][1] = <<Word.id>> /\ s[3][1] = <<Word.pk>> /\ s[4][1] = <<Word.nm>>
        /\ s[5][1] = <<Word.hosts>> /\ s[6][1] = <<Word.tok>>
        /\ s[2][2] = <<q.id>> /\ s[3][2] = <<q.pk>> /\ s[6][2] = <<q.tok>>
    BY <1>0 DEF PairsAre
  <2>2. \A i \in 1..6 : i = 1 \/ i = 2 \/ i = 3 \/ i = 4 \/ i = 5 \/ i = 6
    OBVIOUS
  <2>3. /\ <<Word.v>> \notin {<<Word.id>>, <<Word.pk>>, <<Word.tok>>}
        /\ <<Word.nm>> \notin {<<Word.id>>, <<Word.pk>>, <<Word.tok>>}
        /\ <<Word.hosts>> \notin {<<Word.id>>, <<Word.pk>>, <<Word.tok>>}
    BY KeysDiffer
  <2>4. ASSUME Mal PROVE q.id = Word.malformed \/ q.pk = Word.malformed \/ q.tok = Word.malformed
    <3>1. PICK i \in 1..6 : /\ s[i][1] \in {<<Word.id>>, <<Word.pk>>, <<Word.tok>>}
                            /\ s[i][2] = <<Word.malformed>>
      BY <2>1, <2>4
    <3>2. i = 2 \/ i = 3 \/ i = 6
      BY <2>1, <2>2, <2>3, <3>1
    <3> QED BY <2>1, <3>1, <3>2
  <2>5. ASSUME q.id = Word.malformed \/ q.pk = Word.malformed \/ q.tok = Word.malformed PROVE Mal
    <3>1. 2 \in DOMAIN s /\ 3 \in DOMAIN s /\ 6 \in DOMAIN s
      BY <2>1
    <3>2. CASE q.id = Word.malformed
      BY <2>1, <3>1, <3>2
    <3>3. CASE q.pk = Word.malformed
      BY <2>1, <3>1, <3>3
    <3>4. CASE q.tok = Word.malformed
      BY <2>1, <3>1, <3>4
    <3> QED BY <2>5, <3>2, <3>3, <3>4
  <2> QED BY <2>4, <2>5
<1>o. \A x : <<x>> # <<>> /\ <<x>>[1] = x /\ (<<x>> # <<One>> <=> x # One)
  OBVIOUS
<1> HIDE DEF fi, fp, ft, fv
<1>5. fi # <<>> /\ fp # <<>> /\ ft # <<>> /\ fi[1] = q.id /\ fp[1] = q.pk /\ ft[1] = q.tok
  BY <1>3, <1>o
<1>6. fv # <<One>> <=> q.version # One
  BY <1>3, <1>o
<1> HIDE DEF Wrong, Mal, fv, fi, fp, fn, fh, ft
<1>7. res = Ok([version |-> One, id |-> q.id, pk |-> q.pk, name |-> q.name, tok |-> q.tok,
                hosts |-> NotEmpty(Split(Join(q.hosts, Comma), Comma))])
  BY <1>3, <1>5
<1> HIDE DEF res
<1> QED BY <1>2, <1>4, <1>5, <1>6, <1>7, <1>w DEF u, query

(* Every scanned pairing code is the offer it was made of. *)
LEMMA ScansYieldOffers == FormatsInit => ScanYieldsOffer
<1> SUFFICES ASSUME FormatsInit, in.of = "qr" PROVE ScanYieldsOffer
  BY DEF ScanYieldsOffer
<1>1. in \in Inputs
  BY DEF FormatsInit, NoInput
<1>2. in.name \in Seq(Byte) /\ in.pk \in {Word.pk1, Word.pk2} /\ in.ifaces \in Seq(Ifaces)
  BY <1>1, FormatsAssumption DEF Ifaces
<1> DEFINE hosts == LocalHosts(in.ifaces, Word.port)
           addrs == SocketAddrs(in.ifaces)
           dialled == Offered(in.ifaces)
           id == DeviceIdOf(in.pk)
           two == One + 1
           good == Word.token
           bad == Word.malformed
           other == Word.other
           q == [version |-> One, id |-> id, pk |-> in.pk, name |-> in.name,
                 hosts |-> hosts, tok |-> good]
           bads == {[q EXCEPT !.version = two], [q EXCEPT !.id = other], [q EXCEPT !.tok = bad]}
           airclip == Word.airclip
           pair == Word.pair
<1>3. /\ hosts \in Seq(Seq(QChars)) /\ Join(hosts, Comma) \in Seq(QChars)
      /\ NotEmpty(Split(Join(hosts, Comma), Comma)) = hosts
      /\ ResolveHosts(hosts, addrs) = [i \in DOMAIN dialled |-> HostOf(dialled[i], Word.port)]
  BY <1>2, HostsAre
<1>4. in.name \in Seq(QChars)
  <2>1. Byte \subseteq QChars
    BY DEF QChars, Byte
  <2> QED BY <1>2, <2>1, SeqMonotonic
<1> HIDE DEF hosts, dialled, addrs
<1> DEFINE pk == in.pk
           name == in.name
           Made(v, i, t) == [version |-> v, id |-> i, pk |-> pk, name |-> name,
                             hosts |-> hosts, tok |-> t]
           Vs == {One, two}
           Is == {id, other}
           Ts == {good, bad}
           Ss == {airclip, other}
           Hs == {pair, other}
<1>5. /\ id = DeviceIdOf(pk) /\ id # other /\ id # bad /\ pk # bad /\ good # bad /\ two # One
      /\ airclip # other /\ pair # other /\ other # bad
  BY <1>2, WordsAre DEF DeviceIdOf, One
<1>6. /\ Vs \subseteq QChars \ Reserved /\ Is \subseteq QChars \ Reserved
      /\ Ts \subseteq QChars \ Reserved /\ pk \in QChars \ Reserved
      /\ Ss \subseteq Words /\ Hs \subseteq Words
  <2>1. One \in QChars \ Reserved /\ two \in QChars \ Reserved
    BY DEF QChars, Reserved, Unreserved, One
  <2>2. /\ id \in Words /\ other \in Words /\ good \in Words /\ bad \in Words /\ pk \in Words
        /\ airclip \in Words /\ pair \in Words
    BY <1>2, WordsAre DEF DeviceIdOf, Words, QChars
  <2>3. Words \subseteq QChars \ Reserved
    BY CharsAre DEF Words
  <2> QED BY <2>1, <2>2, <2>3
<1> HIDE DEF id, pk, name, two, good, bad, other, airclip, pair
<1>7. ASSUME NEW v \in Vs, NEW i \in Is, NEW t \in Ts, NEW scheme \in Ss, NEW host \in Hs
      PROVE  QrParse(Url(scheme, host, Query(Made(v, i, t)))) =
               IF \/ scheme # airclip \/ host # pair \/ t = bad \/ v # One \/ id # i
               THEN Failed ELSE Ok(Made(One, i, t))
  <2> DEFINE m == Made(v, i, t)
  <2>1. m \in Payloads
    BY <1>3, <1>4, <1>6 DEF Payloads, name
  <2>2. /\ m.version = v /\ m.id = i /\ m.pk = pk /\ m.name = name /\ m.hosts = hosts /\ m.tok = t
    OBVIOUS
  <2> HIDE DEF m
  <2>3. i # bad /\ scheme \in Words /\ host \in Words
    BY <1>5, <1>6
  <2>4. QrParse(Url(scheme, host, Query(m))) =
          IF \/ scheme # airclip \/ host # pair
             \/ m.id = bad \/ m.pk = bad \/ m.tok = bad \/ m.version # One \/ DeviceIdOf(m.pk) # m.id
          THEN Failed
          ELSE Ok([version |-> One, id |-> m.id, pk |-> m.pk, name |-> m.name, tok |-> m.tok,
                   hosts |-> NotEmpty(Split(Join(m.hosts, Comma), Comma))])
    BY <2>1, <2>3, UrlParsed DEF airclip, pair, bad
  <2>5. [version |-> One, id |-> i, pk |-> pk, name |-> name, tok |-> t,
         hosts |-> NotEmpty(Split(Join(hosts, Comma), Comma))] = Made(One, i, t)
    BY <1>3
  <2> HIDE DEF Made
  <2> QED BY <1>5, <2>2, <2>3, <2>4, <2>5 DEF m
<1>8. q = Made(One, id, good) /\ id \in Is /\ other \in Is /\ good \in Ts /\ bad \in Ts /\ One \in Vs
      /\ two \in Vs /\ airclip \in Ss /\ other \in Ss /\ pair \in Hs /\ other \in Hs
  BY DEF pk, name
<1>9. bads = {Made(two, id, good), Made(One, other, good), Made(One, id, bad)}
  <2>1. /\ [q EXCEPT !.version = two] = Made(two, id, good)
        /\ [q EXCEPT !.id = other] = Made(One, other, good)
        /\ [q EXCEPT !.tok = bad] = Made(One, id, bad)
    BY DEF pk, name
  <2> QED BY <2>1
<1>hosts. Ok(q).val.hosts = hosts
  BY DEF Ok
<1> HIDE DEF Made, q, bads, Vs, Is, Ts, Ss, Hs
<1>to. \A p : ToUrl(p) = Url(airclip, pair, Query(p))
  BY DEF ToUrl, airclip, pair
<1>10. QrParse(ToUrl(q)) = Ok(q)
  BY <1>5, <1>7, <1>8, <1>to
<1>11. \A p \in bads : QrParse(ToUrl(p)) = Failed
  <2>1. /\ QrParse(ToUrl(Made(two, id, good))) = Failed
        /\ QrParse(ToUrl(Made(One, other, good))) = Failed
        /\ QrParse(ToUrl(Made(One, id, bad))) = Failed
    BY <1>5, <1>7, <1>8, <1>to
  <2> QED BY <1>9, <2>1
<1>12. \A p \in {Url(other, pair, Query(q)), Url(airclip, other, Query(q)), Query(q)} : QrParse(p) = Failed
  <2>1. QrParse(Url(other, pair, Query(q))) = Failed /\ QrParse(Url(airclip, other, Query(q))) = Failed
    BY <1>5, <1>7, <1>8
  <2>2. q \in Payloads
    BY <1>3, <1>4, <1>6, <1>8 DEF Payloads, name, Made
  <2>3. Query(q) \in Seq(QueryChars)
    BY <2>2, UrlRead
  <2>4. QrParse(Query(q)) = Failed
    BY <2>3, NoScheme
  <2> QED BY <2>1, <2>4
<1>13. ResolveHosts(QrParse(ToUrl(q)).val.hosts, addrs)
         = [i \in DOMAIN dialled |-> HostOf(dialled[i], Word.port)]
  BY <1>3, <1>10, <1>hosts
<1> QED BY <1>10, <1>11, <1>12, <1>13 DEF ScanYieldsOffer, q, bads, id, hosts, addrs, dialled, Offered,
           two, good, bad, other, airclip, pair

(* What one device puts into a TXT record, a pairing code or a payload map *)
(* is what the other reads, for every name, payload, list of interfaces    *)
(* and order of pairs; the name of a pairing code is any sequence of       *)
(* bytes, and a URL of another scheme or host, or without a scheme, is     *)
(* refused.                                                                *)
THEOREM WireFormatsAreRead == FormatsSpec => []WireFormats
<1>1. FormatsInit => WireFormats
  BY NamesAreCut, HintsAreAdvertised, ScansYieldOffers, MapsAreOrderFree DEF WireFormats
<1>2. FormatsInit /\ [FALSE]_in => FormatsInit'
  BY DEF FormatsInit
<1> QED BY <1>1, <1>2, PTL DEF FormatsSpec

=============================================================================
