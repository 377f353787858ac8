----------------------------- MODULE WireProofs -----------------------------
(***************************************************************************)
(* Proofs about Wire, for any base, magic, widths, frames, foreign bytes   *)
(* and cuts of the stream.                                                 *)
(*                                                                         *)
(* The numbers of the codec are recursive functions.  What they compute is *)
(* proved by induction, which the library has for operators only; its set  *)
(* form follows from the least element of a set of naturals.               *)
(***************************************************************************)
EXTENDS Wire, SequenceTheorems, WellFoundedInduction, TLAPS

-----------------------------------------------------------------------------
(* Induction and recursion. *)

(* A set of naturals that is not empty has a least element. *)
LEMMA Least ==
  ASSUME NEW T \in SUBSET Nat, NEW n \in T
  PROVE  \E x \in T : \A y \in T : x <= y
<1> DEFINE R == {ss \in Nat \X Nat : ss[1] < ss[2]}
<1>1. IsWellFoundedOn(R, Nat)
  BY NatLessThanWellFounded DEF OpToRel
<1>2. T \subseteq Nat /\ T # {}
  OBVIOUS
<1>3. \E x \in T : \A y \in T : ~ (<<y, x>> \in R)
  <2> HIDE DEF R
  <2> QED BY <1>1, <1>2, WFMin
<1>4. PICK x \in T : \A y \in T : ~ (<<y, x>> \in R)
  BY <1>3
<1>5. ASSUME NEW y \in T PROVE x <= y
  <2>1. x \in Nat /\ y \in Nat
    OBVIOUS
  <2>2. <<y, x>> \in R <=> y < x
    BY <2>1
  <2> QED BY <1>4, <2>1, <2>2
<1> QED BY <1>5

(* A set that has 0 and with a number its successor has all naturals. *)
LEMMA Induction ==
  ASSUME NEW T, 0 \in T, \A n \in Nat : n \in T => n + 1 \in T
  PROVE  \A n \in Nat : n \in T
<1> SUFFICES ASSUME NEW n \in Nat, n \notin T PROVE FALSE
  OBVIOUS
<1> DEFINE Out == {m \in Nat : m \notin T}
<1>1. PICK x \in Out : \A y \in Out : x <= y
  <2>1. Out \in SUBSET Nat /\ n \in Out
    OBVIOUS
  <2> HIDE DEF Out
  <2> QED BY <2>1, Least
<1>2. x \in Nat /\ x \notin T
  OBVIOUS
<1>3. x # 0
  BY <1>2
<1>4. x - 1 \in Nat /\ x - 1 \in T
  <2>1. x - 1 \in Nat /\ x - 1 < x
    BY <1>2, <1>3
  <2> QED BY <1>1, <1>2, <2>1
<1> QED BY <1>2, <1>4

(* g starts with c and goes on as h says. *)
Iterates(g, c, h, n) == g[0] = c /\ \A i \in 1..n : g[i] = h[i][g[i - 1]]

(* Primitive recursion defines a function. *)
LEMMA Recursion ==
  ASSUME NEW V, NEW c \in V, NEW h \in [Nat -> [V -> V]], NEW n \in Nat
  PROVE  \E g \in [0..n -> V] : Iterates(g, c, h, n)
<1> DEFINE T == {m \in Nat : \E g \in [0..m -> V] : Iterates(g, c, h, m)}
<1>1. 0 \in T
  <2> DEFINE g == [i \in 0..0 |-> c]
  <2>1. g \in [0..0 -> V] /\ g[0] = c /\ \A i \in 1..0 : g[i] = h[i][g[i - 1]]
    OBVIOUS
  <2> HIDE DEF g
  <2> QED BY <2>1 DEF Iterates
<1>2. ASSUME NEW m \in Nat, m \in T PROVE m + 1 \in T
  <2>1. PICK g \in [0..m -> V] : g[0] = c /\ \A i \in 1..m : g[i] = h[i][g[i - 1]]
    BY <1>2 DEF Iterates
  <2> DEFINE k == [i \in 0..(m + 1) |-> IF i = m + 1 THEN h[m + 1][g[m]] ELSE g[i]]
  <2>2. k \in [0..(m + 1) -> V]
    OBVIOUS
  <2>3. \A i \in 0..m : k[i] = g[i]
    OBVIOUS
  <2>4. k[m + 1] = h[m + 1][g[m]]
    OBVIOUS
  <2>5. ASSUME NEW i \in 1..(m + 1) PROVE k[i] = h[i][k[i - 1]]
    <3> HIDE DEF k
    <3> QED BY <2>1, <2>3, <2>4
  <2> HIDE DEF k
  <2>6. k[0] = c
    BY <2>1, <2>3
  <2> QED BY <2>2, <2>5, <2>6 DEF Iterates
<1> HIDE DEF T
<1>3. n \in T
  BY <1>1, <1>2, Induction
<1> QED BY <1>3 DEF T

-----------------------------------------------------------------------------
(* The numbers of the codec. *)

(* Division by the base leaves a digit. *)
LEMMA Digit ==
  ASSUME NEW x \in Nat
  PROVE  /\ x \div Base \in Nat /\ x % Base \in Bytes
         /\ x = Base * (x \div Base) + (x % Base)
<1>1. x \in Int /\ Base \in Int /\ Base > 0
  BY WireAssumption
<1>2. x \div Base \in Int /\ x % Base \in 0..(Base - 1)
  BY <1>1
<1>3. x = Base * (x \div Base) + (x % Base)
  BY <1>1
<1>4. x \div Base >= 0
  <2> DEFINE q == x \div Base
             r == x % Base
  <2>1. q \in Int /\ r \in Int /\ r < Base /\ x = Base * q + r
    BY <1>1, <1>2, <1>3
  <2> HIDE DEF q, r
  <2>2. ASSUME q < 0 PROVE FALSE
    <3>1. q <= -1
      BY <2>1, <2>2
    <3>2. Base * q <= Base * (-1)
      BY <3>1, <2>1, <1>1
    <3> QED BY <3>2, <2>1, <1>1
  <2> QED BY <2>1, <2>2 DEF q
<1> QED BY <1>1, <1>2, <1>3, <1>4 DEF Bytes

(* What division after division leaves of a number. *)
LEMMA Rests ==
  ASSUME NEW n \in Nat
  PROVE  /\ Rest(n)[0] = n
         /\ \A i \in 1..LenBytes : Rest(n)[i] = Rest(n)[i - 1] \div Base
         /\ \A i \in 0..LenBytes : Rest(n)[i] \in Nat
<1> DEFINE V == Nat
           h == [i \in Nat |-> [v \in V |-> v \div Base]]
           r == Rest(n)
<1>1. h \in [Nat -> [V -> V]] /\ n \in V /\ LenBytes \in Nat
  BY Digit, WireAssumption
<1> HIDE DEF h, V
<1>2. \E g \in [0..LenBytes -> V] : Iterates(g, n, h, LenBytes)
  BY <1>1, Recursion
<1>3. PICK g \in [0..LenBytes -> V] : Iterates(g, n, h, LenBytes)
  BY <1>2
<1>4. ASSUME NEW i \in 1..LenBytes PROVE g[i] = g[i - 1] \div Base
  <2>1. i \in Nat /\ g[i - 1] \in V
    BY <1>1
  <2>2. h[i][g[i - 1]] = g[i - 1] \div Base
    BY <2>1 DEF h
  <2> QED BY <1>3, <2>2 DEF Iterates
<1>5. g = [i \in 0..LenBytes |-> IF i = 0 THEN n ELSE g[i - 1] \div Base]
  BY <1>1, <1>3, <1>4 DEF Iterates
<1>6. r = [i \in 0..LenBytes |-> IF i = 0 THEN n ELSE r[i - 1] \div Base]
  BY <1>5 DEF Rest
<1> HIDE DEF r
<1>7. r[0] = n /\ \A i \in 1..LenBytes : r[i] = r[i - 1] \div Base
  <2>1. 0 \in 0..LenBytes /\ \A i \in 1..LenBytes : i \in 0..LenBytes /\ i # 0
    BY <1>1
  <2> QED BY <1>6, <2>1, Zenon
<1> DEFINE T == {i \in Nat : i <= LenBytes => r[i] \in Nat}
<1>8. 0 \in T
  BY <1>7
<1>9. ASSUME NEW i \in Nat, i \in T PROVE i + 1 \in T
  <2> SUFFICES ASSUME i + 1 <= LenBytes PROVE r[i + 1] \in Nat
    OBVIOUS
  <2>1. r[i] \in Nat /\ i + 1 \in 1..LenBytes /\ (i + 1) - 1 = i
    BY <1>9, <1>1
  <2>2. r[i + 1] = r[i] \div Base
    BY <1>7, <2>1
  <2> QED BY <2>1, <2>2, Digit
<1> HIDE DEF T
<1>10. \A i \in Nat : i \in T
  BY <1>8, <1>9, Induction
<1>11. \A i \in 0..LenBytes : r[i] \in Nat
  BY <1>10, <1>1 DEF T
<1> QED BY <1>7, <1>11 DEF r

(* A byte's place counts Base times as much as the one before. *)
LEMMA Places ==
  /\ Place[0] = 1
  /\ \A i \in 1..LenBytes : Place[i] = Base * Place[i - 1]
  /\ \A i \in 0..LenBytes : Place[i] \in Nat
<1> DEFINE V == Nat
           h == [i \in Nat |-> [v \in V |-> Base * v]]
<1>1. h \in [Nat -> [V -> V]] /\ 1 \in V /\ LenBytes \in Nat
  BY WireAssumption
<1> HIDE DEF h, V
<1>2. \E g \in [0..LenBytes -> V] : Iterates(g, 1, h, LenBytes)
  BY <1>1, Recursion
<1>3. PICK g \in [0..LenBytes -> V] : Iterates(g, 1, h, LenBytes)
  BY <1>2
<1>4. ASSUME NEW i \in 1..LenBytes PROVE g[i] = Base * g[i - 1]
  <2>1. i \in Nat /\ g[i - 1] \in V
    BY <1>1
  <2>2. h[i][g[i - 1]] = Base * g[i - 1]
    BY <2>1 DEF h
  <2> QED BY <1>3, <2>2 DEF Iterates
<1>5. g = [i \in 0..LenBytes |-> IF i = 0 THEN 1 ELSE Base * g[i - 1]]
  BY <1>1, <1>3, <1>4 DEF Iterates
<1>6. Place = [i \in 0..LenBytes |-> IF i = 0 THEN 1 ELSE Base * Place[i - 1]]
  BY <1>5 DEF Place
<1>7. Place[0] = 1 /\ \A i \in 1..LenBytes : Place[i] = Base * Place[i - 1]
  <2>1. 0 \in 0..LenBytes /\ \A i \in 1..LenBytes : i \in 0..LenBytes /\ i # 0
    BY <1>1
  <2> QED BY <1>6, <2>1, Zenon
<1> DEFINE T == {i \in Nat : i <= LenBytes => Place[i] \in Nat}
<1>8. 0 \in T
  BY <1>7
<1>9. ASSUME NEW i \in Nat, i \in T PROVE i + 1 \in T
  <2> SUFFICES ASSUME i + 1 <= LenBytes PROVE Place[i + 1] \in Nat
    OBVIOUS
  <2>1. Place[i] \in Nat /\ i + 1 \in 1..LenBytes /\ (i + 1) - 1 = i
    BY <1>9, <1>1
  <2>2. Place[i + 1] = Base * Place[i]
    BY <1>7, <2>1
  <2> QED BY <2>1, <2>2, WireAssumption
<1> HIDE DEF T
<1>10. \A i \in Nat : i \in T
  BY <1>8, <1>9, Induction
<1> QED BY <1>7, <1>10, <1>1 DEF T

(* The sum of the first bytes at their places. *)
LEMMA SumsOfBytes ==
  ASSUME NEW s \in Seq(Bytes), Len(s) = LenBytes
  PROVE  /\ Sums(s)[0] = 0
         /\ \A i \in 1..LenBytes : Sums(s)[i] = Sums(s)[i - 1] + s[i] * Place[i - 1]
         /\ \A i \in 0..LenBytes : Sums(s)[i] \in Nat
<1> DEFINE V == Nat
           d(i) == s[i] * Place[i - 1]
           h == [i \in Nat |-> [v \in V |-> IF i \in 1..LenBytes THEN v + d(i) ELSE v]]
           r == Sums(s)
<1>0. LenBytes \in Nat
  BY WireAssumption
<1>1. ASSUME NEW i \in 1..LenBytes PROVE d(i) \in Nat
  <2>1. s[i] \in Bytes /\ Place[i - 1] \in Nat
    BY <1>0, Places
  <2> QED BY <2>1, WireAssumption DEF Bytes
<1> HIDE DEF d
<1>2. h \in [Nat -> [V -> V]] /\ 0 \in V
  BY <1>1
<1> HIDE DEF h, V
<1>3. \E g \in [0..LenBytes -> V] : Iterates(g, 0, h, LenBytes)
  BY <1>0, <1>2, Recursion
<1>4. PICK g \in [0..LenBytes -> V] : Iterates(g, 0, h, LenBytes)
  BY <1>3
<1>5. ASSUME NEW i \in 1..LenBytes PROVE g[i] = g[i - 1] + d(i)
  <2>1. i \in Nat /\ g[i - 1] \in V
    BY <1>0
  <2>2. h[i][g[i - 1]] = g[i - 1] + d(i)
    BY <2>1 DEF h
  <2> QED BY <1>4, <2>2 DEF Iterates
<1>6. g = [i \in 0..LenBytes |-> IF i = 0 THEN 0 ELSE g[i - 1] + s[i] * Place[i - 1]]
  BY <1>0, <1>4, <1>5 DEF Iterates, d
<1>7. r = [i \in 0..LenBytes |-> IF i = 0 THEN 0 ELSE r[i - 1] + s[i] * Place[i - 1]]
  BY <1>6 DEF Sums
<1> HIDE DEF r
<1>8. r[0] = 0 /\ \A i \in 1..LenBytes : r[i] = r[i - 1] + s[i] * Place[i - 1]
  BY <1>7, <1>0
<1> DEFINE T == {i \in Nat : i <= LenBytes => r[i] \in Nat}
<1>9. 0 \in T
  BY <1>8
<1>10. ASSUME NEW i \in Nat, i \in T PROVE i + 1 \in T
  <2> SUFFICES ASSUME i + 1 <= LenBytes PROVE r[i + 1] \in Nat
    OBVIOUS
  <2>1. r[i] \in Nat /\ i + 1 \in 1..LenBytes /\ (i + 1) - 1 = i
    BY <1>10, <1>0
  <2>2. r[i + 1] = r[i] + d(i + 1)
    BY <1>8, <2>1 DEF d
  <2> QED BY <2>1, <2>2, <1>1
<1> HIDE DEF T
<1>11. \A i \in Nat : i \in T
  BY <1>9, <1>10, Induction
<1> QED BY <1>8, <1>11, <1>0 DEF T, r

(* A length field is a natural number, whoever wrote it. *)
LEMMA FromLeType ==
  ASSUME NEW s \in Seq(Bytes), Len(s) = LenBytes
  PROVE  FromLe(s) \in Nat
BY SumsOfBytes, WireAssumption DEF FromLe

(* to_le_bytes yields as many bytes as the field has. *)
LEMMA LeBytesType ==
  ASSUME NEW n \in Nat
  PROVE  /\ LeBytes(n) \in Seq(Bytes) /\ Len(LeBytes(n)) = LenBytes
         /\ \A i \in 1..LenBytes : LeBytes(n)[i] = Rest(n)[i - 1] % Base
<1>1. LenBytes \in Nat
  BY WireAssumption
<1>2. ASSUME NEW i \in 1..LenBytes PROVE Rest(n)[i - 1] % Base \in Bytes
  <2>1. Rest(n)[i - 1] \in Nat
    BY <1>1, Rests
  <2> QED BY <2>1, Digit
<1>3. LeBytes(n) \in [1..LenBytes -> Bytes]
  BY <1>2 DEF LeBytes
<1>4. LeBytes(n) \in Seq(Bytes) /\ Len(LeBytes(n)) = LenBytes
  BY <1>1, <1>3
<1> QED BY <1>4 DEF LeBytes

(* A product of a sum, as the next lemma needs it. *)
LEMMA Distribute ==
  ASSUME NEW p \in Nat, NEW x \in Nat, NEW d \in Nat
  PROVE  d * p + (Base * p) * x = p * (Base * x + d)
<1>1. Base \in Nat
  BY WireAssumption
<1>2. p * (Base * x + d) = p * (Base * x) + p * d
  BY <1>1
<1>3. p * (Base * x) = (Base * p) * x
  BY <1>1
<1>4. p * d = d * p
  OBVIOUS
<1>5. (Base * p) * x \in Nat /\ d * p \in Nat
  BY <1>1
<1> QED BY <1>2, <1>3, <1>4, <1>5

(* from_le_bytes of to_le_bytes is the number, if the field has room for   *)
(* it.                                                                     *)
LEMMA LengthRoundTrip ==
  ASSUME NEW n \in Nat, n < Place[LenBytes]
  PROVE  FromLe(LeBytes(n)) = n
<1> DEFINE s == LeBytes(n)
           S == Sums(s)
           R == Rest(n)
           T == {i \in Nat : i <= LenBytes => S[i] + Place[i] * R[i] = n}
<1>1. s \in Seq(Bytes) /\ Len(s) = LenBytes /\ \A i \in 1..LenBytes : s[i] = R[i - 1] % Base
  BY LeBytesType
<1>2. LenBytes \in Nat /\ Base \in Nat
  BY WireAssumption
<1> HIDE DEF s
<1>3. /\ S[0] = 0
      /\ \A i \in 1..LenBytes : S[i] = S[i - 1] + s[i] * Place[i - 1]
      /\ \A i \in 0..LenBytes : S[i] \in Nat
  BY <1>1, SumsOfBytes
<1>4. /\ R[0] = n
      /\ \A i \in 1..LenBytes : R[i] = R[i - 1] \div Base
      /\ \A i \in 0..LenBytes : R[i] \in Nat
  BY Rests
<1> HIDE DEF S, R
<1>5. 0 \in T
  BY <1>2, <1>3, <1>4, Places
<1>6. ASSUME NEW i \in Nat, i \in T PROVE i + 1 \in T
  <2> SUFFICES ASSUME i + 1 <= LenBytes PROVE S[i + 1] + Place[i + 1] * R[i + 1] = n
    OBVIOUS
  <2>1. i + 1 \in 1..LenBytes /\ (i + 1) - 1 = i /\ i \in 0..LenBytes /\ i + 1 \in 0..LenBytes
    BY <1>2
  <2>2. S[i] + Place[i] * R[i] = n
    BY <1>6, <2>1
  <2> DEFINE d == R[i] % Base
             x == R[i + 1]
             p == Place[i]
  <2>3. d \in Nat /\ x \in Nat /\ p \in Nat /\ S[i] \in Nat
    <3>1. R[i] \in Nat /\ x \in Nat /\ p \in Nat /\ S[i] \in Nat
      BY <2>1, <1>3, <1>4, Places
    <3>2. d \in 0..(Base - 1)
      BY <3>1, Digit DEF Bytes
    <3> QED BY <3>1, <3>2, <1>2
  <2>4. R[i] = Base * x + d
    BY <2>1, <1>4, Digit
  <2>5. S[i + 1] = S[i] + d * p
    BY <2>1, <1>1, <1>3
  <2>6. Place[i + 1] = Base * p
    BY <2>1, Places
  <2> HIDE DEF d, x
  <2>7. Place[i + 1] * x = (Base * p) * x
    BY <2>6
  <2> HIDE DEF p
  <2>8. d * p + (Base * p) * x = p * (Base * x + d)
    BY <2>3, Distribute
  <2>9. S[i] + p * (Base * x + d) = n
    BY <2>2, <2>4 DEF p
  <2>10. d * p \in Nat /\ (Base * p) * x \in Nat
    BY <2>3, <1>2
  <2>11. (S[i] + d * p) + (Base * p) * x = n
    BY <2>8, <2>9, <2>10, <2>3
  <2> QED BY <2>5, <2>7, <2>11 DEF x
<1> HIDE DEF T
<1>7. LenBytes \in T
  BY <1>2, <1>5, <1>6, Induction
<1>8. S[LenBytes] + Place[LenBytes] * R[LenBytes] = n
  BY <1>2, <1>7 DEF T
<1> DEFINE p == Place[LenBytes]
           x == R[LenBytes]
           v == S[LenBytes]
<1>9. p \in Nat /\ x \in Nat /\ v \in Nat /\ v + p * x = n /\ n < p
  BY <1>2, <1>3, <1>4, <1>8, Places
<1> HIDE DEF p, x, v
<1>10. x = 0
  <2> SUFFICES ASSUME x >= 1 PROVE FALSE
    BY <1>9
  <2>1. p * x >= p * 1
    BY <1>9
  <2> QED BY <2>1, <1>9
<1>11. v = n
  BY <1>9, <1>10
<1> QED BY <1>11 DEF v, S, s, FromLe

-----------------------------------------------------------------------------
(* Frames in a stream of bytes. *)

(* u is s and t one after the other. *)
Joins(u, s, t) ==
  /\ Len(u) = Len(s) + Len(t)
  /\ \A i \in 1..Len(s) : u[i] = s[i]
  /\ \A i \in 1..Len(t) : u[Len(s) + i] = t[i]

(* Concatenation joins its arguments. *)
LEMMA ConcatParts ==
  ASSUME NEW S, NEW s \in Seq(S), NEW t \in Seq(S)
  PROVE  s \o t \in Seq(S) /\ Joins(s \o t, s, t)
<1>1. Len(s) \in Nat /\ Len(t) \in Nat
  BY LenProperties
<1>2. /\ s \o t \in Seq(S) /\ Len(s \o t) = Len(s) + Len(t)
      /\ \A i \in 1..(Len(s) + Len(t)) :
           (s \o t)[i] = IF i <= Len(s) THEN s[i] ELSE t[i - Len(s)]
  BY ConcatProperties
<1>3. ASSUME NEW i \in 1..Len(s) PROVE (s \o t)[i] = s[i]
  <2>1. i \in 1..(Len(s) + Len(t)) /\ i <= Len(s)
    BY <1>1
  <2> QED BY <1>2, <2>1
<1>4. ASSUME NEW i \in 1..Len(t) PROVE (s \o t)[Len(s) + i] = t[i]
  <2>1. Len(s) + i \in 1..(Len(s) + Len(t)) /\ ~(Len(s) + i <= Len(s)) /\ (Len(s) + i) - Len(s) = i
    BY <1>1
  <2>2. (s \o t)[Len(s) + i] = t[(Len(s) + i) - Len(s)]
    BY <1>2, <2>1
  <2> QED BY <2>1, <2>2
<1> QED BY <1>2, <1>3, <1>4 DEF Joins

(* Where the parts of an encoded frame are. *)
LEMMA EncodeParts ==
  ASSUME NEW f \in Frames
  PROVE  /\ Encode(f) \in Seq(Bytes)
         /\ Len(f.payload) \in Nat
         /\ Len(Encode(f)) = HeaderLen + Len(f.payload)
         /\ \A i \in 1..Len(Magic) : Encode(f)[i] = Magic[i]
         /\ Encode(f)[Len(Magic) + 1] = f.ty
         /\ \A i \in 1..LenBytes :
              Encode(f)[Len(Magic) + 1 + i] = LeBytes(Len(f.payload))[i]
         /\ \A i \in 1..Len(f.payload) : Encode(f)[HeaderLen + i] = f.payload[i]
<1> DEFINE n == Len(f.payload)
           M == Len(Magic)
           a == Magic \o <<f.ty>>
           b == a \o LeBytes(n)
           e == b \o f.payload
<1>1. f.ty \in Bytes /\ f.payload \in Seq(Bytes) /\ Magic \in Seq(Bytes)
  BY WireAssumption
<1>2. n \in Nat /\ M \in Nat /\ LenBytes \in Nat
  BY <1>1, WireAssumption, LenProperties
<1>3. LeBytes(n) \in Seq(Bytes) /\ Len(LeBytes(n)) = LenBytes
  BY <1>2, LeBytesType
<1>4. <<f.ty>> \in Seq(Bytes) /\ Len(<<f.ty>>) = 1 /\ <<f.ty>>[1] = f.ty
  BY <1>1
<1>5. Encode(f) = e
  BY DEF Encode
<1> DEFINE ty == <<f.ty>>
           le == LeBytes(n)
<1> HIDE DEF n, ty, le
<1>6. /\ a \in Seq(Bytes) /\ Len(a) = M + 1 /\ a[M + 1] = f.ty
      /\ \A i \in 1..M : a[i] = Magic[i]
  <2>1. a \in Seq(Bytes) /\ Joins(a, Magic, <<f.ty>>)
    BY <1>1, <1>4, ConcatParts
  <2> HIDE DEF a
  <2> QED BY <1>2, <1>4, <2>1 DEF ty, Joins
<1> HIDE DEF a
<1>7. /\ b \in Seq(Bytes) /\ Len(b) = M + 1 + LenBytes
      /\ \A i \in 1..(M + 1) : b[i] = a[i]
      /\ \A i \in 1..LenBytes : b[M + 1 + i] = le[i]
  <2>1. b \in Seq(Bytes) /\ Joins(b, a, LeBytes(n))
    BY <1>3, <1>6, ConcatParts
  <2> HIDE DEF b
  <2> QED BY <1>2, <1>3, <1>6, <2>1 DEF le, Joins
<1> HIDE DEF b
<1>8. /\ e \in Seq(Bytes) /\ Len(e) = M + 1 + LenBytes + n
      /\ \A i \in 1..(M + 1 + LenBytes) : e[i] = b[i]
      /\ \A i \in 1..n : e[M + 1 + LenBytes + i] = f.payload[i]
  <2>1. e \in Seq(Bytes) /\ Joins(e, b, f.payload)
    BY <1>1, <1>7, ConcatParts
  <2> HIDE DEF e
  <2> QED BY <1>2, <1>7, <2>1 DEF n, Joins
<1> HIDE DEF e, M
<1>9. /\ \A i \in 1..M : e[i] = Magic[i]
      /\ e[M + 1] = f.ty
      /\ \A i \in 1..LenBytes : e[M + 1 + i] = le[i]
  BY <1>2, <1>6, <1>7, <1>8
<1> QED BY <1>2, <1>5, <1>8, <1>9 DEF HeaderLen, M, n, le

(* The sizes of a header. *)
LEMMA Sizes ==
  /\ Len(Magic) \in Nat /\ LenBytes \in Nat /\ LenBytes > 0
  /\ HeaderLen \in Nat /\ HeaderLen = Len(Magic) + 1 + LenBytes
<1>1. Magic \in Seq(Bytes)
  BY WireAssumption
<1> QED BY <1>1, LenProperties, WireAssumption DEF HeaderLen

(* p is the part of s from m to n. *)
IsPart(p, s, m, n) ==
  /\ Len(p) = n - m + 1
  /\ \A i \in 1..(n - m + 1) : p[i] = s[m + i - 1]

(* SubSeq takes a part. *)
LEMMA SubSeqPart ==
  ASSUME NEW S, NEW s \in Seq(S), NEW m \in Nat, NEW n \in Nat,
         1 <= m, m <= n + 1, n <= Len(s)
  PROVE  SubSeq(s, m, n) \in Seq(S) /\ IsPart(SubSeq(s, m, n), s, m, n)
<1>1. Len(s) \in Nat /\ \A i \in m..n : s[i] \in S
  BY LenProperties
<1>2. m \in Int /\ n \in Int
  OBVIOUS
<1> DEFINE p == SubSeq(s, m, n)
<1>3. /\ p \in Seq(S) /\ Len(p) = IF m <= n THEN n - m + 1 ELSE 0
      /\ \A i \in 1..(n - m + 1) : p[i] = s[m + i - 1]
  BY <1>1, <1>2, SubSeqProperties
<1> HIDE DEF p
<1>4. Len(p) = n - m + 1
  BY <1>3
<1>5. p \in Seq(S) /\ IsPart(p, s, m, n)
  BY <1>3, <1>4 DEF IsPart
<1> QED BY <1>5 DEF p

(* A sequence is what is before a place and what is after it. *)
LEMMA CutAt ==
  ASSUME NEW S, NEW s \in Seq(S), NEW n \in Nat, n <= Len(s)
  PROVE  /\ SubSeq(s, 1, n) \in Seq(S) /\ SubSeq(s, n + 1, Len(s)) \in Seq(S)
         /\ s = SubSeq(s, 1, n) \o SubSeq(s, n + 1, Len(s))
<1>1. Len(s) \in Nat
  BY LenProperties
<1>2. 1 \in 1..(Len(s) + 1) /\ n \in (1 - 1)..Len(s) /\ Len(s) \in n..Len(s)
  BY <1>1
<1>3. SubSeq(s, 1, n) \o SubSeq(s, n + 1, Len(s)) = SubSeq(s, 1, Len(s))
  BY <1>2, ConcatAdjacentSubSeq
<1>4. SubSeq(s, 1, Len(s)) = s
  BY SubSeqFull
<1>5. /\ 1 \in Nat /\ 1 <= 1 /\ 1 <= n + 1 /\ n + 1 \in Nat /\ 1 <= n + 1
      /\ n + 1 <= Len(s) + 1 /\ Len(s) <= Len(s)
  BY <1>1
<1>6. SubSeq(s, 1, n) \in Seq(S)
  BY <1>1, <1>5, SubSeqPart
<1>7. SubSeq(s, n + 1, Len(s)) \in Seq(S)
  BY <1>1, <1>5, SubSeqPart
<1> QED BY <1>3, <1>4, <1>6, <1>7

(* Concatenation of bytes is associative. *)
LEMMA Assoc ==
  ASSUME NEW s \in Seq(Bytes), NEW t \in Seq(Bytes), NEW u \in Seq(Bytes)
  PROVE  (s \o t) \o u = s \o (t \o u)
BY ConcatAssociative

(* The bytes of the length field of a buffer that holds a header. *)
LEMMA LenFieldBytes ==
  ASSUME NEW b \in Seq(Bytes), HasHeader(b)
  PROVE  LET s == SubSeq(b, Len(Magic) + 2, HeaderLen) IN
         /\ s \in Seq(Bytes) /\ Len(s) = LenBytes
         /\ \A i \in 1..LenBytes : s[i] = b[Len(Magic) + 1 + i]
<1> DEFINE M == Len(Magic)
           H == HeaderLen
           s == SubSeq(b, M + 2, H)
<1>1. M \in Nat /\ LenBytes \in Nat /\ LenBytes > 0 /\ H \in Nat /\ H = M + 1 + LenBytes
  BY Sizes
<1>2. Len(b) \in Nat /\ H <= Len(b)
  BY <1>1, LenProperties DEF HasHeader
<1> HIDE DEF M, H
<1>3. M + 2 \in Nat /\ 1 <= M + 2 /\ M + 2 <= H + 1
  BY <1>1
<1>4. s \in Seq(Bytes) /\ IsPart(s, b, M + 2, H)
  BY <1>1, <1>2, <1>3, SubSeqPart
<1> HIDE DEF s
<1>5. H - (M + 2) + 1 = LenBytes
  BY <1>1
<1>6. Len(s) = LenBytes
  BY <1>4, <1>5 DEF IsPart
<1>7. ASSUME NEW i \in 1..LenBytes PROVE s[i] = b[M + 1 + i]
  <2>1. (M + 2) + i - 1 = M + 1 + i
    BY <1>1
  <2> QED BY <1>4, <1>5, <2>1 DEF IsPart
<1> QED BY <1>4, <1>6, <1>7 DEF s, M, H

(* The length field of a header is a natural number. *)
LEMMA LenFieldType ==
  ASSUME NEW b \in Seq(Bytes), HasHeader(b)
  PROVE  LenField(b) \in Nat
BY LenFieldBytes, FromLeType DEF LenField

(* b and y together are an encoded frame with x behind it. *)
StartsWith(f, x, b, y) == Encode(f) \o x = b \o y

(* A buffer whose stream starts with an encoded frame has its bytes. *)
LEMMA EncodedBytes ==
  ASSUME NEW f \in Frames, NEW b \in Seq(Bytes), NEW x \in Seq(Bytes), NEW y \in Seq(Bytes),
         StartsWith(f, x, b, y),
         NEW i \in Nat, 1 <= i, i <= Len(b), i <= Len(Encode(f))
  PROVE  b[i] = Encode(f)[i]
<1> DEFINE e == Encode(f)
           u == e \o x
<1>1. e \in Seq(Bytes)
  BY EncodeParts
<1>2. Joins(u, e, x)
  BY <1>1, ConcatParts
<1>3. Joins(u, b, y)
  BY ConcatParts DEF StartsWith
<1>4. i \in 1..Len(e) /\ i \in 1..Len(b)
  BY <1>1, LenProperties
<1> HIDE DEF e, u
<1> QED BY <1>2, <1>3, <1>4 DEF Joins, e

(* The header of an encoded frame is as the decoder expects it, and says   *)
(* where the frame ends.                                                   *)
LEMMA EncodedHeader ==
  ASSUME NEW f \in Frames, ~TooLarge(f),
         NEW b \in Seq(Bytes), NEW x \in Seq(Bytes), NEW y \in Seq(Bytes),
         StartsWith(f, x, b, y), HasHeader(b)
  PROVE  ~BadHeader(b) /\ LenField(b) = Len(f.payload) /\ Total(b) = Len(Encode(f))
<1> DEFINE M == Len(Magic)
           n == Len(f.payload)
           E == Encode(f)
           H == HeaderLen
           s == SubSeq(b, M + 2, H)
           m == SubSeq(b, 1, M)
<1>1. M \in Nat /\ LenBytes \in Nat /\ H \in Nat /\ H = M + 1 + LenBytes
  BY Sizes
<1>2. Len(b) \in Nat /\ H <= Len(b)
  BY <1>1, LenProperties DEF HasHeader
<1>3. n \in Nat /\ Len(E) = H + n /\ n <= MaxFrameLen
  <2>1. n \in Nat /\ Len(E) = H + n
    BY EncodeParts
  <2> QED BY <2>1, WireAssumption DEF TooLarge
<1>4. /\ \A i \in 1..M : E[i] = Magic[i]
      /\ E[M + 1] = f.ty
      /\ \A i \in 1..LenBytes : E[M + 1 + i] = LeBytes(n)[i]
  BY EncodeParts
<1>5. ASSUME NEW i \in Nat, 1 <= i, i <= Len(b), i <= Len(E) PROVE b[i] = E[i]
  BY <1>5, EncodedBytes
<1> HIDE DEF E
<1>6. s \in Seq(Bytes) /\ Len(s) = LenBytes /\ \A i \in 1..LenBytes : s[i] = b[M + 1 + i]
  BY LenFieldBytes
<1>7. LeBytes(n) \in Seq(Bytes) /\ Len(LeBytes(n)) = LenBytes
  BY <1>3, LeBytesType
<1>8. Magic \in Seq(Bytes) /\ f.ty \in Types
  BY WireAssumption
<1> DEFINE le == LeBytes(n)
<1>9. FromLe(le) = n
  <2>1. n < Place[LenBytes]
    BY <1>1, <1>3, Places, WireAssumption
  <2> QED BY <1>3, <2>1, LengthRoundTrip
<1>10. s = le
  <2> HIDE DEF M, H, n, s, le
  <2>1. ASSUME NEW i \in 1..LenBytes PROVE s[i] = le[i]
    <3> DEFINE k == M + 1 + i
    <3>1. k \in Nat /\ 1 <= k /\ k <= H /\ k <= Len(b) /\ k <= Len(E)
      BY <1>1, <1>2, <1>3
    <3>2. b[k] = E[k]
      BY <3>1, <1>5
    <3> QED BY <3>2, <1>4, <1>6 DEF le
  <2>2. le \in Seq(Bytes) /\ Len(le) = LenBytes
    BY <1>7 DEF le
  <2> QED BY <1>6, <2>1, <2>2, SeqEqual
<1>11. m = Magic
  <2>1. m \in Seq(Bytes) /\ IsPart(m, b, 1, M)
    <3>1. 1 \in Nat /\ 1 <= 1 /\ 1 <= M + 1 /\ M <= Len(b)
      BY <1>1, <1>2
    <3> HIDE DEF M
    <3> QED BY <1>1, <3>1, SubSeqPart
  <2> HIDE DEF m, H, n
  <2>2. Len(m) = M
    <3> HIDE DEF M
    <3> QED BY <1>1, <2>1 DEF IsPart
  <2>3. ASSUME NEW i \in 1..M PROVE m[i] = Magic[i]
    <3> HIDE DEF M
    <3>1. i \in Nat /\ 1 <= i /\ i <= Len(b) /\ i <= Len(E) /\ i \in 1..(M - 1 + 1) /\ 1 + i - 1 = i
      BY <1>1, <1>2, <1>3
    <3>2. b[i] = E[i]
      BY <3>1, <1>5
    <3>3. m[i] = b[i]
      BY <3>1, <2>1 DEF IsPart
    <3> QED BY <3>2, <3>3, <1>4
  <2> QED BY <1>8, <2>1, <2>2, <2>3, SeqEqual
<1>12. b[M + 1] = f.ty
  <2> HIDE DEF M, H, n
  <2>1. M + 1 \in Nat /\ 1 <= M + 1 /\ M + 1 <= Len(b) /\ M + 1 <= Len(E)
    BY <1>1, <1>2, <1>3
  <2> QED BY <1>4, <1>5, <2>1
<1>13. LenField(b) = n
  <2> HIDE DEF le, n
  <2> QED BY <1>9, <1>10 DEF LenField
<1>14. ~(LenField(b) > MaxFrameLen)
  <2> HIDE DEF n
  <2> QED BY <1>3, <1>13, WireAssumption
<1>15. ~BadHeader(b)
  BY <1>8, <1>11, <1>12, <1>14 DEF BadHeader
<1> QED BY <1>3, <1>13, <1>15 DEF Total, E

(* The first frame the decoder takes is the one that was encoded, and what *)
(* follows is left.                                                        *)
LEMMA EncodedFrame ==
  ASSUME NEW f \in Frames, ~TooLarge(f),
         NEW b \in Seq(Bytes), NEW x \in Seq(Bytes), NEW y \in Seq(Bytes),
         StartsWith(f, x, b, y), HasFrame(b)
  PROVE  FirstFrame(b) = f /\ AfterFirst(b) \in Seq(Bytes) /\ x = AfterFirst(b) \o y
<1> DEFINE M == Len(Magic)
           n == Len(f.payload)
           E == Encode(f)
           H == HeaderLen
           T == Total(b)
           p == SubSeq(b, H + 1, T)
           A == AfterFirst(b)
<1>1. M \in Nat /\ LenBytes \in Nat /\ LenBytes > 0 /\ H \in Nat /\ H = M + 1 + LenBytes
  BY Sizes
<1>2. T = Len(E) /\ HasHeader(b)
  BY EncodedHeader DEF HasFrame
<1>3. E \in Seq(Bytes) /\ n \in Nat /\ Len(E) = H + n
  BY EncodeParts
<1>4. Len(b) \in Nat /\ T <= Len(b)
  <2>1. Len(b) \in Nat /\ Len(b) >= T
    BY LenProperties DEF HasFrame
  <2> HIDE DEF T, H, E, n
  <2>2. T \in Nat
    BY <1>1, <1>2, <1>3
  <2> QED BY <2>1, <2>2
<1>5. /\ E[M + 1] = f.ty
      /\ \A i \in 1..n : E[H + i] = f.payload[i]
  BY EncodeParts
<1>6. ASSUME NEW i \in Nat, 1 <= i, i <= Len(b), i <= Len(E) PROVE b[i] = E[i]
  BY <1>6, EncodedBytes
<1>7. f.payload \in Seq(Bytes) /\ f = [ty |-> f.ty, payload |-> f.payload]
  BY WireAssumption
<1>8. A = SubSeq(b, T + 1, Len(b)) /\ FirstFrame(b) = [ty |-> b[M + 1], payload |-> p]
  BY DEF AfterFirst, FirstFrame
<1> HIDE DEF T, H, E, M, A, n
<1>9. T \in Nat /\ T = H + n
  BY <1>1, <1>2, <1>3
<1>10. p = f.payload
  <2>1. H + 1 \in Nat /\ 1 <= H + 1 /\ H + 1 <= T + 1
    BY <1>1, <1>3, <1>9
  <2>2. p \in Seq(Bytes) /\ IsPart(p, b, H + 1, T)
    BY <1>4, <1>9, <2>1, SubSeqPart
  <2>3. T - (H + 1) + 1 = n
    BY <1>1, <1>3, <1>9
  <2> HIDE DEF p
  <2>4. Len(p) = n
    BY <2>2, <2>3 DEF IsPart
  <2>5. ASSUME NEW i \in 1..n PROVE p[i] = f.payload[i]
    <3> DEFINE k == H + i
    <3>1. (H + 1) + i - 1 = k /\ k \in Nat /\ 1 <= k /\ k <= Len(b) /\ k <= Len(E)
      BY <1>1, <1>2, <1>3, <1>4, <1>9
    <3>2. p[i] = b[k]
      BY <2>2, <2>3, <3>1 DEF IsPart
    <3>3. b[k] = E[k]
      BY <1>6, <3>1
    <3> QED BY <3>2, <3>3, <1>5
  <2> QED BY <1>7, <2>2, <2>4, <2>5, SeqEqual DEF n
<1>11. b[M + 1] = f.ty
  <2>1. M + 1 \in Nat /\ 1 <= M + 1 /\ M + 1 <= Len(b) /\ M + 1 <= Len(E)
    BY <1>1, <1>2, <1>3, <1>4, <1>9
  <2> QED BY <1>5, <1>6, <2>1
<1>12. FirstFrame(b) = f
  BY <1>7, <1>8, <1>10, <1>11
<1>13. SubSeq(b, 1, T) = E
  <2> DEFINE c == SubSeq(b, 1, T)
  <2>1. 1 \in Nat /\ 1 <= 1 /\ 1 <= T + 1
    BY <1>9
  <2>2. c \in Seq(Bytes) /\ IsPart(c, b, 1, T)
    BY <1>4, <1>9, <2>1, SubSeqPart
  <2> HIDE DEF c
  <2>3. Len(c) = T
    BY <1>9, <2>2 DEF IsPart
  <2>4. ASSUME NEW i \in 1..T PROVE c[i] = E[i]
    <3>1. i \in Nat /\ 1 <= i /\ i <= Len(b) /\ i <= Len(E) /\ i \in 1..(T - 1 + 1) /\ 1 + i - 1 = i
      BY <1>2, <1>4, <1>9
    <3> QED BY <2>2, <3>1, <1>6 DEF IsPart
  <2>5. c = E
    BY <1>2, <1>3, <2>2, <2>3, <2>4, SeqEqual
  <2> QED BY <2>5 DEF c
<1>14. A \in Seq(Bytes) /\ b = E \o A
  <2>1. SubSeq(b, T + 1, Len(b)) \in Seq(Bytes) /\ b = SubSeq(b, 1, T) \o SubSeq(b, T + 1, Len(b))
    BY <1>4, <1>9, CutAt
  <2> QED BY <1>8, <1>13, <2>1
<1>15. (E \o A) \o y = E \o (A \o y)
  <2>1. E \in Seq(Bytes) /\ A \in Seq(Bytes) /\ y \in Seq(Bytes)
    BY <1>3, <1>14
  <2> QED BY <2>1, Assoc
<1>16. E \o x = E \o (A \o y)
  BY <1>14, <1>15 DEF E, StartsWith
<1>17. A \o y \in Seq(Bytes)
  BY <1>14, ConcatParts
<1>18. x = A \o y
  BY <1>3, <1>16, <1>17, ConcatSimplifications
<1> QED BY <1>12, <1>14, <1>18 DEF A

-----------------------------------------------------------------------------
(* Steps keep the types. *)

GotFrames == [ty : Types, payload : Seq(Bytes)]

(* A frame the decoder takes is of a known type and no larger than it may  *)
(* be; what follows it is a buffer again.                                  *)
LEMMA FirstFrameType ==
  ASSUME NEW b \in Seq(Bytes), HasFrame(b)
  PROVE  /\ FirstFrame(b) \in GotFrames /\ AfterFirst(b) \in Seq(Bytes)
         /\ FirstFrame(b).ty \in Types /\ Len(FirstFrame(b).payload) <= MaxFrameLen
<1> DEFINE n == LenField(b)
           H == HeaderLen
           T == Total(b)
           p == SubSeq(b, H + 1, T)
<1>1. HasHeader(b) /\ b[Len(Magic) + 1] \in Types /\ ~(n > MaxFrameLen) /\ Len(b) >= T
  BY DEF HasFrame, BadHeader
<1>2. n \in Nat
  BY <1>1, LenFieldType
<1>3. H \in Nat /\ T = H + n
  BY Sizes DEF Total
<1>4. FirstFrame(b) = [ty |-> b[Len(Magic) + 1], payload |-> p]
  BY DEF FirstFrame
<1>5. Len(b) \in Nat
  BY LenProperties
<1> HIDE DEF n, H, T
<1>6. T \in Nat /\ T <= Len(b) /\ H + 1 \in Nat /\ 1 <= H + 1 /\ H + 1 <= T + 1 /\ T - (H + 1) + 1 = n
  BY <1>1, <1>2, <1>3, <1>5
<1>7. p \in Seq(Bytes) /\ IsPart(p, b, H + 1, T)
  BY <1>6, SubSeqPart
<1> HIDE DEF p
<1>8. Len(p) = n
  BY <1>6, <1>7 DEF IsPart
<1>9. AfterFirst(b) \in Seq(Bytes)
  BY <1>6, CutAt DEF AfterFirst, T
<1>10. n <= MaxFrameLen
  BY <1>1, <1>2, WireAssumption
<1> QED BY <1>1, <1>4, <1>7, <1>8, <1>9, <1>10 DEF GotFrames

(* The initial state has its types. *)
LEMMA InitTypes == Init => TypeOK
<1> SUFFICES ASSUME Init PROVE TypeOK
  OBVIOUS
<1>1. <<>> \in Seq(Frames) /\ <<>> \in Seq(Bytes) /\ <<>> \in Seq(GotFrames) /\ Len(<<>>) = 0
  BY EmptySeq
<1>2. 0 <= MaxSends
  BY WireAssumption
<1> QED BY <1>1, <1>2 DEF Init, TypeOK, GotFrames

(* Every step keeps the types. *)
LEMMA NextTypes == TypeOK /\ [Next]_vars => TypeOK'
<1> SUFFICES ASSUME TypeOK, [Next]_vars PROVE TypeOK'
  OBVIOUS
<1>0. /\ sent \in Seq(Frames) /\ Len(sent) <= MaxSends
      /\ foreign \in BOOLEAN /\ eof \in BOOLEAN /\ broken \in BOOLEAN
      /\ wire \in Seq(Bytes) /\ buf \in Seq(Bytes)
      /\ got \in Seq(GotFrames)
      /\ st \in {"open", "ended", "failed", "closed"}
  BY DEF TypeOK, GotFrames
<1>1. ASSUME NEW f \in Frames, Send(f) PROVE TypeOK'
  <2>1. sent' \in Seq(Frames) /\ Len(sent') = Len(sent) + 1
    BY <1>0, <1>1, AppendProperties DEF Send
  <2>2. Len(sent') <= MaxSends
    <3>1. Len(sent) \in Nat /\ Len(sent) < MaxSends
      BY <1>0, <1>1, LenProperties DEF Send, MaySend
    <3> QED BY <2>1, <3>1, WireAssumption
  <2>3. wire' \in Seq(Bytes)
    <3>1. Encode(f) \in Seq(Bytes)
      BY EncodeParts
    <3>2. wire \o Encode(f) \in Seq(Bytes)
      BY <1>0, <3>1, ConcatParts
    <3> QED BY <1>1, <3>2 DEF Send
  <2> QED BY <1>0, <1>1, <2>1, <2>2, <2>3 DEF Send, TypeOK, GotFrames
<1>2. ASSUME NEW f \in Frames, SendRefused(f) PROVE TypeOK'
  BY <1>0, <1>2 DEF SendRefused, TypeOK, GotFrames
<1>3. ASSUME PeerCloses \/ Breaks PROVE TypeOK'
  <2>0. Cuts /\ broken' \in BOOLEAN
    BY <1>0, <1>3 DEF PeerCloses, Breaks
  <2>1. PICK n \in 0..Len(wire) : wire' = SubSeq(wire, 1, n)
    BY <2>0 DEF Cuts
  <2>2. n \in Nat /\ n <= Len(wire)
    BY <1>0, LenProperties
  <2>3. SubSeq(wire, 1, n) \in Seq(Bytes)
    BY <1>0, <2>2, CutAt
  <2> QED BY <1>0, <2>0, <2>1, <2>3 DEF Cuts, TypeOK, GotFrames
<1>4. ASSUME NEW s \in Foreign, ForeignBytes(s) PROVE TypeOK'
  <2>1. s \in Seq(Bytes)
    BY WireAssumption
  <2>2. wire \o s \in Seq(Bytes)
    BY <1>0, <2>1, ConcatParts
  <2> QED BY <1>0, <1>4, <2>2 DEF ForeignBytes, TypeOK, GotFrames
<1>5. ASSUME NEW n \in 1..Len(wire), Read(n) PROVE TypeOK'
  <2>1. n \in Nat /\ n <= Len(wire)
    BY <1>0, LenProperties
  <2>2. SubSeq(wire, 1, n) \in Seq(Bytes) /\ SubSeq(wire, n + 1, Len(wire)) \in Seq(Bytes)
    BY <1>0, <2>1, CutAt
  <2>3. buf \o SubSeq(wire, 1, n) \in Seq(Bytes)
    BY <1>0, <2>2, ConcatParts
  <2> QED BY <1>0, <1>5, <2>2, <2>3 DEF Read, TypeOK, GotFrames
<1>6. ASSUME TakeFrame PROVE TypeOK'
  <2>1. FirstFrame(buf) \in GotFrames /\ AfterFirst(buf) \in Seq(Bytes)
    BY <1>0, <1>6, FirstFrameType DEF TakeFrame
  <2>2. got' \in Seq(GotFrames)
    BY <1>0, <1>6, <2>1, AppendProperties DEF TakeFrame
  <2> QED BY <1>0, <1>6, <2>1, <2>2 DEF TakeFrame, TypeOK, GotFrames
<1>7. ASSUME Refuse PROVE TypeOK'
  BY <1>0, <1>7 DEF Refuse, TypeOK, GotFrames
<1>8. ASSUME End PROVE TypeOK'
  BY <1>0, <1>8 DEF End, TypeOK, GotFrames
<1>9. ASSUME Closes PROVE TypeOK'
  BY <1>0, <1>9 DEF Closes, TypeOK, GotFrames
<1>10. ASSUME UNCHANGED vars PROVE TypeOK'
  BY <1>0, <1>10 DEF vars, TypeOK, GotFrames
<1> QED
  BY <1>1, <1>2, <1>3, <1>4, <1>5, <1>6, <1>7, <1>8, <1>9, <1>10 DEF Next, Receives

(* Both ends and the stream between them stay in their types.              *)
THEOREM TypeCorrect == Spec => []TypeOK
BY InitTypes, NextTypes, PTL DEF Spec

-----------------------------------------------------------------------------
(* Whatever a peer sends is contained. *)

GotSmall == \A i \in 1..Len(got) : got[i].ty \in Types /\ Len(got[i].payload) <= MaxFrameLen

(* A step changes what was received only by a frame taken. *)
LEMMA GotGrows ==
  ASSUME TypeOK, [Next]_vars
  PROVE  got' = got \/ (HasFrame(buf) /\ got' = Append(got, FirstFrame(buf)))
BY DEF TypeOK, Next, Receives, vars, Send, SendRefused, PeerCloses, Breaks, Cuts, ForeignBytes, Read,
       TakeFrame, Refuse, End, Closes

(* Every step keeps the frames that came out small. *)
LEMMA NextSmall == TypeOK /\ GotSmall /\ [Next]_vars => GotSmall'
<1> SUFFICES ASSUME TypeOK, GotSmall, [Next]_vars PROVE GotSmall'
  OBVIOUS
<1>1. CASE got' = got
  BY <1>1 DEF GotSmall
<1>2. CASE HasFrame(buf) /\ got' = Append(got, FirstFrame(buf))
  <2>1. buf \in Seq(Bytes) /\ got \in Seq(GotFrames)
    BY DEF TypeOK, GotFrames
  <2> DEFINE f == FirstFrame(buf)
  <2>2. f \in GotFrames /\ f.ty \in Types /\ Len(f.payload) <= MaxFrameLen
    BY <1>2, <2>1, FirstFrameType
  <2> HIDE DEF f
  <2>3. /\ Len(got') = Len(got) + 1 /\ got'[Len(got) + 1] = f
        /\ \A i \in 1..Len(got) : got'[i] = got[i]
    BY <1>2, <2>1, <2>2, AppendProperties DEF f
  <2>4. Len(got) \in Nat
    BY <2>1, LenProperties
  <2>5. ASSUME NEW i \in 1..(Len(got) + 1)
        PROVE  got'[i].ty \in Types /\ Len(got'[i].payload) <= MaxFrameLen
    <3>1. CASE i = Len(got) + 1
      BY <2>2, <2>3, <3>1
    <3>2. CASE i \in 1..Len(got)
      BY <2>3, <3>2 DEF GotSmall
    <3> QED BY <2>4, <3>1, <3>2
  <2> QED BY <2>3, <2>5 DEF GotSmall
<1> QED BY <1>1, <1>2, GotGrows

(* A receiver that has judged the header and not found the whole frame     *)
(* waits for less than the largest frame.                                  *)
LEMMA WaitsForLess ==
  ASSUME NEW b \in Seq(Bytes), ~BadHeader(b), ~HasFrame(b)
  PROVE  Len(b) < HeaderLen + MaxFrameLen
<1>1. Len(b) \in Nat /\ HeaderLen \in Nat /\ MaxFrameLen \in Nat
  BY LenProperties, Sizes, WireAssumption
<1>2. CASE ~HasHeader(b)
  BY <1>1, <1>2 DEF HasHeader
<1>3. CASE HasHeader(b)
  <2>1. LenField(b) \in Nat
    BY <1>3, LenFieldType
  <2>2. ~(LenField(b) > MaxFrameLen) /\ ~(Len(b) >= HeaderLen + LenField(b))
    BY <1>3 DEF BadHeader, HasFrame, Total
  <2> QED BY <1>1, <2>1, <2>2
<1> QED BY <1>2, <1>3

(* ForeignContained: no frame of an unknown type or above the largest size *)
(* comes out, and a receiver never buffers more than one largest frame     *)
(* while it waits for the rest, whatever bytes a peer sends and however    *)
(* they are cut.                                                           *)
THEOREM ForeignIsContained == Spec => []ForeignContained
<1>1. Init => TypeOK /\ GotSmall
  <2>1. Init => GotSmall
    BY DEF Init, GotSmall
  <2> QED BY <2>1, InitTypes
<1>2. (TypeOK /\ GotSmall) /\ [Next]_vars => (TypeOK /\ GotSmall)'
  BY NextTypes, NextSmall
<1>3. TypeOK /\ GotSmall => ForeignContained
  BY WaitsForLess DEF TypeOK, GotSmall, ForeignContained
<1> QED BY <1>1, <1>2, <1>3, PTL DEF Spec

-----------------------------------------------------------------------------
(* What is coming.  r[i] is the bytes of the stream from frame i on, for   *)
(* the frames after the k that have been taken of the n that were sent;    *)
(* bytes are what the receiver still has of them, and only an end of the   *)
(* stream loses any.                                                       *)

Coming(r, k, n, s, bytes, fo, e) ==
  /\ r \in [(k + 1)..(n + 1) -> Seq(Bytes)]
  /\ \A i \in (k + 1)..n : r[i] = Encode(s[i]) \o r[i + 1]
  /\ fo = FALSE => r[n + 1] = <<>>
  /\ \E lost \in Seq(Bytes) : r[k + 1] = bytes \o lost /\ (e = FALSE => lost = <<>>)

IsComing(k, n, s, bytes, fo, e) == \E r : Coming(r, k, n, s, bytes, fo, e)

(* The same, with x behind all that is coming. *)
Longer(q, k, n, s, bytes, x, fo) ==
  /\ q \in [(k + 1)..(n + 1) -> Seq(Bytes)]
  /\ \A i \in (k + 1)..n : q[i] = Encode(s[i]) \o q[i + 1]
  /\ fo = FALSE => q[n + 1] = x
  /\ q[k + 1] = bytes \o x

(* More bytes can follow what is coming. *)
LEMMA ComingMore ==
  ASSUME NEW k \in Nat, NEW n \in Nat, k <= n, NEW s \in Seq(Frames), Len(s) = n,
         NEW bytes \in Seq(Bytes), NEW x \in Seq(Bytes), NEW fo,
         NEW r, Coming(r, k, n, s, bytes, fo, FALSE)
  PROVE  \E q : Longer(q, k, n, s, bytes, x, fo)
<1> DEFINE q == [i \in (k + 1)..(n + 1) |-> r[i] \o x]
<1>1. /\ r \in [(k + 1)..(n + 1) -> Seq(Bytes)]
      /\ \A i \in (k + 1)..n : r[i] = Encode(s[i]) \o r[i + 1]
      /\ fo = FALSE => r[n + 1] = <<>>
  BY DEF Coming
<1>2. \A i \in (k + 1)..(n + 1) : r[i] \in Seq(Bytes)
  BY <1>1
<1>3. ASSUME NEW i \in (k + 1)..(n + 1) PROVE q[i] = r[i] \o x /\ q[i] \in Seq(Bytes)
  <2>1. r[i] \o x \in Seq(Bytes)
    BY <1>2, ConcatParts
  <2> QED BY <2>1
<1>4. q \in [(k + 1)..(n + 1) -> Seq(Bytes)]
  BY <1>3
<1> HIDE DEF q
<1>5. ASSUME NEW i \in (k + 1)..n PROVE q[i] = Encode(s[i]) \o q[i + 1]
  <2>1. i \in (k + 1)..(n + 1) /\ i + 1 \in (k + 1)..(n + 1) /\ i \in 1..n
    OBVIOUS
  <2>2. s[i] \in Frames
    BY <2>1
  <2>3. Encode(s[i]) \in Seq(Bytes)
    BY <2>2, EncodeParts
  <2> DEFINE E == Encode(s[i])
  <2>4. q[i] = (E \o r[i + 1]) \o x /\ q[i + 1] = r[i + 1] \o x /\ r[i + 1] \in Seq(Bytes)
    BY <1>1, <1>2, <1>3, <2>1
  <2> HIDE DEF E
  <2>5. (E \o r[i + 1]) \o x = E \o (r[i + 1] \o x)
    BY <2>3, <2>4, Assoc DEF E
  <2> QED BY <2>4, <2>5 DEF E
<1>6. ASSUME fo = FALSE PROVE q[n + 1] = x
  <2>1. n + 1 \in (k + 1)..(n + 1)
    OBVIOUS
  <2>2. q[n + 1] = <<>> \o x
    BY <1>1, <1>3, <1>6, <2>1
  <2> QED BY <2>2, ConcatEmptySeq
<1>7. q[k + 1] = bytes \o x
  <2>1. k + 1 \in (k + 1)..(n + 1)
    OBVIOUS
  <2>2. r[k + 1] = bytes
    <3>1. PICK lost \in Seq(Bytes) : r[k + 1] = bytes \o lost /\ lost = <<>>
      BY DEF Coming
    <3>2. bytes \o <<>> = bytes
      BY ConcatEmptySeq
    <3> QED BY <3>1, <3>2
  <2> QED BY <1>3, <2>1, <2>2
<1>8. Longer(q, k, n, s, bytes, x, fo)
  BY <1>4, <1>5, <1>6, <1>7 DEF Longer
<1> QED BY <1>8

(* send: the encoded frame comes after all that is coming. *)
LEMMA ComingSend ==
  ASSUME NEW k \in Nat, NEW n \in Nat, k <= n, NEW s \in Seq(Frames), Len(s) = n,
         NEW bytes \in Seq(Bytes), NEW f \in Frames,
         IsComing(k, n, s, bytes, FALSE, FALSE)
  PROVE  IsComing(k, n + 1, Append(s, f), bytes \o Encode(f), FALSE, FALSE)
<1> DEFINE x == Encode(f)
           t == Append(s, f)
<1>0. x \in Seq(Bytes)
  BY EncodeParts
<1>1. PICK r : Coming(r, k, n, s, bytes, FALSE, FALSE)
  BY DEF IsComing
<1> HIDE DEF x
<1>21. PICK q : Longer(q, k, n, s, bytes, x, FALSE)
  BY <1>0, <1>1, ComingMore
<1> DEFINE p == [i \in (k + 1)..(n + 2) |-> IF i = n + 2 THEN <<>> ELSE q[i]]
<1>2. /\ q \in [(k + 1)..(n + 1) -> Seq(Bytes)]
      /\ \A i \in (k + 1)..n : q[i] = Encode(s[i]) \o q[i + 1]
      /\ q[n + 1] = x
      /\ q[k + 1] = bytes \o x
  BY <1>21 DEF Longer
<1>3. \A i \in (k + 1)..(n + 1) : q[i] \in Seq(Bytes)
  BY <1>2
<1>4. <<>> \in Seq(Bytes)
  BY EmptySeq
<1>5. p \in [(k + 1)..((n + 1) + 1) -> Seq(Bytes)]
  BY <1>3, <1>4
<1>6. p[n + 2] = <<>> /\ \A i \in (k + 1)..(n + 1) : p[i] = q[i]
  OBVIOUS
<1> HIDE DEF p
<1>7. t[n + 1] = f /\ \A i \in 1..n : t[i] = s[i]
  BY AppendProperties
<1> HIDE DEF t
<1>8. ASSUME NEW i \in (k + 1)..(n + 1) PROVE p[i] = Encode(t[i]) \o p[i + 1]
  <2>1. CASE i = n + 1
    <3>1. p[i] = x /\ p[i + 1] = <<>>
      BY <1>2, <1>6, <2>1
    <3>2. x \o <<>> = x
      BY <1>0, ConcatEmptySeq
    <3> QED BY <1>7, <2>1, <3>1, <3>2 DEF x
  <2>2. CASE i # n + 1
    <3>1. i \in (k + 1)..n /\ i + 1 \in (k + 1)..(n + 1) /\ i \in 1..n
      BY <2>2
    <3>2. p[i] = q[i] /\ p[i + 1] = q[i + 1] /\ t[i] = s[i]
      BY <1>6, <1>7, <3>1
    <3> QED BY <1>2, <3>1, <3>2
  <2> QED BY <2>1, <2>2
<1>9. p[k + 1] = (bytes \o x) \o <<>>
  <2>1. p[k + 1] = bytes \o x
    <3>1. k + 1 \in (k + 1)..(n + 1)
      OBVIOUS
    <3>2. p[k + 1] = q[k + 1]
      BY <1>6, <3>1
    <3> QED BY <1>2, <3>2
  <2>2. bytes \o x \in Seq(Bytes)
    BY <1>0, ConcatParts
  <2>3. (bytes \o x) \o <<>> = bytes \o x
    BY <2>2, ConcatEmptySeq
  <2> QED BY <2>1, <2>3
<1>10. (n + 1) + 1 = n + 2
  OBVIOUS
<1>11. Coming(p, k, n + 1, t, bytes \o x, FALSE, FALSE)
  BY <1>4, <1>5, <1>6, <1>8, <1>9, <1>10 DEF Coming
<1> QED BY <1>11 DEF IsComing, x, t

(* Foreign bytes come after all that is coming. *)
LEMMA ComingForeign ==
  ASSUME NEW k \in Nat, NEW n \in Nat, k <= n, NEW s \in Seq(Frames), Len(s) = n,
         NEW bytes \in Seq(Bytes), NEW x \in Seq(Bytes),
         IsComing(k, n, s, bytes, FALSE, FALSE)
  PROVE  IsComing(k, n, s, bytes \o x, TRUE, FALSE)
<1>1. PICK r : Coming(r, k, n, s, bytes, FALSE, FALSE)
  BY DEF IsComing
<1>21. PICK q : Longer(q, k, n, s, bytes, x, FALSE)
  BY <1>1, ComingMore
<1>2. /\ q \in [(k + 1)..(n + 1) -> Seq(Bytes)]
      /\ \A i \in (k + 1)..n : q[i] = Encode(s[i]) \o q[i + 1]
      /\ q[k + 1] = bytes \o x
  BY <1>21 DEF Longer
<1>3. bytes \o x \in Seq(Bytes)
  BY ConcatParts
<1>4. (bytes \o x) \o <<>> = bytes \o x
  BY <1>3, ConcatEmptySeq
<1>5. <<>> \in Seq(Bytes)
  BY EmptySeq
<1>6. Coming(q, k, n, s, bytes \o x, TRUE, FALSE)
  BY <1>2, <1>4, <1>5 DEF Coming
<1> QED BY <1>6 DEF IsComing

(* The end of the stream loses what is on its way from some byte on. *)
LEMMA ComingCut ==
  ASSUME NEW k \in Nat, NEW n \in Nat, NEW s, NEW fo, NEW e,
         NEW b \in Seq(Bytes), NEW c \in Seq(Bytes),
         IsComing(k, n, s, b \o c, fo, e)
  PROVE  IsComing(k, n, s, b, fo, TRUE)
<1>1. PICK r : Coming(r, k, n, s, b \o c, fo, e)
  BY DEF IsComing
<1>2. PICK lost \in Seq(Bytes) : r[k + 1] = (b \o c) \o lost
  BY <1>1 DEF Coming
<1>3. (b \o c) \o lost = b \o (c \o lost)
  BY Assoc
<1>4. c \o lost \in Seq(Bytes)
  BY ConcatParts
<1>5. Coming(r, k, n, s, b, fo, TRUE)
  BY <1>1, <1>2, <1>3, <1>4 DEF Coming
<1> QED BY <1>5 DEF IsComing

(* A frame that is taken while one is due is that one. *)
LEMMA ComingTake ==
  ASSUME NEW k \in Nat, NEW n \in Nat, k < n, NEW s \in Seq(Frames), Len(s) = n,
         ~TooLarge(s[k + 1]), NEW fo, NEW e,
         NEW b \in Seq(Bytes), NEW w \in Seq(Bytes), HasFrame(b),
         IsComing(k, n, s, b \o w, fo, e)
  PROVE  /\ FirstFrame(b) = s[k + 1]
         /\ IsComing(k + 1, n, s, AfterFirst(b) \o w, fo, e)
<1> DEFINE f == s[k + 1]
           a == AfterFirst(b)
<1>1. PICK r : Coming(r, k, n, s, b \o w, fo, e)
  BY DEF IsComing
<1>2. PICK lost \in Seq(Bytes) : r[k + 1] = (b \o w) \o lost /\ (e = FALSE => lost = <<>>)
  BY <1>1 DEF Coming
<1>3. /\ r \in [(k + 1)..(n + 1) -> Seq(Bytes)]
      /\ \A i \in (k + 1)..n : r[i] = Encode(s[i]) \o r[i + 1]
      /\ fo = FALSE => r[n + 1] = <<>>
  BY <1>1 DEF Coming
<1>4. k + 1 \in (k + 1)..n /\ k + 2 \in (k + 1)..(n + 1) /\ (k + 1) + 1 = k + 2 /\ k + 1 \in 1..Len(s)
  OBVIOUS
<1>5. f \in Frames
  BY <1>4
<1>6. r[k + 1] = Encode(f) \o r[k + 2] /\ r[k + 2] \in Seq(Bytes)
  BY <1>3, <1>4
<1> DEFINE x == r[k + 2]
           y == w \o lost
<1>7. y \in Seq(Bytes)
  BY ConcatParts
<1>8. (b \o w) \o lost = b \o y
  BY Assoc
<1>9. StartsWith(f, x, b, y)
  BY <1>2, <1>6, <1>8 DEF StartsWith
<1> HIDE DEF x, y, f
<1>10. FirstFrame(b) = f /\ a \in Seq(Bytes) /\ x = a \o y
  <2>1. x \in Seq(Bytes) /\ ~TooLarge(f)
    BY <1>6 DEF x, f
  <2> QED BY <1>5, <1>7, <1>9, <2>1, EncodedFrame
<1> HIDE DEF a
<1>11. (a \o w) \o lost = a \o (w \o lost)
  BY <1>10, Assoc
<1>12. r[(k + 1) + 1] = (a \o w) \o lost
  BY <1>4, <1>10, <1>11 DEF x, y
<1> DEFINE q == [i \in ((k + 1) + 1)..(n + 1) |-> r[i]]
<1>13. /\ q \in [((k + 1) + 1)..(n + 1) -> Seq(Bytes)]
       /\ \A i \in ((k + 1) + 1)..(n + 1) : q[i] = r[i]
  BY <1>3
<1> HIDE DEF q
<1>14. ASSUME NEW i \in ((k + 1) + 1)..n PROVE q[i] = Encode(s[i]) \o q[i + 1]
  <2>1. i \in ((k + 1) + 1)..(n + 1) /\ i + 1 \in ((k + 1) + 1)..(n + 1) /\ i \in (k + 1)..n
    OBVIOUS
  <2> QED BY <1>3, <1>13, <2>1
<1>15. n + 1 \in ((k + 1) + 1)..(n + 1) /\ (k + 1) + 1 \in ((k + 1) + 1)..(n + 1)
  OBVIOUS
<1>16. Coming(q, k + 1, n, s, a \o w, fo, e)
  BY <1>2, <1>3, <1>12, <1>13, <1>14, <1>15 DEF Coming
<1> QED BY <1>10, <1>16 DEF IsComing, a, f

(* Nothing is buffered when all that was sent has been taken. *)
LEMMA NothingDue ==
  ASSUME NEW k \in Nat, NEW s, NEW e, NEW b \in Seq(Bytes), NEW w \in Seq(Bytes),
         IsComing(k, k, s, b \o w, FALSE, e)
  PROVE  b = <<>>
<1>1. PICK r : Coming(r, k, k, s, b \o w, FALSE, e)
  BY DEF IsComing
<1>2. PICK lost \in Seq(Bytes) : r[k + 1] = (b \o w) \o lost
  BY <1>1 DEF Coming
<1>3. r[k + 1] = <<>>
  BY <1>1 DEF Coming
<1>4. (b \o w) \o lost = b \o (w \o lost)
  BY Assoc
<1>5. w \o lost \in Seq(Bytes)
  BY ConcatParts
<1> DEFINE y == w \o lost
<1>6. b \o y = <<>>
  BY <1>2, <1>3, <1>4
<1> HIDE DEF y
<1> QED BY <1>5, <1>6, ConcatEqualIffEmpty DEF y

(* The header of the frame that is due is not refused. *)
LEMMA DueIsGood ==
  ASSUME NEW k \in Nat, NEW n \in Nat, k < n, NEW s \in Seq(Frames), Len(s) = n,
         ~TooLarge(s[k + 1]), NEW fo, NEW e,
         NEW b \in Seq(Bytes), NEW w \in Seq(Bytes),
         IsComing(k, n, s, b \o w, fo, e)
  PROVE  ~BadHeader(b)
<1> SUFFICES ASSUME HasHeader(b) PROVE ~BadHeader(b)
  BY DEF BadHeader
<1> DEFINE f == s[k + 1]
<1>1. PICK r : Coming(r, k, n, s, b \o w, fo, e)
  BY DEF IsComing
<1>2. PICK lost \in Seq(Bytes) : r[k + 1] = (b \o w) \o lost
  BY <1>1 DEF Coming
<1>3. /\ r \in [(k + 1)..(n + 1) -> Seq(Bytes)]
      /\ \A i \in (k + 1)..n : r[i] = Encode(s[i]) \o r[i + 1]
  BY <1>1 DEF Coming
<1>4. k + 1 \in (k + 1)..n /\ k + 2 \in (k + 1)..(n + 1) /\ (k + 1) + 1 = k + 2 /\ k + 1 \in 1..Len(s)
  OBVIOUS
<1>5. f \in Frames
  BY <1>4
<1>6. r[k + 1] = Encode(f) \o r[k + 2] /\ r[k + 2] \in Seq(Bytes)
  BY <1>3, <1>4
<1> DEFINE x == r[k + 2]
           y == w \o lost
<1>7. y \in Seq(Bytes)
  BY ConcatParts
<1>8. (b \o w) \o lost = b \o y
  BY Assoc
<1>9. StartsWith(f, x, b, y)
  BY <1>2, <1>6, <1>8 DEF StartsWith
<1>10. x \in Seq(Bytes) /\ ~TooLarge(f)
  BY <1>6
<1> HIDE DEF x, y, f
<1> QED BY <1>5, <1>7, <1>9, <1>10, EncodedHeader

-----------------------------------------------------------------------------
(* The invariant: what came out is what went in, as far as that goes, and  *)
(* the rest of it is in the buffer and on the wire, in front of whatever a *)
(* foreign peer sent.                                                      *)
SentSmall == \A i \in 1..Len(sent) : ~TooLarge(sent[i])

InOrder ==
  /\ \A i \in 1..Len(got) : i <= Len(sent) => got[i] = sent[i]
  /\ ~foreign => Len(got) <= Len(sent)

StreamInv ==
  Len(got) <= Len(sent) => IsComing(Len(got), Len(sent), sent, buf \o wire, foreign, eof)

SInv == TypeOK /\ SentSmall /\ InOrder /\ StreamInv

(* Nothing is coming at the start. *)
LEMMA InitStream == Init => SInv
<1> SUFFICES ASSUME Init PROVE SInv
  OBVIOUS
<1>1. TypeOK
  BY InitTypes
<1>2. /\ sent = <<>> /\ foreign = FALSE /\ wire = <<>> /\ eof = FALSE /\ buf = <<>> /\ got = <<>>
      /\ Len(<<>>) = 0
  BY DEF Init
<1>3. SentSmall /\ InOrder
  BY <1>2 DEF SentSmall, InOrder
<1> DEFINE r == [i \in 1..1 |-> <<>>]
<1>4. <<>> \in Seq(Bytes)
  BY EmptySeq
<1>5. r \in [(0 + 1)..(0 + 1) -> Seq(Bytes)] /\ r[0 + 1] = <<>>
  BY <1>4
<1> HIDE DEF r
<1>6. (<<>> \o <<>>) \o <<>> = <<>> /\ <<>> \o <<>> = <<>>
  BY <1>4, ConcatEmptySeq
<1>7. Coming(r, 0, 0, <<>>, <<>> \o <<>>, FALSE, FALSE)
  BY <1>4, <1>5, <1>6 DEF Coming
<1>8. StreamInv
  BY <1>2, <1>7 DEF StreamInv, IsComing
<1> QED BY <1>1, <1>3, <1>8 DEF SInv

(* The state of the stream, as the steps below use it. *)
LEMMA StreamFacts ==
  ASSUME SInv
  PROVE  /\ sent \in Seq(Frames) /\ wire \in Seq(Bytes) /\ buf \in Seq(Bytes)
         /\ got \in Seq(GotFrames) /\ foreign \in BOOLEAN /\ eof \in BOOLEAN
         /\ Len(got) \in Nat /\ Len(sent) \in Nat
         /\ buf \o wire \in Seq(Bytes)
<1>1. /\ sent \in Seq(Frames) /\ wire \in Seq(Bytes) /\ buf \in Seq(Bytes)
      /\ got \in Seq(GotFrames) /\ foreign \in BOOLEAN /\ eof \in BOOLEAN
  BY DEF SInv, TypeOK, GotFrames
<1>2. Len(got) \in Nat /\ Len(sent) \in Nat
  BY <1>1, LenProperties
<1>3. buf \o wire \in Seq(Bytes)
  BY <1>1, ConcatParts
<1> QED BY <1>1, <1>2, <1>3

(* send keeps the invariant. *)
LEMMA SendStream ==
  ASSUME SInv, TypeOK', NEW f \in Frames, Send(f)
  PROVE  SInv'
<1>1. /\ ~TooLarge(f) /\ sent' = Append(sent, f) /\ wire' = wire \o Encode(f)
      /\ foreign = FALSE /\ eof = FALSE
      /\ foreign' = foreign /\ eof' = eof /\ buf' = buf /\ got' = got
  BY StreamFacts DEF Send, MaySend
<1>2. /\ Len(sent') = Len(sent) + 1 /\ sent'[Len(sent) + 1] = f
      /\ \A i \in 1..Len(sent) : sent'[i] = sent[i]
  BY <1>1, StreamFacts, AppendProperties
<1>3. Len(got) <= Len(sent)
  BY <1>1 DEF SInv, InOrder
<1> DEFINE k == Len(got)
           n == Len(sent)
<1>4. k \in Nat /\ n \in Nat
  BY StreamFacts
<1>5. SentSmall'
  <2> SUFFICES ASSUME NEW i \in 1..Len(sent') PROVE ~TooLarge(sent'[i])
    BY DEF SentSmall, TooLarge
  <2>1. i = n + 1 \/ i \in 1..n
    BY <1>2, <1>4
  <2> QED BY <1>1, <1>2, <2>1 DEF SInv, SentSmall
<1>6. InOrder'
  <2> SUFFICES ASSUME NEW i \in 1..k PROVE got[i] = sent'[i]
    <3>1. k <= n + 1
      BY <1>3, <1>4
    <3> QED BY <1>1, <1>2, <3>1 DEF InOrder
  <2>1. i <= n /\ i \in 1..n
    BY <1>3, <1>4
  <2> QED BY <1>2, <2>1 DEF SInv, InOrder
<1>7. IsComing(k, n + 1, sent', buf' \o wire', foreign', eof')
  <2>1. IsComing(k, n, sent, buf \o wire, FALSE, FALSE)
    BY <1>1, <1>3 DEF SInv, StreamInv
  <2> DEFINE bytes == buf \o wire
  <2>2. bytes \in Seq(Bytes)
    BY StreamFacts
  <2>3. sent \in Seq(Frames) /\ Len(sent) = n /\ k <= n
    BY <1>3, StreamFacts
  <2> HIDE DEF bytes, n, k
  <2>4. IsComing(k, n + 1, Append(sent, f), bytes \o Encode(f), FALSE, FALSE)
    BY <1>4, <2>1, <2>2, <2>3, ComingSend DEF bytes
  <2>5. Encode(f) \in Seq(Bytes) /\ buf \in Seq(Bytes) /\ wire \in Seq(Bytes)
    BY EncodeParts, StreamFacts
  <2>6. (buf \o wire) \o Encode(f) = buf \o (wire \o Encode(f))
    BY <2>5, Assoc
  <2> QED BY <1>1, <2>4, <2>6 DEF bytes
<1>8. StreamInv'
  BY <1>1, <1>2, <1>7 DEF StreamInv
<1> QED BY <1>5, <1>6, <1>8 DEF SInv

(* Bytes of a foreign peer keep the invariant. *)
LEMMA ForeignStream ==
  ASSUME SInv, TypeOK', NEW s \in Foreign, ForeignBytes(s)
  PROVE  SInv'
<1>1. /\ wire' = wire \o s /\ foreign = FALSE /\ eof = FALSE
      /\ foreign' = TRUE /\ eof' = eof /\ buf' = buf /\ got' = got /\ sent' = sent
  BY StreamFacts DEF ForeignBytes
<1>2. Len(got) <= Len(sent)
  BY <1>1 DEF SInv, InOrder
<1>3. SentSmall' /\ InOrder'
  BY <1>1 DEF SInv, SentSmall, InOrder, TooLarge
<1> DEFINE k == Len(got)
           n == Len(sent)
           bytes == buf \o wire
<1>4. k \in Nat /\ n \in Nat /\ bytes \in Seq(Bytes) /\ sent \in Seq(Frames) /\ Len(sent) = n /\ k <= n
  BY <1>2, StreamFacts
<1>5. IsComing(k, n, sent, bytes, FALSE, FALSE)
  BY <1>1, <1>2 DEF SInv, StreamInv
<1>6. s \in Seq(Bytes) /\ buf \in Seq(Bytes) /\ wire \in Seq(Bytes)
  BY StreamFacts, WireAssumption
<1>7. (buf \o wire) \o s = buf \o (wire \o s)
  BY <1>6, Assoc
<1>8. IsComing(k, n, sent, bytes \o s, TRUE, FALSE)
  <2> HIDE DEF k, n, bytes
  <2> QED BY <1>4, <1>5, <1>6, ComingForeign
<1>9. StreamInv'
  BY <1>1, <1>7, <1>8 DEF StreamInv
<1> QED BY <1>3, <1>9 DEF SInv

(* The end of the stream keeps the invariant, wherever it cuts it. *)
LEMMA ClosesStream ==
  ASSUME SInv, TypeOK', Cuts
  PROVE  SInv'
<1>1. /\ eof' = TRUE /\ foreign' = foreign /\ buf' = buf /\ got' = got /\ sent' = sent
  BY DEF Cuts
<1>2. PICK m \in 0..Len(wire) : wire' = SubSeq(wire, 1, m)
  BY DEF Cuts
<1>3. SentSmall' /\ InOrder'
  BY <1>1 DEF SInv, SentSmall, InOrder, TooLarge
<1>4. ASSUME Len(got) <= Len(sent)
      PROVE  IsComing(Len(got), Len(sent), sent, buf \o wire', foreign, TRUE)
  <2>1. IsComing(Len(got), Len(sent), sent, buf \o wire, foreign, eof)
    BY <1>4 DEF SInv, StreamInv
  <2> DEFINE a == SubSeq(wire, 1, m)
             c == SubSeq(wire, m + 1, Len(wire))
  <2>2. wire \in Seq(Bytes) /\ buf \in Seq(Bytes) /\ m \in Nat /\ m <= Len(wire)
    BY StreamFacts, LenProperties
  <2>3. a \in Seq(Bytes) /\ c \in Seq(Bytes) /\ wire = a \o c
    BY <2>2, CutAt
  <2> HIDE DEF a, c
  <2>4. (buf \o a) \o c = buf \o (a \o c)
    BY <2>2, <2>3, Assoc
  <2> DEFINE b == buf \o a
  <2>5. b \in Seq(Bytes)
    BY <2>2, <2>3, ConcatParts
  <2>6. IsComing(Len(got), Len(sent), sent, b \o c, foreign, eof)
    BY <2>1, <2>3, <2>4
  <2> HIDE DEF b
  <2> DEFINE k == Len(got)
             n == Len(sent)
  <2>8. k \in Nat /\ n \in Nat /\ foreign \in BOOLEAN /\ eof \in BOOLEAN
    BY StreamFacts
  <2>9. IsComing(k, n, sent, b \o c, foreign, eof)
    BY <2>6
  <2> HIDE DEF k, n
  <2>7. IsComing(k, n, sent, b, foreign, TRUE)
    BY <2>3, <2>5, <2>8, <2>9, ComingCut
  <2> QED BY <1>2, <2>7 DEF a, b, k, n
<1>5. StreamInv'
  BY <1>1, <1>4 DEF StreamInv
<1> QED BY <1>3, <1>5 DEF SInv

(* Reading moves bytes from the wire to the buffer. *)
LEMMA ReadStream ==
  ASSUME SInv, TypeOK', NEW m \in 1..Len(wire), Read(m)
  PROVE  SInv'
<1>1. /\ eof' = eof /\ foreign' = foreign /\ got' = got /\ sent' = sent
      /\ buf' = buf \o SubSeq(wire, 1, m) /\ wire' = SubSeq(wire, m + 1, Len(wire))
  BY DEF Read
<1>2. buf' \o wire' = buf \o wire
  <2> DEFINE a == SubSeq(wire, 1, m)
             c == SubSeq(wire, m + 1, Len(wire))
  <2>2. wire \in Seq(Bytes) /\ buf \in Seq(Bytes) /\ m \in Nat /\ m <= Len(wire)
    BY StreamFacts, LenProperties
  <2>3. a \in Seq(Bytes) /\ c \in Seq(Bytes) /\ wire = a \o c
    BY <2>2, CutAt
  <2> HIDE DEF a, c
  <2>4. (buf \o a) \o c = buf \o (a \o c)
    BY <2>2, <2>3, Assoc
  <2> QED BY <1>1, <2>3, <2>4 DEF a, c
<1> QED BY <1>1, <1>2 DEF SInv, SentSmall, InOrder, StreamInv, TooLarge

(* A frame taken while one is due is that one; and the invariant holds of  *)
(* what follows it.                                                        *)
LEMMA TakeStream ==
  ASSUME SInv, TypeOK', TakeFrame
  PROVE  /\ SInv'
         /\ Len(got) < Len(sent) => FirstFrame(buf) = sent[Len(got) + 1]
<1>1. /\ eof' = eof /\ foreign' = foreign /\ wire' = wire /\ sent' = sent /\ HasFrame(buf)
      /\ got' = Append(got, FirstFrame(buf)) /\ buf' = AfterFirst(buf)
  BY DEF TakeFrame
<1> DEFINE k == Len(got)
           n == Len(sent)
           f == FirstFrame(buf)
<1>2. k \in Nat /\ n \in Nat /\ sent \in Seq(Frames) /\ got \in Seq(GotFrames)
      /\ buf \in Seq(Bytes) /\ wire \in Seq(Bytes) /\ foreign \in BOOLEAN /\ eof \in BOOLEAN
  BY StreamFacts
<1>3. f \in GotFrames
  BY <1>1, <1>2, FirstFrameType
<1> HIDE DEF f
<1>4. Len(got') = k + 1 /\ got'[k + 1] = f /\ \A i \in 1..k : got'[i] = got[i]
  BY <1>1, <1>2, <1>3, AppendProperties DEF f
<1>5. ASSUME k < n
      PROVE  f = sent[k + 1] /\ IsComing(k + 1, n, sent, AfterFirst(buf) \o wire, foreign, eof)
  <2>1. k + 1 \in 1..Len(sent) /\ Len(sent) = n
    BY <1>2, <1>5
  <2>2. ~TooLarge(sent[k + 1])
    BY <2>1 DEF SInv, SentSmall
  <2>3. k <= n
    BY <1>2, <1>5
  <2>4. IsComing(k, n, sent, buf \o wire, foreign, eof)
    BY <2>3 DEF SInv, StreamInv
  <2>5. HasFrame(buf) /\ k < n /\ sent \in Seq(Frames) /\ k \in Nat /\ n \in Nat
        /\ buf \in Seq(Bytes) /\ wire \in Seq(Bytes)
    BY <1>1, <1>2, <1>5
  <2> HIDE DEF k, n
  <2>6. f = sent[k + 1]
    BY <2>1, <2>2, <2>4, <2>5, ComingTake DEF f
  <2>7. IsComing(k + 1, n, sent, AfterFirst(buf) \o wire, foreign, eof)
    BY <2>1, <2>2, <2>4, <2>5, ComingTake
  <2> QED BY <2>6, <2>7
<1>6. ASSUME k = n PROVE foreign
  <2> SUFFICES ASSUME foreign = FALSE PROVE FALSE
    BY <1>2
  <2>1. IsComing(k, k, sent, buf \o wire, FALSE, eof)
    <3>1. k <= n
      BY <1>2, <1>6
    <3> QED BY <1>6, <3>1 DEF SInv, StreamInv
  <2>2. buf = <<>>
    <3> HIDE DEF k
    <3> QED BY <1>2, <2>1, NothingDue
  <2>3. Len(buf) >= HeaderLen
    BY <1>1 DEF HasFrame, HasHeader
  <2> QED BY <2>2, <2>3, Sizes
<1>7. InOrder'
  <2>1. ASSUME NEW i \in 1..(k + 1), i <= n PROVE got'[i] = sent[i]
    <3>1. CASE i = k + 1
      BY <1>2, <1>4, <1>5, <2>1, <3>1
    <3>2. CASE i \in 1..k
      BY <1>4, <2>1, <3>2 DEF SInv, InOrder
    <3> QED BY <1>2, <3>1, <3>2
  <2>2. ~foreign => k + 1 <= n
    <3>1. ~foreign => k <= n
      BY DEF SInv, InOrder
    <3> QED BY <1>2, <1>6, <3>1
  <2> QED BY <1>1, <1>4, <2>1, <2>2 DEF InOrder
<1>8. StreamInv'
  <2> SUFFICES ASSUME k + 1 <= n
               PROVE  IsComing(k + 1, n, sent, AfterFirst(buf) \o wire, foreign, eof)
    BY <1>1, <1>4 DEF StreamInv
  <2>1. k < n
    BY <1>2
  <2> QED BY <1>5, <2>1
<1>9. SentSmall'
  BY <1>1 DEF SInv, SentSmall, TooLarge
<1> QED BY <1>5, <1>7, <1>8, <1>9 DEF SInv, f

(* Every step keeps the invariant. *)
LEMMA NextStream == SInv /\ [Next]_vars => SInv'
<1> SUFFICES ASSUME SInv, [Next]_vars PROVE SInv'
  OBVIOUS
<1>0. TypeOK'
  BY NextTypes DEF SInv
<1>1. ASSUME NEW f \in Frames, Send(f) PROVE SInv'
  BY <1>0, <1>1, SendStream
<1>2. ASSUME NEW f \in Frames, SendRefused(f) PROVE SInv'
  <2>1. /\ eof' = TRUE /\ foreign' = foreign /\ buf' = buf /\ got' = got /\ sent' = sent
        /\ wire' = wire
    BY <1>2 DEF SendRefused
  <2>2. ASSUME Len(got) <= Len(sent)
        PROVE  IsComing(Len(got), Len(sent), sent, buf \o wire, foreign, TRUE)
    <3> DEFINE b == buf \o wire
    <3>1. b \in Seq(Bytes) /\ <<>> \in Seq(Bytes)
      BY StreamFacts, EmptySeq
    <3>2. b \o <<>> = b
      BY <3>1, ConcatEmptySeq
    <3>3. IsComing(Len(got), Len(sent), sent, b \o <<>>, foreign, eof)
      BY <2>2, <3>2 DEF SInv, StreamInv
    <3> HIDE DEF b
    <3>4. IsComing(Len(got), Len(sent), sent, b, foreign, TRUE)
      BY <3>1, <3>3, StreamFacts, ComingCut
    <3> QED BY <3>4 DEF b
  <2>3. StreamInv'
    BY <2>1, <2>2 DEF StreamInv
  <2> QED BY <1>0, <2>1, <2>3 DEF SInv, SentSmall, InOrder, TooLarge
<1>3. ASSUME PeerCloses \/ Breaks PROVE SInv'
  BY <1>0, <1>3, ClosesStream DEF PeerCloses, Breaks
<1>4. ASSUME NEW s \in Foreign, ForeignBytes(s) PROVE SInv'
  BY <1>0, <1>4, ForeignStream
<1>5. ASSUME NEW n \in 1..Len(wire), Read(n) PROVE SInv'
  BY <1>0, <1>5, ReadStream
<1>6. ASSUME TakeFrame PROVE SInv'
  BY <1>0, <1>6, TakeStream
<1>7. ASSUME UNCHANGED <<sent, foreign, wire, eof, buf, got>> PROVE SInv'
  BY <1>0, <1>7 DEF SInv, SentSmall, InOrder, StreamInv, TooLarge
<1> QED
  BY <1>1, <1>2, <1>3, <1>4, <1>5, <1>6, <1>7 DEF Next, Receives, Refuse, End, Closes, vars

(* The frames that come out are the frames that went in, each once and in  *)
(* order; a peer that only uses send never makes more come out.            *)
THEOREM FramesComeInOrder == Spec => []InOrder
<1>1. SInv => InOrder
  BY DEF SInv
<1> QED BY <1>1, InitStream, NextStream, PTL DEF Spec

-----------------------------------------------------------------------------
(* Why next fails. *)

(* A header is refused only after bytes of a foreign peer: what is due is  *)
(* a frame that send let through, or nothing.                              *)
LEMMA RefusesForeign ==
  ASSUME SInv, BadHeader(buf)
  PROVE  foreign
<1> SUFFICES ASSUME foreign = FALSE PROVE FALSE
  BY StreamFacts
<1> DEFINE k == Len(got)
           n == Len(sent)
<1>1. k \in Nat /\ n \in Nat /\ sent \in Seq(Frames) /\ Len(sent) = n
      /\ buf \in Seq(Bytes) /\ wire \in Seq(Bytes)
  BY StreamFacts
<1>2. k <= n
  BY DEF SInv, InOrder
<1>3. IsComing(k, n, sent, buf \o wire, FALSE, eof)
  BY <1>2 DEF SInv, StreamInv
<1>4. k < n => ~TooLarge(sent[k + 1])
  <2>1. k < n => k + 1 \in 1..Len(sent)
    BY <1>1
  <2> QED BY <2>1 DEF SInv, SentSmall
<1> HIDE DEF k, n
<1>5. CASE k < n
  <2>1. ~BadHeader(buf)
    BY <1>1, <1>3, <1>4, <1>5, DueIsGood
  <2> QED BY <2>1
<1>6. CASE k = n
  <2>1. IsComing(k, k, sent, buf \o wire, FALSE, eof)
    BY <1>3, <1>6
  <2>2. buf = <<>>
    BY <1>1, <2>1, NothingDue
  <2>3. Len(buf) >= HeaderLen
    BY DEF BadHeader, HasHeader
  <2> QED BY <2>2, <2>3, Sizes
<1> QED BY <1>1, <1>2, <1>5, <1>6

(* What is left in the buffer belongs to a frame that is due, unless a     *)
(* foreign peer sent it.                                                   *)
LEMMA LeftIsDue ==
  ASSUME SInv, buf # <<>>, ~foreign
  PROVE  Len(got) < Len(sent)
<1> DEFINE k == Len(got)
           n == Len(sent)
<1>1. k \in Nat /\ n \in Nat /\ buf \in Seq(Bytes) /\ wire \in Seq(Bytes) /\ foreign = FALSE
  BY StreamFacts
<1>2. k <= n
  BY DEF SInv, InOrder
<1>3. IsComing(k, n, sent, buf \o wire, FALSE, eof)
  BY <1>1, <1>2 DEF SInv, StreamInv
<1> HIDE DEF k, n
<1>4. ASSUME k = n PROVE FALSE
  <2>1. IsComing(k, k, sent, buf \o wire, FALSE, eof)
    BY <1>3, <1>4
  <2> QED BY <1>1, <2>1, NothingDue
<1>5. k < n
  BY <1>1, <1>2, <1>4
<1> QED BY <1>5 DEF k, n

(* Every step keeps the reason of a failure. *)
LEMMA NextFails == SInv /\ FailsForAReason /\ [Next]_vars => FailsForAReason'
<1> SUFFICES ASSUME SInv, FailsForAReason, [Next]_vars, st' = "failed"
             PROVE  foreign' \/ broken' \/ (eof' /\ buf' # <<>> /\ Len(got') < Len(sent'))
  BY DEF FailsForAReason
<1>0. broken => broken'
  BY DEF Next, vars, Send, SendRefused, PeerCloses, Breaks, ForeignBytes, Receives, Read,
         TakeFrame, Refuse, End, Closes
<1>1. CASE st = "failed"
  <2>0. foreign \/ broken \/ (eof /\ buf # <<>> /\ Len(got) < Len(sent))
    BY <1>1 DEF FailsForAReason
  <2>1. foreign \in BOOLEAN /\ eof \in BOOLEAN
    BY StreamFacts
  <2>2. ASSUME NEW f \in Frames, Send(f) PROVE ~foreign /\ ~eof
    BY <2>2 DEF Send, MaySend
  <2>3. ASSUME NEW f \in Frames, SendRefused(f)
        PROVE  eof' /\ UNCHANGED <<foreign, buf, got, sent>>
    BY <2>3 DEF SendRefused
  <2>4. ASSUME PeerCloses \/ Breaks PROVE eof' /\ UNCHANGED <<foreign, buf, got, sent>>
    BY <2>4 DEF PeerCloses, Breaks, Cuts
  <2>5. ASSUME NEW s \in Foreign, ForeignBytes(s) PROVE foreign'
    BY <2>5 DEF ForeignBytes
  <2>6. ~Receives /\ ~Closes
    BY <1>1 DEF Receives, Read, TakeFrame, Refuse, End, Closes
  <2>7. ASSUME UNCHANGED vars PROVE UNCHANGED <<eof, foreign, buf, got, sent>>
    BY <2>7 DEF vars
  <2> QED BY <1>0, <2>0, <2>1, <2>2, <2>3, <2>4, <2>5, <2>6, <2>7 DEF Next
<1>2. CASE st # "failed"
  <2>1. Refuse \/ End
    BY <1>2 DEF Next, vars, Send, SendRefused, PeerCloses, Breaks, Cuts, ForeignBytes,
                Receives, Read, TakeFrame, Closes
  <2>2. CASE Refuse
    <3>1. foreign
      BY <2>2, RefusesForeign DEF Refuse
    <3> QED BY <2>2, <3>1 DEF Refuse
  <2>3. CASE End
    <3>1. eof /\ (buf # <<>> \/ broken) /\ UNCHANGED <<eof, foreign, buf, got, sent>>
      BY <2>3 DEF End
    <3>2. ~foreign /\ buf # <<>> => Len(got) < Len(sent)
      BY <3>1, LeftIsDue
    <3> QED BY <1>0, <3>1, <3>2
  <2> QED BY <2>1, <2>2, <2>3
<1> QED BY <1>1, <1>2

(* next reports an error only for bytes of a foreign peer, for a           *)
(* connection that broke or for a frame cut short by the end of the        *)
(* stream: the decoder refuses nothing that the encoder let through, and a *)
(* stream that was closed between frames ends well.                        *)
THEOREM FailsOnlyForAReason == Spec => []FailsForAReason
<1>1. Init => FailsForAReason
  BY DEF Init, FailsForAReason
<1> QED BY <1>1, InitStream, NextStream, NextFails, PTL DEF Spec

-----------------------------------------------------------------------------
(* The steps of the abstract connection. *)

(* What Fifo!taken stands for. *)
Taken == SubSeq(got, 1, IF Len(got) < Len(sent) THEN Len(got) ELSE Len(sent))

(* The first n of a sequence do not change when one is appended. *)
LEMMA SameStart ==
  ASSUME NEW S, NEW s \in Seq(S), NEW x \in S, NEW n \in Nat, n <= Len(s)
  PROVE  SubSeq(Append(s, x), 1, n) = SubSeq(s, 1, n)
<1> DEFINE t == Append(s, x)
           p == SubSeq(s, 1, n)
           q == SubSeq(t, 1, n)
<1>1. /\ t \in Seq(S) /\ Len(t) = Len(s) + 1 /\ \A i \in 1..Len(s) : t[i] = s[i]
      /\ Len(s) \in Nat
  BY AppendProperties, LenProperties
<1> HIDE DEF t
<1>2. p \in Seq(S) /\ IsPart(p, s, 1, n)
  BY <1>1, SubSeqPart
<1>3. q \in Seq(S) /\ IsPart(q, t, 1, n)
  BY <1>1, SubSeqPart
<1> HIDE DEF p, q
<1>4. n - 1 + 1 = n /\ \A i \in 1..n : 1 + i - 1 = i /\ i \in 1..Len(s)
  BY <1>1
<1>5. Len(p) = n /\ Len(q) = n /\ \A i \in 1..n : q[i] = p[i]
  BY <1>1, <1>2, <1>3, <1>4 DEF IsPart
<1>6. q = p
  BY <1>2, <1>3, <1>5, SeqEqual
<1> QED BY <1>6 DEF p, q, t

(* send is a Send of the abstract connection. *)
LEMMA SendFifo ==
  ASSUME SInv, NEW f \in Frames, Send(f)
  PROVE  sent' = Append(sent, f) /\ Taken' = Taken /\ st' = st
<1>1. sent' = Append(sent, f) /\ got' = got /\ st' = st /\ ~foreign
  BY DEF Send, MaySend
<1>2. Len(sent') = Len(sent) + 1 /\ Len(got) \in Nat /\ Len(sent) \in Nat
  BY <1>1, StreamFacts, AppendProperties
<1>3. Len(got) <= Len(sent)
  BY <1>1 DEF SInv, InOrder
<1> DEFINE k == Len(got)
           n == Len(sent)
           m == Len(sent')
<1>4. /\ (IF k < n THEN k ELSE n) = k
      /\ (IF k < m THEN k ELSE m) = k
  <2> HIDE DEF k, n, m
  <2> QED BY <1>2, <1>3 DEF k, n, m
<1> QED BY <1>1, <1>4 DEF Taken

(* A frame taken is a Take of the abstract connection while a frame that   *)
(* was sent is due, and nothing to it afterwards.                          *)
LEMMA TakeFifo ==
  ASSUME SInv, TypeOK', TakeFrame
  PROVE  \/ /\ Len(Taken) < Len(sent)
            /\ Taken' = Append(Taken, sent[Len(Taken) + 1])
         \/ Taken' = Taken
<1> DEFINE k == Len(got)
           n == Len(sent)
           f == FirstFrame(buf)
<1>1. sent' = sent /\ got' = Append(got, f) /\ HasFrame(buf)
  BY DEF TakeFrame
<1>2. k \in Nat /\ n \in Nat /\ got \in Seq(GotFrames) /\ buf \in Seq(Bytes)
  BY StreamFacts
<1>3. f \in GotFrames
  BY <1>1, <1>2, FirstFrameType
<1>4. k < n => f = sent[k + 1]
  BY TakeStream
<1> HIDE DEF f
<1>5. got' \in Seq(GotFrames) /\ Len(got') = k + 1
  BY <1>1, <1>2, <1>3, AppendProperties
<1>6. CASE k < n
  <2>1. Taken = SubSeq(got, 1, Len(got))
    BY <1>6 DEF Taken
  <2>2. Taken = got
    BY <1>2, <2>1, SubSeqFull
  <2>3. (IF k + 1 < n THEN k + 1 ELSE n) = k + 1
    <3> HIDE DEF k, n
    <3> QED BY <1>2, <1>6
  <2>4. Taken' = SubSeq(got', 1, Len(got'))
    BY <1>1, <1>5, <2>3 DEF Taken
  <2>5. Taken' = got'
    BY <1>5, <2>4, SubSeqFull
  <2> QED BY <1>1, <1>4, <1>6, <2>2, <2>5
<1>7. CASE ~(k < n)
  <2>1. n <= k /\ ~(k + 1 < n)
    <3> HIDE DEF k, n
    <3> QED BY <1>2, <1>7
  <2>2. Taken = SubSeq(got, 1, n)
    BY <1>7 DEF Taken
  <2>3. Taken' = SubSeq(Append(got, f), 1, n)
    BY <1>1, <1>5, <2>1 DEF Taken
  <2>4. SubSeq(Append(got, f), 1, n) = SubSeq(got, 1, n)
    <3> HIDE DEF n
    <3> QED BY <1>2, <1>3, <2>1, SameStart
  <2> QED BY <2>2, <2>3, <2>4
<1> QED BY <1>6, <1>7

(* Every step is a step of the abstract connection, or none. *)
LEMMA NextFifo == SInv /\ [Next]_vars => [Fifo!Next]_Fifo!vars
<1> SUFFICES ASSUME SInv, [Next]_vars PROVE [Fifo!Next]_Fifo!vars
  OBVIOUS
<1>0. TypeOK'
  BY NextTypes DEF SInv
<1>1. ASSUME NEW f \in Frames, Send(f) PROVE Fifo!Next
  <2>1. sent' = Append(sent, f) /\ Taken' = Taken /\ st' = st
    BY <1>1, SendFifo
  <2>2. Fifo!Send
    BY <2>1 DEF Fifo!Send, Taken
  <2> QED BY <2>2 DEF Fifo!Next
<1>2. ASSUME TakeFrame PROVE [Fifo!Next]_Fifo!vars
  <2>1. st = "open" /\ st' = st /\ sent' = sent
    BY <1>2 DEF TakeFrame
  <2>2. \/ /\ Len(Taken) < Len(sent)
           /\ Taken' = Append(Taken, sent[Len(Taken) + 1])
        \/ Taken' = Taken
    BY <1>0, <1>2, TakeFifo
  <2>3. ASSUME Len(Taken) < Len(sent), Taken' = Append(Taken, sent[Len(Taken) + 1])
        PROVE  Fifo!Next
    <3>1. Fifo!Take
      BY <2>1, <2>3 DEF Fifo!Take, Taken
    <3> QED BY <3>1 DEF Fifo!Next
  <2>4. ASSUME Taken' = Taken PROVE UNCHANGED Fifo!vars
    BY <2>1, <2>4 DEF Fifo!vars, Taken
  <2> QED BY <2>2, <2>3, <2>4
<1>3. ASSUME UNCHANGED <<sent, got>>, st = "open", st' # "open" PROVE Fifo!Next
  <2>1. Taken' = Taken
    BY <1>3 DEF Taken
  <2>2. Fifo!End
    BY <1>3, <2>1 DEF Fifo!End, Taken
  <2> QED BY <2>2 DEF Fifo!Next
<1>4. ASSUME UNCHANGED <<sent, got, st>> PROVE UNCHANGED Fifo!vars
  BY <1>4 DEF Fifo!vars
<1>5. ASSUME Refuse \/ End \/ Closes PROVE UNCHANGED <<sent, got>> /\ st = "open" /\ st' # "open"
  BY <1>5 DEF Refuse, End, Closes
<1>6. ASSUME \/ \E f \in Frames : SendRefused(f)
             \/ PeerCloses \/ Breaks
             \/ \E s \in Foreign : ForeignBytes(s)
             \/ \E n \in 1..Len(wire) : Read(n)
             \/ UNCHANGED vars
      PROVE  UNCHANGED <<sent, got, st>>
  BY <1>6 DEF SendRefused, PeerCloses, Breaks, Cuts, ForeignBytes, Read, vars
<1> QED BY <1>1, <1>2, <1>3, <1>4, <1>5, <1>6 DEF Next, Receives

(* The codec over the stream implements the abstract connection, as far as *)
(* safety goes: it starts as that does and takes no other steps.           *)
THEOREM StepsOfFifo == Spec => Fifo!Init /\ [][Fifo!Next]_Fifo!vars
<1>1. Init => Fifo!Init
  <2> SUFFICES ASSUME Init PROVE Fifo!Init
    OBVIOUS
  <2>1. sent = <<>> /\ got = <<>> /\ st = "open" /\ Len(<<>>) = 0
    BY DEF Init
  <2>2. SubSeq(got, 1, 0) = <<>>
    BY SubSeqEmpty
  <2>3. Taken = <<>>
    BY <2>1, <2>2 DEF Taken
  <2> QED BY <2>1, <2>3 DEF Fifo!Init, Taken
<1> QED BY <1>1, InitStream, NextStream, NextFifo, PTL DEF Spec
=============================================================================
