---------------------------- MODULE DataInduction ----------------------------
(***************************************************************************)
(* Induction on the naturals and recursion up to a natural, stated for     *)
(* sets and functions, so that they can be cited for the recursive         *)
(* functions of the models, and what they say of Filters.                  *)
(***************************************************************************)
EXTENDS Filters, WellFoundedInduction, TLAPS

\* A set of naturals that is not empty has a least element.
LEMMA LeastNatural ==
  ASSUME NEW T \in SUBSET Nat, T # {}
  PROVE  \E m \in T : \A k \in T : m <= k
<1>. DEFINE R == OpToRel(<, Nat)
<1>1. IsWellFoundedOn(R, Nat)
  BY NatLessThanWellFounded
<1>2. \A x, y \in Nat : <<y, x>> \in R <=> y < x
  BY DEF OpToRel
<1>. HIDE DEF R
<1>3. PICK m \in T : \A k \in T : <<k, m>> \notin R
  BY <1>1, WFMin
<1>4. ASSUME NEW k \in T PROVE m <= k
  <2>1. ~(k < m)
    BY <1>2, <1>3
  <2>. QED
    BY <2>1
<1>. QED
  BY <1>4

\* A set of naturals with an upper bound has a greatest element.
LEMMA GreatestNatural ==
  ASSUME NEW n \in Nat, NEW S \in SUBSET (0..n), S # {}
  PROVE  \E m \in S : \A k \in S : m >= k
<1>. DEFINE T == {n - k : k \in S}
<1>1. T \in SUBSET Nat /\ T # {}
  <2>1. \A k \in S : n - k \in Nat
    OBVIOUS
  <2>2. PICK k \in S : TRUE
    OBVIOUS
  <2>3. n - k \in T
    OBVIOUS
  <2>. QED
    BY <2>1, <2>3
<1>. HIDE DEF T
<1>2. PICK x \in T : \A y \in T : x <= y
  BY <1>1, LeastNatural
<1>3. PICK m \in S : x = n - m
  BY <1>2 DEF T
<1>4. ASSUME NEW k \in S PROVE m >= k
  <2>1. n - m <= n - k
    BY <1>2, <1>3 DEF T
  <2>. QED
    BY <2>1
<1>. QED
  BY <1>4

\* Induction: a set that holds 0, and n + 1 whenever it holds n, holds them all.
LEMMA SetInduction ==
  ASSUME NEW S, 0 \in S, \A n \in Nat : n \in S => n + 1 \in S
  PROVE  Nat \subseteq S
<1>. DEFINE T == Nat \ S
<1>1. SUFFICES ASSUME T # {} PROVE FALSE
  OBVIOUS
<1>2. PICK m \in T : \A k \in T : m <= k
  BY <1>1, LeastNatural
<1>3. m # 0 /\ m - 1 \in Nat
  OBVIOUS
<1>4. m - 1 \in S
  BY <1>2, <1>3
<1>. QED
  BY <1>3, <1>4

\* Recursion: base, followed by what step[i] makes of the value before.
LEMMA RecursionExists ==
  ASSUME NEW D, NEW base \in D, NEW n \in Nat, NEW step \in [1..n -> [D -> D]]
  PROVE  \E h \in [0..n -> D] :
            /\ h[0] = base
            /\ \A i \in 1..n : h[i] = step[i][h[i - 1]]
<1>. DEFINE Upto(k, h) == h[0] = base /\ \A i \in 1..k : h[i] = step[i][h[i - 1]]
            T == {k \in Nat : k <= n => \E h \in [0..k -> D] : Upto(k, h)}
<1>1. 0 \in T
  <2>. DEFINE h == [i \in 0..0 |-> base]
  <2>1. h \in [0..0 -> D] /\ Upto(0, h)
    OBVIOUS
  <2>. QED
    BY <2>1
<1>2. ASSUME NEW k \in Nat, k \in T PROVE k + 1 \in T
  <2>. SUFFICES ASSUME k + 1 <= n PROVE \E h \in [0..(k + 1) -> D] : Upto(k + 1, h)
    OBVIOUS
  <2>1. PICK g \in [0..k -> D] : Upto(k, g)
    BY <1>2
  <2>. DEFINE h == [i \in 0..(k + 1) |-> IF i = k + 1 THEN step[k + 1][g[k]] ELSE g[i]]
  <2>2. step[k + 1][g[k]] \in D
    OBVIOUS
  <2>3. h \in [0..(k + 1) -> D]
    BY <2>2
  <2>4. h[0] = base
    BY <2>1
  <2>5. ASSUME NEW i \in 1..(k + 1) PROVE h[i] = step[i][h[i - 1]]
    BY <2>1
  <2>. QED
    BY <2>3, <2>4, <2>5
<1>. HIDE DEF T
<1>3. n \in T
  BY <1>1, <1>2, SetInduction
<1>. QED
  BY <1>3 DEF T

------------------------------------------------------------------------------
\* Filters go through the list once; g tells what they have kept after each element.
Walk(g, s, T) ==
    /\ g[0] = << >>
    /\ \A i \in 1..Len(s) : g[i] = IF s[i] \in T THEN Append(g[i - 1], s[i]) ELSE g[i - 1]

LEMMA OnlyWalks ==
  ASSUME NEW E, NEW s \in Seq(E), NEW T
  PROVE  \E g \in [0..Len(s) -> Seq(E)] : Only(s, T) = g[Len(s)] /\ Walk(g, s, T)
<1>. DEFINE n == Len(s)
            D == Seq(E)
            base == << >>
            Step(v, i) == IF s[i] \in T THEN Append(v, s[i]) ELSE v
            IsKept(g) == g = [i \in 0..n |-> IF i = 0 THEN base ELSE Step(g[i - 1], i)]
            step == [i \in 1..n |-> [v \in D |-> Step(v, i)]]
<1>1. n \in Nat
  OBVIOUS
<1>2. base \in D /\ step \in [1..n -> [D -> D]]
  OBVIOUS
<1>3. \A i \in 1..n : \A v \in D : Step(v, i) = step[i][v]
  OBVIOUS
<1>4. \A i \in 1..n : \A v \in D : Step(v, i) \in D
  OBVIOUS
<1>5. base = << >> /\ \A i, v : Step(v, i) = IF s[i] \in T THEN Append(v, s[i]) ELSE v
  OBVIOUS
<1>6. Only(s, T) = (CHOOSE g : IsKept(g))[n]
  BY DEF Only
<1>. HIDE DEF n, D, base, Step, step
<1>7. PICK h \in [0..n -> D] : h[0] = base /\ \A i \in 1..n : h[i] = step[i][h[i - 1]]
  <2>1. \E h \in [0..n -> D] : h[0] = base /\ \A i \in 1..n : h[i] = step[i][h[i - 1]]
    BY <1>1, <1>2, RecursionExists
  <2>. QED
    BY <2>1
<1>8. \A i \in 1..n : h[i] = Step(h[i - 1], i)
  <2>1. \A i \in 1..n : h[i - 1] \in D
    BY <1>1
  <2>. QED
    BY <1>3, <1>7, <2>1
<1>9. IsKept(h)
  <2>1. \A i \in 0..n : h[i] = IF i = 0 THEN base ELSE Step(h[i - 1], i)
    BY <1>1, <1>7, <1>8
  <2>. QED
    BY <2>1
<1>. DEFINE g == CHOOSE g : IsKept(g)
<1>10. IsKept(g)
  BY <1>9
<1>11. Only(s, T) = g[n]
  BY <1>6
<1>. HIDE DEF g
<1>12. g[0] = base /\ \A i \in 1..n : g[i] = Step(g[i - 1], i)
  <2>1. \A i \in 0..n : g[i] = IF i = 0 THEN base ELSE Step(g[i - 1], i)
    BY <1>10, Zenon
  <2>2. 0 \in 0..n /\ \A i \in 1..n : i \in 0..n /\ i # 0
    BY <1>1
  <2>. QED
    BY <2>1, <2>2
<1>. DEFINE S == {i \in Nat : i <= n => g[i] \in D}
<1>13. 0 \in S
  BY <1>2, <1>12
<1>14. ASSUME NEW i \in Nat, i \in S PROVE i + 1 \in S
  <2>. SUFFICES ASSUME i + 1 <= n PROVE g[i + 1] \in D
    OBVIOUS
  <2>1. g[i] \in D /\ i + 1 \in 1..n /\ i + 1 - 1 = i
    BY <1>1, <1>14
  <2>. QED
    BY <1>4, <1>12, <2>1
<1>15. \A i \in 0..n : g[i] \in D
  <2>. HIDE DEF S
  <2>1. Nat \subseteq S
    BY <1>13, <1>14, SetInduction
  <2>. QED
    BY <1>1, <2>1 DEF S
<1>16. g \in [0..n -> D]
  BY <1>10, <1>15
<1>17. g \in [0..Len(s) -> Seq(E)] /\ Only(s, T) = g[Len(s)] /\ Walk(g, s, T)
  BY <1>5, <1>11, <1>12, <1>16 DEF n, D, Walk
<1>. QED
  BY <1>17

\* What a filter leaves of the first n elements of s: some of them, in their order,
\* and all that are in T.
PartOf(k, s, n, T) ==
    /\ Len(k) <= n
    /\ \A j \in 1..Len(k) : k[j] \in T /\ \E i \in 1..n : k[j] = s[i]
    /\ \A j1, j2 \in 1..Len(k) : j1 < j2 =>
          \E i1, i2 \in 1..n : i1 < i2 /\ k[j1] = s[i1] /\ k[j2] = s[i2]
    /\ \A i \in 1..n : s[i] \in T => \E j \in 1..Len(k) : k[j] = s[i]

LEMMA PartExtends ==
  ASSUME NEW E, NEW s \in Seq(E), NEW T, NEW n \in Nat, n + 1 <= Len(s), NEW k \in Seq(E),
         PartOf(k, s, n, T)
  PROVE  PartOf(IF s[n + 1] \in T THEN Append(k, s[n + 1]) ELSE k, s, n + 1, T)
<1>1. /\ Len(k) \in Nat /\ Len(k) <= n
      /\ \A j \in 1..Len(k) : k[j] \in T /\ \E i \in 1..n : k[j] = s[i]
      /\ \A j1, j2 \in 1..Len(k) : j1 < j2 =>
            \E i1, i2 \in 1..n : i1 < i2 /\ k[j1] = s[i1] /\ k[j2] = s[i2]
      /\ \A i \in 1..n : s[i] \in T => \E j \in 1..Len(k) : k[j] = s[i]
  BY DEF PartOf
<1>2. s[n + 1] \in E
  OBVIOUS
<1>3. \A i \in 1..(n + 1) : i \in 1..n \/ i = n + 1
  OBVIOUS
<1>4. 1..n \subseteq 1..(n + 1) /\ n + 1 \in 1..(n + 1) /\ \A i \in 1..n : i < n + 1
  OBVIOUS
<1>5. CASE s[n + 1] \notin T
  <2>1. Len(k) <= n + 1
    BY <1>1
  <2>2. \A i \in 1..(n + 1) : s[i] \in T => \E j \in 1..Len(k) : k[j] = s[i]
    BY <1>1, <1>3, <1>5
  <2>3. \A j1, j2 \in 1..Len(k) : j1 < j2 =>
            \E i1, i2 \in 1..(n + 1) : i1 < i2 /\ k[j1] = s[i1] /\ k[j2] = s[i2]
    BY <1>1, <1>4
  <2>4. \A j \in 1..Len(k) : k[j] \in T /\ \E i \in 1..(n + 1) : k[j] = s[i]
    BY <1>1, <1>4
  <2>5. PartOf(k, s, n + 1, T)
    BY <2>1, <2>2, <2>3, <2>4 DEF PartOf
  <2>. QED
    BY <1>5, <2>5
<1>6. CASE s[n + 1] \in T
  <2>. DEFINE h == Append(k, s[n + 1])
  <2>1. /\ Len(h) = Len(k) + 1
        /\ \A j \in 1..Len(k) : h[j] = k[j]
        /\ h[Len(k) + 1] = s[n + 1]
    BY <1>1, <1>2
  <2>2. \A j \in 1..Len(h) : j \in 1..Len(k) \/ j = Len(k) + 1
    BY <1>1, <2>1
  <2>3. 1..Len(k) \subseteq 1..Len(h) /\ Len(k) + 1 \in 1..Len(h)
    BY <1>1, <2>1
  <2>. HIDE DEF h
  <2>4. Len(h) <= n + 1
    BY <1>1, <2>1
  <2>5. \A j \in 1..Len(h) : h[j] \in T /\ \E i \in 1..(n + 1) : h[j] = s[i]
    <3>1. ASSUME NEW j \in 1..Len(k) PROVE h[j] \in T /\ \E i \in 1..(n + 1) : h[j] = s[i]
      <4>1. PICK i \in 1..n : k[j] = s[i]
        BY <1>1
      <4>. QED
        BY <1>1, <1>4, <2>1, <4>1
    <3>. QED
      BY <1>4, <1>6, <2>1, <2>2, <3>1
  <2>6. ASSUME NEW j1 \in 1..Len(h), NEW j2 \in 1..Len(h), j1 < j2
        PROVE  \E i1, i2 \in 1..(n + 1) : i1 < i2 /\ h[j1] = s[i1] /\ h[j2] = s[i2]
    <3>1. j1 \in 1..Len(k)
      BY <1>1, <2>1, <2>6
    <3>2. CASE j2 \in 1..Len(k)
      <4>1. PICK i1 \in 1..n, i2 \in 1..n : i1 < i2 /\ k[j1] = s[i1] /\ k[j2] = s[i2]
        BY <1>1, <2>6, <3>1, <3>2
      <4>. QED
        BY <1>4, <2>1, <3>1, <3>2, <4>1
    <3>3. CASE j2 = Len(k) + 1
      <4>1. PICK i1 \in 1..n : k[j1] = s[i1]
        BY <1>1, <3>1
      <4>. QED
        BY <1>4, <2>1, <3>1, <3>3, <4>1
    <3>. QED
      BY <2>2, <3>2, <3>3
  <2>7. \A i \in 1..(n + 1) : s[i] \in T => \E j \in 1..Len(h) : h[j] = s[i]
    <3>1. \A i \in 1..n : s[i] \in T => \E j \in 1..Len(h) : h[j] = s[i]
      BY <1>1, <2>1, <2>3
    <3>. QED
      BY <1>3, <2>1, <2>3, <3>1
  <2>8. PartOf(h, s, n + 1, T)
    BY <2>4, <2>5, <2>6, <2>7 DEF PartOf
  <2>. QED
    BY <1>6, <2>8 DEF h
<1>. QED
  BY <1>5, <1>6

LEMMA OnlyIsPart ==
  ASSUME NEW E, NEW s \in Seq(E), NEW T
  PROVE  Only(s, T) \in Seq(E) /\ PartOf(Only(s, T), s, Len(s), T)
<1>. DEFINE n == Len(s)
<1>0. PICK g \in [0..n -> Seq(E)] : Only(s, T) = g[n] /\ Walk(g, s, T)
  BY OnlyWalks, Zenon
<1>1. /\ Only(s, T) = g[n]
      /\ g[0] = << >>
      /\ \A i \in 1..n : g[i] = IF s[i] \in T THEN Append(g[i - 1], s[i]) ELSE g[i - 1]
  BY <1>0 DEF Walk
<1>2. n \in Nat
  OBVIOUS
<1>. DEFINE S == {i \in Nat : i <= n => PartOf(g[i], s, i, T)}
<1>3. 0 \in S
  <2>1. PartOf(<< >>, s, 0, T)
    BY DEF PartOf
  <2>. QED
    BY <1>1, <2>1
<1>4. ASSUME NEW i \in Nat, i \in S PROVE i + 1 \in S
  <2>. SUFFICES ASSUME i + 1 <= n PROVE PartOf(g[i + 1], s, i + 1, T)
    OBVIOUS
  <2>1. g[i] \in Seq(E) /\ PartOf(g[i], s, i, T)
    BY <1>2, <1>4
  <2>2. i + 1 \in 1..n /\ i + 1 - 1 = i
    BY <1>2
  <2>3. g[i + 1] = IF s[i + 1] \in T THEN Append(g[i], s[i + 1]) ELSE g[i]
    BY <1>1, <2>2
  <2>4. PartOf(IF s[i + 1] \in T THEN Append(g[i], s[i + 1]) ELSE g[i], s, i + 1, T)
    BY <2>1, PartExtends
  <2>. QED
    BY <2>3, <2>4
<1>5. n \in S
  <2>. HIDE DEF S, n
  <2>1. Nat \subseteq S
    BY <1>3, <1>4, SetInduction
  <2>. QED
    BY <1>2, <2>1
<1>. QED
  BY <1>1, <1>2, <1>5

\* A list of which the filter leaves out nothing, or the first element only.
LEMMA OnlyRest ==
  ASSUME NEW E, NEW s \in Seq(E), NEW T, NEW d \in 0..1, d <= Len(s), d = 1 => s[1] \notin T,
         \A i \in (d + 1)..Len(s) : s[i] \in T
  PROVE  Only(s, T) = SubSeq(s, d + 1, Len(s))
<1>. DEFINE n == Len(s)
<1>0. PICK g \in [0..n -> Seq(E)] : Only(s, T) = g[n] /\ Walk(g, s, T)
  BY OnlyWalks, Zenon
<1>1. /\ Only(s, T) = g[n]
      /\ g[0] = << >>
      /\ \A i \in 1..n : g[i] = IF s[i] \in T THEN Append(g[i - 1], s[i]) ELSE g[i - 1]
  BY <1>0 DEF Walk
<1>2. n \in Nat
  OBVIOUS
<1>3. g[d] = << >>
  <2>1. CASE d = 0
    BY <1>1, <2>1
  <2>2. CASE d = 1
    BY <1>1, <2>2
  <2>. QED
    BY <2>1, <2>2
<1>. DEFINE S == {i \in Nat : d + i <= n => g[d + i] = SubSeq(s, d + 1, d + i)}
<1>4. 0 \in S
  <2>1. SubSeq(s, d + 1, d + 0) = << >>
    OBVIOUS
  <2>. QED
    BY <1>3, <2>1
<1>5. ASSUME NEW i \in Nat, i \in S PROVE i + 1 \in S
  <2>. SUFFICES ASSUME d + (i + 1) <= n PROVE g[d + (i + 1)] = SubSeq(s, d + 1, d + (i + 1))
    OBVIOUS
  <2>1. g[d + i] = SubSeq(s, d + 1, d + i)
    BY <1>5
  <2>2. d + i + 1 \in 1..n /\ d + i + 1 \in (d + 1)..n
    BY <1>2
  <2>3. g[d + (i + 1)] = Append(g[d + i], s[d + (i + 1)])
    <3>. DEFINE m == d + (i + 1)
    <3>1. m \in 1..n /\ m - 1 = d + i
      BY <1>2
    <3>2. s[m] \in T
      BY <1>2
    <3>. HIDE DEF m, n
    <3>3. g[m] = Append(g[m - 1], s[m])
      BY <1>1, <3>1, <3>2
    <3>. QED
      BY <3>1, <3>3 DEF m
  <2>4. Append(SubSeq(s, d + 1, d + i), s[d + (i + 1)]) = SubSeq(s, d + 1, d + (i + 1))
    BY <1>2, <2>2
  <2>. QED
    BY <2>1, <2>3, <2>4
<1>6. n - d \in S
  <2>. HIDE DEF S, n
  <2>1. Nat \subseteq S
    BY <1>4, <1>5, SetInduction
  <2>2. n - d \in Nat
    BY <1>2 DEF n
  <2>. QED
    BY <2>1, <2>2
<1>7. d + (n - d) = n
  BY <1>2
<1>. QED
  BY <1>1, <1>2, <1>6, <1>7
==============================================================================
