----------------------------- MODULE DataLemmas -----------------------------
(***************************************************************************)
(* Facts about numbers and sequences that several proofs need.  A fact     *)
(* about every number is proved by the least one it fails for.             *)
(***************************************************************************)
EXTENDS Integers, Sequences, SequencesExt, WellFoundedInduction, TLAPS

\* Every set of numbers that is not empty has a least one.
LEMMA NatLeast ==
  ASSUME NEW T \in SUBSET Nat, T # {}
  PROVE  \E m \in T : \A k \in T : m <= k
<1>1. PICK R : R = {p \in Nat \X Nat : p[1] < p[2]}
  OBVIOUS
<1>2. R = OpToRel(<, Nat)
  BY <1>1 DEF OpToRel
<1>3. IsWellFoundedOn(R, Nat)
  BY <1>2, NatLessThanWellFounded
<1>4. PICK x \in T : \A y \in T : <<y, x>> \notin R
  BY <1>3, WFMin
<1>5. ASSUME NEW y \in T PROVE x <= y
  <2>1. ~(y < x)
    BY <1>1, <1>4
  <2>2. QED  BY <2>1
<1>6. QED  BY <1>5

\* One entry of a sequence is replaced.
LEMMA OneEntryChanges ==
  ASSUME NEW S, NEW q \in Seq(S), NEW k \in DOMAIN q, NEW r \in S
  PROVE  LET new == [q EXCEPT ![k] = r] IN
         /\ new \in Seq(S) /\ DOMAIN new = DOMAIN q
         /\ new[k] = r /\ \A t \in DOMAIN q \ {k} : new[t] = q[t]
OBVIOUS

\* What is made of x step by step, each step from what the one before left.
Made(g, T, x, n, step) ==
  g \in [0..n -> T] /\ g[0] = x /\ \A i \in 1..n : g[i] = step[i][g[i - 1]]

\* It exists, for any number of steps.
LEMMA StepByStep ==
  ASSUME NEW T, NEW x \in T, NEW n \in Nat, NEW step \in [1..n -> [T -> T]]
  PROVE  \E g : Made(g, T, x, n, step)
<1> DEFINE Bad == {m \in Nat : m <= n /\ ~\E g : Made(g, T, x, m, step)}
<1>1. SUFFICES ASSUME Bad # {} PROVE FALSE
  <2>1. n <= n
    OBVIOUS
  <2>2. QED  BY <1>1, <2>1, Zenon
<1>2. PICK m \in Bad : \A k \in Bad : m <= k
  BY <1>1, NatLeast
<1>3. m \in Nat /\ m <= n /\ ~\E g : Made(g, T, x, m, step)
  BY <1>2
<1>4. CASE m = 0
  <2>1. PICK g : g = [i \in 0..0 |-> x]
    OBVIOUS
  <2>2. g \in [0..0 -> T] /\ g[0] = x
    BY <2>1
  <2>3. Made(g, T, x, 0, step)
    BY <2>2 DEF Made
  <2>4. QED  BY <1>3, <1>4, <2>3
<1>5. CASE m > 0
  <2>1. m - 1 \in Nat /\ m - 1 <= n /\ ~(m <= m - 1)
    BY <1>3, <1>5
  <2>2. PICK g : Made(g, T, x, m - 1, step)
    BY <1>2, <2>1
  <2>3. m \in 1..n /\ g[m - 1] \in T
    BY <1>3, <1>5, <2>1, <2>2 DEF Made
  <2>4. PICK y \in T : y = step[m][g[m - 1]]
    BY <2>3
  <2>5. PICK h : h = [i \in 0..m |-> IF i = m THEN y ELSE g[i]]
    OBVIOUS
  <2>6. h \in [0..m -> T] /\ h[m] = y /\ \A i \in 0..(m - 1) : h[i] = g[i]
    BY <1>3, <1>5, <2>2, <2>5 DEF Made
  <2>7. h[0] = x
    BY <1>3, <1>5, <2>2, <2>6 DEF Made
  <2>8. ASSUME NEW i \in 1..m PROVE h[i] = step[i][h[i - 1]]
    <3>1. i - 1 \in 0..(m - 1)
      BY <1>3
    <3>2. CASE i = m
      BY <2>4, <2>6, <3>1, <3>2
    <3>3. CASE i # m
      <4>1. i \in 1..(m - 1) /\ i \in 0..(m - 1)
        BY <1>3, <3>3
      <4>2. QED  BY <2>2, <2>6, <3>1, <4>1 DEF Made
    <3>4. QED  BY <3>2, <3>3
  <2>9. Made(h, T, x, m, step)
    BY <2>6, <2>7, <2>8 DEF Made
  <2>10. QED  BY <1>3, <2>9
<1>6. QED  BY <1>3, <1>4, <1>5

\* What FlattenSeq joins on the way.
Joined(g, T, n, s) ==
  g \in [0..n -> Seq(T)] /\ g[0] = <<>> /\ \A i \in 1..n : g[i] = g[i - 1] \o s[i]
InPlace(g, n, s) ==
  \A j \in 1..n : \A k \in 1..Len(s[j]) : g[n][Len(g[j - 1]) + k] = s[j][k]

\* What was joined stays in its place as more is joined to it.
LEMMA JoinedStays ==
  ASSUME NEW T, NEW n \in Nat, NEW s \in [1..n -> Seq(T)], NEW g, Joined(g, T, n, s)
  PROVE  InPlace(g, n, s)
<1>1. g \in [0..n -> Seq(T)] /\ \A i \in 1..n : g[i] = g[i - 1] \o s[i]
  BY DEF Joined
<1>2. SUFFICES ASSUME NEW j \in 1..n, NEW k \in 1..Len(s[j])
               PROVE g[n][Len(g[j - 1]) + k] = s[j][k]
  BY DEF InPlace
<1>3. PICK p \in Nat : p = Len(g[j - 1]) + k
  <2>1. j - 1 \in 0..n
    OBVIOUS
  <2>2. QED  BY <1>1, <2>1
<1> DEFINE Here(m) == p \in 1..Len(g[m]) /\ g[m][p] = s[j][k]
           Lost == {m \in Nat : m \in j..n /\ ~Here(m)}
<1>4. g[j - 1] \in Seq(T) /\ s[j] \in Seq(T) /\ g[j] = g[j - 1] \o s[j]
  <2>1. j - 1 \in 0..n
    OBVIOUS
  <2>2. QED  BY <1>1, <2>1
<1>5. Here(j)
  BY <1>3, <1>4
<1>6. SUFFICES ASSUME Lost # {} PROVE FALSE
  <2>1. n \in Nat /\ n \in j..n
    OBVIOUS
  <2>2. Here(n)
    BY <1>6, <2>1
  <2>3. QED  BY <1>3, <2>2
<1>7. PICK m \in Lost : \A i \in Lost : m <= i
  BY <1>6, NatLeast
<1>8. m \in Nat /\ m \in j..n /\ ~Here(m)
  BY <1>7
<1> HIDE DEF Here
<1>9. m # j
  BY <1>5, <1>8
<1>10. m - 1 \in Nat /\ m - 1 \in j..n /\ m - 1 \in 0..n /\ ~(m <= m - 1) /\ m \in 1..n
  BY <1>8, <1>9
<1>11. Here(m - 1)
  BY <1>7, <1>10
<1>12. g[m - 1] \in Seq(T) /\ s[m] \in Seq(T) /\ g[m] = g[m - 1] \o s[m]
  BY <1>10, <1>1
<1> HIDE DEF Lost
<1>13. p \in 1..Len(g[m - 1]) /\ g[m - 1][p] = s[j][k]
  BY <1>11 DEF Here
<1>14. p \in 1..Len(g[m]) /\ g[m][p] = g[m - 1][p]
  <2>1. PICK a \in Seq(T), b \in Seq(T) : a = g[m - 1] /\ b = s[m]
    BY <1>12
  <2>2. p \in 1..Len(a) /\ g[m] = a \o b
    BY <1>12, <1>13, <2>1
  <2>3. p \in 1..Len(a \o b) /\ (a \o b)[p] = a[p]
    BY <2>2
  <2>4. QED  BY <2>1, <2>2, <2>3
<1>15. Here(m)
  BY <1>13, <1>14 DEF Here
<1>16. QED  BY <1>8, <1>15

\* There is such a function.
LEMMA JoinedOneByOne ==
  ASSUME NEW T, NEW n \in Nat, NEW s \in [1..n -> Seq(T)]
  PROVE  \E g : Joined(g, T, n, s)
<1>1. PICK Q : Q = Seq(T)
  OBVIOUS
<1>2. PICK step : step = [i \in 1..n |-> [q \in Seq(T) |-> q \o s[i]]]
  OBVIOUS
<1>3. step \in [1..n -> [Seq(T) -> Seq(T)]] /\ \A i \in 1..n : \A q \in Seq(T) : step[i][q] = q \o s[i]
  BY <1>2
<1>4. PICK x \in Q : x = <<>>
  <2>1. <<>> \in Seq(T)
    OBVIOUS
  <2>2. QED  BY <1>1, <2>1
<1>5. step \in [1..n -> [Q -> Q]]
  BY <1>1, <1>3
<1>6. PICK g : Made(g, Q, x, n, step)
  BY <1>5, StepByStep
<1>7. g \in [0..n -> Seq(T)] /\ g[0] = <<>> /\ \A i \in 1..n : g[i] = step[i][g[i - 1]]
  BY <1>1, <1>4, <1>6 DEF Made
<1>8. ASSUME NEW i \in 1..n PROVE g[i] = g[i - 1] \o s[i]
  <2>1. i - 1 \in 0..n
    OBVIOUS
  <2>2. g[i - 1] \in Seq(T)
    BY <1>7, <2>1
  <2>3. QED  BY <1>3, <1>7, <2>2
<1>9. QED  BY <1>8, <1>7 DEF Joined

\* Each sequence stands, with its elements in their order, behind those before it.
PartsAt(off, n, s) ==
  /\ off \in [0..n -> Nat] /\ off[0] = 0 /\ off[n] = Len(FlattenSeq(s))
  /\ \A i \in 1..n : off[i] = off[i - 1] + Len(s[i])
  /\ \A i \in 1..n : \A k \in 1..Len(s[i]) : FlattenSeq(s)[off[i - 1] + k] = s[i][k]

\* What FlattenSeq makes of any number of sequences.
LEMMA FlattenParts ==
  ASSUME NEW T, NEW n \in Nat, NEW s \in [1..n -> Seq(T)]
  PROVE  FlattenSeq(s) \in Seq(T) /\ \E off : PartsAt(off, n, s)
<1>1. PICK g : Joined(g, T, n, s)
  BY JoinedOneByOne
<1>2. g[0] = <<>> /\ \A i \in 1..n : g[i] = g[i - 1] \o s[i]
  BY <1>1 DEF Joined
<1>3. g \in [0..n -> Seq(T)]
  BY <1>1 DEF Joined
<1>4. ASSUME NEW i \in 1..n PROVE g[i] = g[i - 1] \o s[i] /\ g[i - 1] \in Seq(T) /\ s[i] \in Seq(T)
  <2>1. i - 1 \in 0..n
    OBVIOUS
  <2>2. QED  BY <1>2, <1>3, <2>1
<1>5. FlattenSeq(s) = g[n]
  <2>1. Len(s) = n
    OBVIOUS
  <2>2. CASE n = 0
    <3>1. s = <<>>
      BY <2>2
    <3>2. FlattenSeq(s) = s
      BY <2>1, <2>2 DEF FlattenSeq
    <3>3. QED  BY <1>2, <2>2, <3>1, <3>2
  <2>3. CASE n > 0
    <3> DEFINE Joins(f) == f = [i \in 1..n |-> IF i = 1 THEN s[i] ELSE f[i - 1] \o s[i]]
               flat == CHOOSE f : Joins(f)
    <3>1. FlattenSeq(s) = flat[n]
      BY <2>1, <2>3 DEF FlattenSeq
    <3>2. PICK h : h = [i \in 1..n |-> g[i]]
      OBVIOUS
    <3>3. ASSUME NEW i \in 1..n PROVE g[i] = IF i = 1 THEN s[i] ELSE h[i - 1] \o s[i]
      <4>1. CASE i = 1
        <5>1. g[i] = g[i - 1] \o s[i] /\ s[i] \in Seq(T)
          BY <1>4
        <5>2. <<>> \o s[i] = s[i]
          BY <5>1
        <5>3. g[i - 1] = <<>>
          BY <1>2, <4>1
        <5>4. QED  BY <4>1, <5>1, <5>2, <5>3
      <4>2. CASE i # 1
        <5>1. i - 1 \in 1..n
          BY <4>2
        <5>2. QED  BY <1>4, <3>2, <4>2, <5>1
      <4>3. QED  BY <4>1, <4>2
    <3>4. Joins(h)
      BY <3>2, <3>3
    <3>5. Joins(flat)
      BY <3>4
    <3> HIDE DEF flat
    <3>6. flat[1] = s[1] /\ \A i \in 1..n : i # 1 => flat[i] = flat[i - 1] \o s[i]
      <4>1. \A i \in 1..n : flat[i] = IF i = 1 THEN s[i] ELSE flat[i - 1] \o s[i]
        BY <3>5, Zenon
      <4>2. 1 \in 1..n
        BY <2>3
      <4>3. QED  BY <4>1, <4>2
    <3> DEFINE Other == {i \in Nat : i \in 1..n /\ flat[i] # g[i]}
    <3>7. Other = {}
      <4>1. SUFFICES ASSUME Other # {} PROVE FALSE
        BY <4>1
      <4>2. PICK m \in Other : \A k \in Other : m <= k
        BY <4>1, NatLeast
      <4>3. m \in 1..n /\ flat[m] # g[m]
        BY <4>2
      <4>4. CASE m = 1
        <5>1. h[m] = g[m] /\ h[m] = s[m]
          BY <3>2, <3>3, <4>3, <4>4
        <5>2. QED  BY <3>6, <4>3, <4>4, <5>1
      <4>5. CASE m # 1
        <5>1. m - 1 \in Nat /\ m - 1 \in 1..n /\ ~(m <= m - 1)
          BY <4>3, <4>5
        <5>2. flat[m - 1] = g[m - 1]
          BY <4>2, <5>1
        <5>3. QED  BY <1>4, <3>6, <4>3, <4>5, <5>2
      <4>6. QED  BY <4>4, <4>5
    <3>8. n \in 1..n
      BY <2>3
    <3>9. QED  BY <3>1, <3>7, <3>8
  <2>4. QED  BY <2>2, <2>3
<1>6. PICK off : off = [i \in 0..n |-> Len(g[i])]
  OBVIOUS
<1>7. off \in [0..n -> Nat] /\ off[0] = 0 /\ off[n] = Len(FlattenSeq(s))
  BY <1>2, <1>3, <1>5, <1>6
<1>8. ASSUME NEW i \in 1..n PROVE off[i] = off[i - 1] + Len(s[i])
  <2>1. i \in 0..n /\ i - 1 \in 0..n
    OBVIOUS
  <2>2. g[i] = g[i - 1] \o s[i] /\ g[i - 1] \in Seq(T) /\ s[i] \in Seq(T)
    BY <1>4
  <2>3. Len(g[i]) = Len(g[i - 1]) + Len(s[i])
    BY <2>2
  <2>4. QED  BY <1>6, <2>1, <2>3
<1>9. InPlace(g, n, s)
  BY <1>1, JoinedStays
<1>10. ASSUME NEW i \in 1..n, NEW k \in 1..Len(s[i]) PROVE FlattenSeq(s)[off[i - 1] + k] = s[i][k]
  <2>1. i - 1 \in 0..n
    OBVIOUS
  <2>2. g[n][Len(g[i - 1]) + k] = s[i][k]
    BY <1>9 DEF InPlace
  <2>3. QED  BY <1>5, <1>6, <2>1, <2>2
<1>11. FlattenSeq(s) \in Seq(T)
  BY <1>3, <1>5
<1>12. PartsAt(off, n, s)
  BY <1>7, <1>8, <1>10 DEF PartsAt
<1>13. QED  BY <1>11, <1>12

\* Sequences are the same if their elements are.
LEMMA SameSeq ==
  ASSUME NEW S, NEW s \in Seq(S), NEW t \in Seq(S), Len(s) = Len(t), \A i \in 1..Len(s) : s[i] = t[i]
  PROVE  s = t
OBVIOUS

\* The start of a joined sequence.
LEMMA StartOfJoined ==
  ASSUME NEW S, NEW a \in Seq(S), NEW b \in Seq(S)
  PROVE  /\ a \o b \in Seq(S) /\ Len(a \o b) = Len(a) + Len(b)
         /\ \A l \in 0..Len(b) : SubSeq(a \o b, 1, Len(a) + l) = a \o SubSeq(b, 1, l)
<1>1. a \o b \in Seq(S) /\ Len(a \o b) = Len(a) + Len(b) /\ Len(a) \in Nat /\ Len(b) \in Nat
  OBVIOUS
<1>2. \A i \in 1..Len(a) : (a \o b)[i] = a[i]
  OBVIOUS
<1>3. \A i \in 1..Len(b) : (a \o b)[Len(a) + i] = b[i]
  OBVIOUS
<1>4. ASSUME NEW l \in 0..Len(b) PROVE SubSeq(a \o b, 1, Len(a) + l) = a \o SubSeq(b, 1, l)
  <2>1. SubSeq(b, 1, l) \in Seq(S)
    OBVIOUS
  <2>2. PICK c \in Seq(S) : c = SubSeq(b, 1, l)
    BY <2>1
  <2>3. Len(c) = l /\ \A i \in 1..l : c[i] = b[i]
    BY <2>2
  <2>4. a \o c \in Seq(S) /\ Len(a \o c) = Len(a) + l
    BY <2>3
  <2>5. \A i \in 1..Len(a) : (a \o c)[i] = a[i]
    OBVIOUS
  <2>6. \A i \in 1..l : (a \o c)[Len(a) + i] = c[i]
    BY <2>3
  <2>7. PICK s : s = SubSeq(a \o b, 1, Len(a) + l)
    OBVIOUS
  <2>8. s \in Seq(S) /\ Len(s) = Len(a) + l /\ \A i \in 1..Len(a) + l : s[i] = (a \o b)[i]
    BY <1>1, <2>7
  <2>9. ASSUME NEW i \in 1..Len(a) + l PROVE s[i] = (a \o c)[i]
    <3>1. CASE i <= Len(a)
      <4>1. i \in 1..Len(a)
        BY <1>1, <3>1
      <4>2. QED  BY <1>1, <1>2, <2>5, <2>8, <4>1
    <3>2. CASE i > Len(a)
      <4>1. i - Len(a) \in 1..l /\ i - Len(a) \in 1..Len(b) /\ Len(a) + (i - Len(a)) = i
        BY <1>1, <3>2
      <4>2. QED  BY <1>1, <1>3, <2>3, <2>6, <2>8, <4>1
    <3>3. i \in Nat
      BY <1>1
    <3>4. i <= Len(a) \/ i > Len(a)
      BY <1>1, <3>3
    <3>5. QED  BY <3>1, <3>2, <3>4
  <2>10. s = a \o c
    <3>1. Len(s) = Len(a \o c) /\ \A i \in 1..Len(s) : s[i] = (a \o c)[i]
      BY <2>4, <2>8, <2>9
    <3>2. QED  BY <2>4, <2>8, <3>1, SameSeq
  <2>11. QED  BY <2>2, <2>7, <2>10
<1>5. QED  BY <1>1, <1>4

\* An element in front of a sequence.
LEMMA OneInFront ==
  ASSUME NEW S, NEW x \in S, NEW s \in Seq(S)
  PROVE  /\ <<x>> \in Seq(S) /\ Len(<<x>>) = 1 /\ <<x>> # <<>> /\ <<x>> \o <<>> = <<x>>
         /\ <<x>> \o s \in Seq(S) /\ Len(<<x>> \o s) = 1 + Len(s) /\ <<x>> \o s # <<>>
<1>1. <<x>> \in Seq(S) /\ Len(<<x>>) = 1
  OBVIOUS
<1>2. PICK one \in Seq(S) : one = <<x>> /\ Len(one) = 1
  BY <1>1
<1>3. <<>> \in Seq(S) /\ Len(<<>>) = 0
  OBVIOUS
<1>4. one # <<>>
  BY <1>2, <1>3
<1>5. one \o <<>> = one
  <2>1. PICK none \in Seq(S) : none = <<>> /\ Len(none) = 0
    BY <1>3
  <2>2. one \o none \in Seq(S) /\ Len(one \o none) = Len(one)
    BY <2>1
  <2>3. \A i \in 1..Len(one) : (one \o none)[i] = one[i]
    OBVIOUS
  <2>4. one \o none = one
    BY <2>2, <2>3, SameSeq
  <2>5. QED  BY <2>1, <2>4
<1>6. one \o s \in Seq(S) /\ Len(one \o s) = 1 + Len(s) /\ Len(s) \in Nat
  BY <1>2
<1>7. one \o s # <<>>
  BY <1>3, <1>6
<1>8. QED  BY <1>2, <1>4, <1>5, <1>6, <1>7
=============================================================================
