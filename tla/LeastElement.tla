---------------------------- MODULE LeastElement ----------------------------
(* A set of naturals that is not empty has a least element.  What holds of  *)
(* every natural is shown from here by looking at the least one of which    *)
(* it does not hold.  ConcatLoop is the first use: a loop that puts the     *)
(* parts of a list one behind the other is defined for every list.          *)
EXTENDS Naturals, Sequences, WellFoundedInduction, TLAPS

\* A set of naturals that is not empty has a smallest element.
LEMMA SmallestOf ==
    ASSUME NEW S \in SUBSET Nat, S # {}
    PROVE  \E m \in S : \A k \in S : m <= k
<1> DEFINE R == OpToRel(<, Nat)
<1>1. IsWellFoundedOn(R, Nat)
  BY NatLessThanWellFounded
<1>2. R = {ss \in Nat \X Nat : ss[1] < ss[2]}
  BY DEF OpToRel
<1> HIDE DEF R
<1>3. PICK x \in S : \A y \in S : ~ (<<y, x>> \in R)
  BY <1>1, WFMin
<1>4. \A k \in S : x <= k
  <2> SUFFICES ASSUME NEW k \in S PROVE x <= k
    OBVIOUS
  <2>1. x \in Nat /\ k \in Nat /\ <<k, x>> \in Nat \X Nat
    OBVIOUS
  <2>2. ~(k < x)
    BY <1>2, <1>3, <2>1
  <2> QED BY <2>1, <2>2
<1> QED BY <1>4

\* Induction over the naturals, said of the set of those that it is about.
LEMMA SetInduction ==
    ASSUME NEW S \in SUBSET Nat, 0 \in S, \A n \in S : n + 1 \in S
    PROVE  \A n \in Nat : n \in S
<1> SUFFICES ASSUME Nat \ S # {} PROVE FALSE
  OBVIOUS
<1>1. Nat \ S \in SUBSET Nat
  OBVIOUS
<1>2. PICK m \in Nat \ S : \A k \in Nat \ S : m <= k
  BY <1>1, SmallestOf
<1>3. m # 0 /\ m - 1 \in Nat /\ ~(m <= m - 1)
  BY <1>2
<1>4. m - 1 \in S
  BY <1>2, <1>3
<1>5. m \in S
  BY <1>2, <1>3, <1>4
<1> QED BY <1>2, <1>5

\* A set of naturals with a bound has a largest element, unless it is empty.
LEMMA LargestOf ==
    ASSUME NEW n \in Nat, NEW S \in SUBSET (0 .. n), S # {}
    PROVE  \E m \in S : \A k \in S : k <= m
<1> DEFINE T == {j \in Nat : j <= n /\ n - j \in S}
<1>1. \A k \in S : n - k \in T
  OBVIOUS
<1>2. T \in SUBSET Nat /\ T # {}
  BY <1>1
<1> HIDE DEF T
<1>3. PICK j \in T : \A i \in T : j <= i
  BY <1>2, SmallestOf
<1>4. j \in Nat /\ n - j \in S
  BY <1>3 DEF T
<1>5. \A k \in S : k <= n - j
  BY <1>1, <1>3, <1>4
<1> QED BY <1>4, <1>5

\* The loop that puts sequences one after the other is defined.
LEMMA ConcatLoop ==
    ASSUME NEW ss, NEW n \in Nat \ {0}
    PROVE  \E f : f = [i \in 1 .. n |-> IF i = 1 THEN ss[i] ELSE f[i - 1] \o ss[i]]
<1> DEFINE Made(m) == \E f : f = [i \in 1 .. m |-> IF i = 1 THEN ss[i] ELSE f[i - 1] \o ss[i]]
           S == {m \in Nat : Made(m + 1)}
<1>1. Made(0 + 1)
  <2> DEFINE g == [i \in 1 .. 0 + 1 |-> ss[i]]
  <2>1. g = [i \in 1 .. 0 + 1 |-> IF i = 1 THEN ss[i] ELSE g[i - 1] \o ss[i]]
    BY \A i \in 1 .. 0 + 1 : i = 1
  <2> HIDE DEF g
  <2> QED BY <2>1, Zenon
<1>2. ASSUME NEW m \in Nat, Made(m + 1) PROVE Made((m + 1) + 1)
  <2>1. PICK f : f = [i \in 1 .. m + 1 |-> IF i = 1 THEN ss[i] ELSE f[i - 1] \o ss[i]]
    BY <1>2
  <2>0. \A i \in 1 .. m + 1 : f[i] = IF i = 1 THEN ss[i] ELSE f[i - 1] \o ss[i]
    BY <2>1, Zenon
  <2> DEFINE g == [i \in 1 .. (m + 1) + 1 |-> IF i <= m + 1 THEN f[i] ELSE f[m + 1] \o ss[i]]
  <2>2. ASSUME NEW i \in 1 .. (m + 1) + 1 PROVE g[i] = IF i = 1 THEN ss[i] ELSE g[i - 1] \o ss[i]
    <3>1. CASE i <= m + 1
      <4>1. i \in 1 .. m + 1 /\ (i # 1 => i - 1 \in 1 .. (m + 1) + 1 /\ i - 1 <= m + 1)
        BY <3>1
      <4> QED BY <2>0, <3>1, <4>1
    <3>2. CASE i = m + 2
      <4>1. i # 1 /\ i - 1 = m + 1 /\ ~(i <= m + 1) /\ m + 1 \in 1 .. (m + 1) + 1 /\ m + 1 <= m + 1
        BY <3>2
      <4>2. g[i - 1] = f[m + 1] /\ g[i] = f[m + 1] \o ss[i]
        BY <4>1
      <4> QED BY <4>1, <4>2
    <3>3. i <= m + 1 \/ i = m + 2
      OBVIOUS
    <3> QED BY <3>1, <3>2, <3>3
  <2>3. g = [i \in 1 .. (m + 1) + 1 |-> IF i = 1 THEN ss[i] ELSE g[i - 1] \o ss[i]]
    BY <2>2, Zenon
  <2> HIDE DEF g
  <2> QED BY <2>3, Zenon
<1>3. \A m \in Nat : m \in S
  <2>1. S \in SUBSET Nat /\ 0 \in S /\ \A m \in S : m + 1 \in S
    <3> HIDE DEF Made
    <3> QED BY <1>1, <1>2
  <2> HIDE DEF S
  <2> QED BY <2>1, SetInduction
<1>4. n - 1 \in Nat /\ (n - 1) + 1 = n
  OBVIOUS
<1>5. Made(n)
  <2> HIDE DEF Made
  <2> QED BY <1>3, <1>4
<1> QED BY <1>5
=============================================================================
