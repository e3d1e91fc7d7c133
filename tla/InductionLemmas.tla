--------------------------- MODULE InductionLemmas ---------------------------
(*****************************************************************************)
(* Induction over the numbers, by the least counterexample and over a set of *)
(* numbers instead of a predicate, and what the proofs derive from it: that  *)
(* a recursion defines a function, and how a piece of a sequence grows.      *)
(*****************************************************************************)
EXTENDS Integers, SequenceTheorems, WellFoundedInduction, TLAPS

\* A set of numbers that has any has a least one.
LEMMA LeastNatural ==
  ASSUME NEW T, T \subseteq Nat, T # {}
  PROVE  \E n \in T : \A m \in T : n <= m
<1> DEFINE Less == {ss \in Nat \X Nat : ss[1] < ss[2]}
<1>1. Less = OpToRel(<, Nat)
  BY DEF OpToRel
<1>2. IsWellFoundedOn(Less, Nat)
  BY <1>1, NatLessThanWellFounded
<1>3. PICK n \in T : \A m \in T : ~ (<<m, n>> \in Less)
  <2> HIDE DEF Less
  <2> QED BY <1>2, WFMin
<1>4. ASSUME NEW m \in T  PROVE n <= m
  <2>1. m \in Nat /\ n \in Nat
    OBVIOUS
  <2>2. ~ (m < n)
    BY <1>3, <2>1
  <2> QED BY <2>1, <2>2
<1> QED BY <1>3, <1>4

\* Induction up to n, over a set of numbers.
LEMMA UpTo ==
  ASSUME NEW n \in Nat, NEW T, 0 \in T, \A i \in 1 .. n : i - 1 \in T => i \in T
  PROVE  \A i \in 0 .. n : i \in T
<1> DEFINE Bad == {i \in 0 .. n : i \notin T}
<1>1. SUFFICES ASSUME Bad # {} PROVE FALSE
  OBVIOUS
<1>2. Bad \subseteq Nat
  OBVIOUS
<1>3. PICK m \in Bad : \A l \in Bad : m <= l
  <2> HIDE DEF Bad
  <2> QED BY <1>1, <1>2, LeastNatural
<1>4. m \in 0 .. n /\ m \notin T
  BY <1>3
<1>5. m # 0
  BY <1>4
<1>6. m \in 1 .. n /\ m - 1 \in 0 .. n
  BY <1>4, <1>5
<1>7. m - 1 \in T
  <2>1. m - 1 \notin Bad
    <3>1. ~ (m <= m - 1)
      BY <1>6
    <3> HIDE DEF Bad
    <3> QED BY <1>3, <3>1
  <2> QED BY <2>1, <1>6
<1> QED BY <1>4, <1>6, <1>7

\* f begins with a and goes from each number below n to the next by its step.
Recursion(f, n, a, step) == f = [i \in 0 .. n |-> IF i = 0 THEN a ELSE step[i][f[i - 1]]]

\* A first value and steps define a function.
LEMMA RecursionExists ==
  ASSUME NEW n \in Nat, NEW S, NEW a \in S, NEW step, \A i \in 1 .. n : step[i] \in [S -> S]
  PROVE  \E f \in [0 .. n -> S] : Recursion(f, n, a, step)
<1> DEFINE Is(f, m) == f = [i \in 0 .. m |-> IF i = 0 THEN a ELSE step[i][f[i - 1]]]
<1> DEFINE T == {m \in 0 .. n : \E f \in [0 .. m -> S] : Is(f, m)}
<1>1. 0 \in T
  <2> DEFINE z == [i \in 0 .. 0 |-> a]
  <2>1. z \in [0 .. 0 -> S] /\ Is(z, 0)
    OBVIOUS
  <2> HIDE DEF z, Is
  <2> QED BY <2>1
<1>2. ASSUME NEW m \in 1 .. n, m - 1 \in T PROVE m \in T
  <2>0. m \in Nat /\ m # 0 /\ m \in 0 .. n /\ m - 1 \in 0 .. m - 1 /\ step[m] \in [S -> S]
    OBVIOUS
  <2>1. PICK f \in [0 .. m - 1 -> S] : Is(f, m - 1)
    BY <1>2
  <2>2. f[m - 1] \in S /\ step[m][f[m - 1]] \in S
    BY <2>0
  <2> DEFINE g == [i \in 0 .. m |-> IF i = m THEN step[m][f[m - 1]] ELSE f[i]]
  <2>3. g \in [0 .. m -> S]
    <3>1. \A i \in 0 .. m : i # m => i \in 0 .. m - 1
      BY <2>0
    <3> QED BY <2>0, <2>2, <3>1
  <2>4. ASSUME NEW i \in 0 .. m PROVE g[i] = IF i = 0 THEN a ELSE step[i][g[i - 1]]
    <3>1. CASE i = m
      <4>1. g[m - 1] = f[m - 1]
        BY <2>0
      <4> QED BY <3>1, <4>1, <2>0
    <3>2. CASE i # m
      <4>1. i \in 0 .. m - 1
        BY <3>2, <2>0
      <4>2. f[i] = IF i = 0 THEN a ELSE step[i][f[i - 1]]
        BY <2>1, <4>1
      <4>3. i # 0 => i - 1 \in 0 .. m /\ i - 1 # m
        BY <4>1, <2>0
      <4>4. i # 0 => g[i - 1] = f[i - 1]
        BY <4>3
      <4>5. g[i] = f[i]
        BY <3>2
      <4> QED BY <4>2, <4>4, <4>5
    <3> QED BY <3>1, <3>2
  <2>5. Is(g, m)
    <3>1. g = [i \in 0 .. m |-> g[i]]
      OBVIOUS
    <3> HIDE DEF g
    <3> QED BY <2>4, <3>1
  <2> HIDE DEF g, Is
  <2> QED BY <2>0, <2>3, <2>5
<1>3. \A m \in 0 .. n : m \in T
  <2> HIDE DEF T
  <2> QED BY <1>1, <1>2, UpTo
<1> QED BY <1>3 DEF Recursion

\* A piece of a sequence that is one longer.
LEMMA PieceGrows ==
  ASSUME NEW S, NEW s \in Seq(S), NEW m \in Nat \ {0}, NEW i \in m .. Len(s)
  PROVE  SubSeq(s, m, i) = Append(SubSeq(s, m, i - 1), s[i])
<1> DEFINE a == SubSeq(s, m, i)
<1> DEFINE b == SubSeq(s, m, i - 1)
<1>1. Len(s) \in Nat /\ i \in Int /\ m \in Int /\ i - 1 \in Int /\ m <= i /\ i <= Len(s) /\ i - m + 1 \in Nat
  BY LenProperties
<1>2. \A j \in m .. i : s[j] \in S
  <2>1. \A j \in m .. i : j \in 1 .. Len(s)
    BY <1>1
  <2> QED BY <2>1, ElementOfSeq
<1>3. \A j \in m .. i - 1 : s[j] \in S
  BY <1>1, <1>2
<1>4. /\ a \in Seq(S) /\ Len(a) = i - m + 1
      /\ \A j \in 1 .. i - m + 1 : a[j] = s[m + j - 1]
  BY <1>1, <1>2, SubSeqProperties
<1>5. /\ b \in Seq(S) /\ Len(b) = IF m <= i - 1 THEN (i - 1) - m + 1 ELSE 0
      /\ \A j \in 1 .. (i - 1) - m + 1 : b[j] = s[m + j - 1]
  BY <1>1, <1>3, SubSeqProperties
<1> HIDE DEF a, b
<1>6. Len(b) = i - m
  BY <1>1, <1>5
<1>7. s[i] \in S
  BY <1>1, <1>2
<1>8. /\ Append(b, s[i]) \in Seq(S) /\ Len(Append(b, s[i])) = i - m + 1
      /\ \A j \in 1 .. i - m : Append(b, s[i])[j] = b[j]
      /\ Append(b, s[i])[i - m + 1] = s[i]
  <2>1. b \in Seq(S)
    BY <1>5
  <2>2. /\ Append(b, s[i]) \in Seq(S) /\ Len(Append(b, s[i])) = Len(b) + 1
        /\ \A j \in 1 .. Len(b) : Append(b, s[i])[j] = b[j]
        /\ Append(b, s[i])[Len(b) + 1] = s[i]
    BY <1>7, <2>1, AppendProperties
  <2> QED BY <1>1, <1>6, <2>2
<1>9. ASSUME NEW j \in 1 .. i - m + 1 PROVE a[j] = Append(b, s[i])[j]
  <2>1. CASE j = i - m + 1
    <3>1. m + j - 1 = i
      BY <2>1, <1>1
    <3> QED BY <2>1, <3>1, <1>4, <1>8
  <2>2. CASE j # i - m + 1
    <3>1. j \in 1 .. i - m /\ j \in 1 .. (i - 1) - m + 1
      BY <2>2, <1>1
    <3> QED BY <3>1, <1>4, <1>5, <1>8
  <2> QED BY <2>1, <2>2
<1>10. a = Append(b, s[i])
  BY <1>4, <1>8, <1>9, SeqEqual
<1> QED BY <1>10 DEF a, b
==============================================================================
