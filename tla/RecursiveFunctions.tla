-------------------------- MODULE RecursiveFunctions --------------------------
(***************************************************************************)
(* Induction over the naturals and primitive recursion, stated with sets   *)
(* and functions where the library's theorems take operators: the set of   *)
(* the numbers a statement holds for, and the step as a function.  Both    *)
(* rest on the library's theorem that the naturals are well-founded.       *)
(***************************************************************************)
EXTENDS Integers, Sequences, WellFoundedInduction, TLAPS

\* Every non-empty set of naturals has a least element.
LEMMA LeastNatural ==
    ASSUME NEW T \in SUBSET Nat, T # {}
    PROVE  \E x \in T : \A y \in T : x <= y
<1> DEFINE R == OpToRel(<, Nat)
<1>1. \A x, y \in Nat : y < x => <<y, x>> \in R
  BY DEF OpToRel
<1>2. PICK x \in T : \A y \in T : ~ (<<y, x>> \in R)
  <2>1. IsWellFoundedOn(R, Nat)
    BY NatLessThanWellFounded
  <2> HIDE DEF R
  <2> QED BY <2>1, WFMin
<1> HIDE DEF R
<1>3. \A y \in T : ~(y < x)
  BY <1>1, <1>2
<1> QED BY <1>3

\* Induction: S is the set of the numbers for which something holds.
LEMMA NatSetInduction ==
    ASSUME NEW S, 0 \in S, \A n \in Nat : n \in S => n + 1 \in S
    PROVE  Nat \subseteq S
<1> DEFINE T == {n \in Nat : n \notin S}
<1>1. SUFFICES ASSUME T # {} PROVE FALSE
  OBVIOUS
<1>2. PICK x \in T : \A y \in T : x <= y
  <2> HIDE DEF T
  <2>1. T \in SUBSET Nat
    BY DEF T
  <2> QED BY <1>1, <2>1, LeastNatural
<1>3. x \in Nat /\ x # 0
  OBVIOUS
<1>4. x - 1 \in Nat /\ x - 1 < x /\ (x - 1) + 1 = x
  BY <1>3
<1>5. x - 1 \in T
  BY <1>4
<1> QED BY <1>2, <1>4, <1>5

------------------------------------------------------------------------------
\* g satisfies the recursion up to n.
Recurses(S, c, step, n, g) ==
    /\ g \in [0..n -> S]
    /\ g[0] = c
    /\ \A k \in 0..(n - 1) : g[k + 1] = step[<<g[k], k + 1>>]

LEMMA RecursionUnique ==
    ASSUME NEW S, NEW c \in S, NEW step \in [S \X Nat -> S],
           NEW n \in Nat, NEW m \in Nat, n <= m
    PROVE  \A g, h : Recurses(S, c, step, n, g) /\ Recurses(S, c, step, m, h)
                        => \A k \in 0..n : g[k] = h[k]
<1> SUFFICES ASSUME NEW g, Recurses(S, c, step, n, g), NEW h, Recurses(S, c, step, m, h)
             PROVE  \A k \in 0..n : g[k] = h[k]
  OBVIOUS
<1> DEFINE A == {k \in Nat : k <= n => g[k] = h[k]}
<1>1. 0 \in A
  BY DEF Recurses
<1>2. ASSUME NEW k \in Nat, k \in A PROVE k + 1 \in A
  <2> SUFFICES ASSUME k + 1 <= n PROVE g[k + 1] = h[k + 1]
    OBVIOUS
  <2>1. k \in 0..(n - 1) /\ k \in 0..(m - 1) /\ g[k] = h[k]
    BY <1>2
  <2> QED BY <2>1 DEF Recurses
<1>3. Nat \subseteq A
  <2> HIDE DEF A
  <2> QED BY <1>1, <1>2, NatSetInduction
<1> QED BY <1>3

\* f starts with c, and step leads from each of its values to the next.
Iterates(f, c, step) == f[0] = c /\ \A k \in Nat : f[k + 1] = step[<<f[k], k + 1>>]

\* A function given by its first value and a step from each value to the next exists.
THEOREM RecursionDefines ==
    ASSUME NEW S
    PROVE  \A c \in S, step \in [S \X Nat -> S] :
                \E f \in [Nat -> S] : Iterates(f, c, step)
<1> TAKE c \in S, step \in [S \X Nat -> S]
<1> DEFINE D(n, g) == Recurses(S, c, step, n, g)
           N == {n \in Nat : \E g : D(n, g)}
<1>1. 0 \in N
  <2>1. D(0, [k \in 0..0 |-> c])
    BY DEF Recurses
  <2> QED BY <2>1
<1>2. ASSUME NEW n \in Nat, n \in N PROVE n + 1 \in N
  <2>1. PICK g : D(n, g)
    BY <1>2
  <2> DEFINE h == [k \in 0..(n + 1) |-> IF k <= n THEN g[k] ELSE step[<<g[n], n + 1>>]]
  <2>2. step[<<g[n], n + 1>>] \in S
    BY <2>1 DEF Recurses
  <2>3. h \in [0..(n + 1) -> S] /\ h[0] = c
    BY <2>1, <2>2 DEF Recurses
  <2>4. ASSUME NEW k \in 0..((n + 1) - 1)
        PROVE  h[k + 1] = step[<<h[k], k + 1>>]
    <3>1. CASE k = n
      <4>1. h[n] = g[n] /\ h[n + 1] = step[<<g[n], n + 1>>]
        OBVIOUS
      <4> HIDE DEF h
      <4> QED BY <3>1, <4>1
    <3>2. CASE k \in 0..(n - 1)
      BY <2>1, <3>2 DEF Recurses
    <3> QED BY <3>1, <3>2
  <2>5. D(n + 1, h)
    BY <2>3, <2>4 DEF Recurses
  <2> QED BY <2>5
<1>3. Nat \subseteq N
  <2> HIDE DEF N
  <2> QED BY <1>1, <1>2, NatSetInduction
<1> DEFINE a(n) == CHOOSE g : D(n, g)
           f == [n \in Nat |-> a(n)[n]]
<1>4. \A n \in Nat : D(n, a(n))
  <2> HIDE DEF D
  <2> QED BY <1>3
<1> HIDE DEF a
<1>5. f \in [Nat -> S]
  <2> SUFFICES ASSUME NEW n \in Nat PROVE a(n)[n] \in S
    OBVIOUS
  <2> QED BY <1>4 DEF Recurses
<1>6. f[0] = c
  BY <1>4 DEF Recurses
<1>7. ASSUME NEW k \in Nat PROVE f[k + 1] = step[<<f[k], k + 1>>]
  <2>1. D(k, a(k)) /\ D(k + 1, a(k + 1))
    BY <1>4
  <2>2. k \in 0..((k + 1) - 1) /\ k \in 0..k /\ k <= k + 1 /\ k + 1 \in Nat
    OBVIOUS
  <2>3. a(k)[k] = a(k + 1)[k]
    <3>1. ASSUME NEW g, D(k, g), NEW h, D(k + 1, h)
          PROVE  g[k] = h[k]
      <4>1. Recurses(S, c, step, k, g) /\ Recurses(S, c, step, k + 1, h)
        BY <3>1
      <4> HIDE DEF D, N, f
      <4>2. \A j \in 0..k : g[j] = h[j]
        BY <2>2, <4>1, RecursionUnique
      <4> QED BY <2>2, <4>2
    <3> QED BY <2>1, <3>1
  <2>4. a(k + 1)[k + 1] = step[<<a(k + 1)[k], k + 1>>]
    BY <2>1, <2>2 DEF Recurses
  <2> QED BY <2>3, <2>4
<1> QED BY <1>5, <1>6, <1>7 DEF Iterates

------------------------------------------------------------------------------
\* t continues s.
Begins(s, t) == Len(s) <= Len(t) /\ \A i \in 1..Len(s) : s[i] = t[i]

LEMMA BeginsTransitive ==
    ASSUME NEW s, NEW t, NEW u, Len(s) \in Nat, Len(t) \in Nat, Len(u) \in Nat,
           Begins(s, t), Begins(t, u)
    PROVE  Begins(s, u)
<1>1. Len(s) <= Len(u)
  BY DEF Begins
<1>2. ASSUME NEW i \in 1..Len(s) PROVE s[i] = u[i]
  <2>1. i \in 1..Len(t)
    BY DEF Begins
  <2>2. s[i] = t[i] /\ t[i] = u[i]
    BY <2>1 DEF Begins
  <2> QED BY <2>2
<1> QED BY <1>1, <1>2 DEF Begins

\* A sequence that only grows: what it was is the beginning of what it is.
THEOREM GrowingSequence ==
    ASSUME NEW S, NEW f \in [Nat -> Seq(S)], \A k \in Nat : Begins(f[k], f[k + 1]),
           NEW m \in Nat, NEW n \in Nat, m <= n
    PROVE  Begins(f[m], f[n])
<1> DEFINE A == {d \in Nat : Begins(f[m], f[m + d])}
<1>1. 0 \in A
  <2>1. m + 0 = m /\ Begins(f[m], f[m])
    BY DEF Begins
  <2> QED BY <2>1
<1>2. ASSUME NEW d \in Nat, d \in A PROVE d + 1 \in A
  <2>1. m + d \in Nat /\ (m + d) + 1 \in Nat /\ m + (d + 1) = (m + d) + 1
    OBVIOUS
  <2>2. Begins(f[m], f[m + d]) /\ Begins(f[m + d], f[(m + d) + 1])
    BY <1>2, <2>1
  <2>3. Len(f[m]) \in Nat /\ Len(f[m + d]) \in Nat /\ Len(f[(m + d) + 1]) \in Nat
    <3>1. \A x \in Nat : f[x] \in Seq(S)
      OBVIOUS
    <3>2. \A x \in Nat : Len(f[x]) \in Nat
      BY <3>1
    <3> QED BY <2>1, <3>2
  <2>4. Begins(f[m], f[(m + d) + 1])
    BY <2>2, <2>3, BeginsTransitive
  <2> QED BY <2>1, <2>4
<1>3. Nat \subseteq A
  <2> HIDE DEF A
  <2> QED BY <1>1, <1>2, NatSetInduction
<1>4. n - m \in Nat /\ m + (n - m) = n
  OBVIOUS
<1>5. n - m \in A
  BY <1>3, <1>4
<1> QED BY <1>4, <1>5
==============================================================================
