----------------------------- MODULE Induction -----------------------------
(* Induction and recursion over the naturals and over finite sets, stated   *)
(* with sets where the library's theorems have an operator as a parameter:  *)
(* the iterates of a step function, what the recursive function of module   *)
(* Selection computes, the fold behind SumFunction and the laws of sums     *)
(* over finite sets.                                                        *)
EXTENDS Integers, Sequences, FiniteSets, Functions, FiniteSetTheorems, Selection, TLAPS

\* Every set of naturals that is not empty has a least element.
LEMMA LeastNumber ==
  ASSUME NEW T \in SUBSET Nat, T # {}
  PROVE  \E x \in T : \A y \in T : x <= y
<1> DEFINE R == {ss \in Nat \X Nat : ss[1] < ss[2]}
<1>1. IsWellFoundedOn(R, Nat)
  BY NatLessThanWellFounded DEF OpToRel
<1>2. PICK x \in T : \A y \in T : ~(<<y, x>> \in R)
  <2> HIDE DEF R
  <2> QED
    BY <1>1, WFMin
<1>3. \A y \in T : ~(y < x)
  BY <1>2
<1> QED
  BY <1>2, <1>3

\* Induction: a set of naturals that holds 0 and every successor holds all.
LEMMA NatSetInduction ==
  ASSUME NEW T \in SUBSET Nat, 0 \in T, \A n \in T : n + 1 \in T
  PROVE  T = Nat
<1> SUFFICES ASSUME Nat \ T # {} PROVE FALSE
  OBVIOUS
<1>1. PICK n \in Nat \ T : \A m \in Nat \ T : n <= m
  BY LeastNumber
<1>2. n # 0 /\ n - 1 \in T
  BY <1>1
<1> QED
  BY <1>1, <1>2

\* Induction over the subsets of a finite set: a family of them that holds the
\* empty set and grows by every element holds the set itself.
LEMMA FiniteSetInduction ==
  ASSUME NEW S, IsFiniteSet(S), NEW P \in SUBSET SUBSET S, {} \in P,
         \A T \in P : \A x \in S \ T : T \cup {x} \in P
  PROVE  S \in P
<1> DEFINE N == {n \in Nat : \A T \in SUBSET S : Cardinality(T) = n => T \in P}
<1>1. \A T \in SUBSET S : IsFiniteSet(T) /\ Cardinality(T) \in Nat
  BY FS_Subset, FS_CardinalityType
<1>2. 0 \in N
  BY <1>1, FS_EmptySet
<1>3. ASSUME NEW n \in N PROVE n + 1 \in N
  <2> SUFFICES ASSUME NEW T \in SUBSET S, Cardinality(T) = n + 1 PROVE T \in P
    OBVIOUS
  <2>1. T # {}
    <3>1. Cardinality({}) = 0
      BY FS_EmptySet
    <3>2. n + 1 # 0
      OBVIOUS
    <3> QED
      BY <3>1, <3>2
  <2>2. PICK x \in T : TRUE
    BY <2>1
  <2>3. Cardinality(T \ {x}) = n
    <3>1. IsFiniteSet(T)
      BY <1>1
    <3>2. Cardinality(T \ {x}) = Cardinality(T) - 1
      BY <2>2, <3>1, FS_RemoveElement
    <3> QED
      BY <3>2
  <2>4. T \ {x} \in P
    <3>1. T \ {x} \in SUBSET S
      OBVIOUS
    <3> HIDE DEF N
    <3>2. \A U \in SUBSET S : Cardinality(U) = n => U \in P
      BY DEF N
    <3> QED
      BY <2>3, <3>1, <3>2
  <2>5. (T \ {x}) \cup {x} = T /\ x \in S \ (T \ {x})
    OBVIOUS
  <2> QED
    BY <2>4, <2>5
<1>4. N = Nat
  <2> HIDE DEF N
  <2>1. N \in SUBSET Nat
    BY DEF N
  <2> QED
    BY <1>2, <1>3, <2>1, NatSetInduction
<1>5. Cardinality(S) \in N
  BY <1>1, <1>4
<1> QED
  BY <1>5

\* F takes the n-th iterate in A to the next one; g are the iterates from a.
StepFunction(F, A) == F \in [Nat -> [A -> A]]
IteratesFrom(g, A, a, F) ==
    /\ g \in [Nat -> A]
    /\ g[0] = a
    /\ \A n \in Nat : g[n + 1] = F[n][g[n]]

\* Primitive recursion: a step function on A has a sequence of iterates.
LEMMA Iterates ==
  ASSUME NEW A, NEW a \in A, NEW F, StepFunction(F, A)
  PROVE  \E g : IteratesFrom(g, A, a, F)
<1> USE DEF StepFunction
<1> DEFINE Upto(n, g) == /\ g \in [0 .. n -> A]
                         /\ g[0] = a
                         /\ \A i \in 0 .. n - 1 : g[i + 1] = F[i][g[i]]
           T == {n \in Nat : \E g : Upto(n, g)}
<1>1. 0 \in T
  <2>1. Upto(0, [i \in 0 .. 0 |-> a])
    OBVIOUS
  <2> QED
    BY <2>1
<1>2. ASSUME NEW n \in T PROVE n + 1 \in T
  <2>1. PICK g : Upto(n, g)
    OBVIOUS
  <2> DEFINE h == [i \in 0 .. n + 1 |-> IF i = n + 1 THEN F[n][g[n]] ELSE g[i]]
  <2>2. h \in [0 .. n + 1 -> A] /\ h[0] = a
    BY <2>1
  <2>3. ASSUME NEW i \in 0 .. n PROVE h[i + 1] = F[i][h[i]]
    <3>1. CASE i = n
      BY <2>1, <3>1
    <3>2. CASE i # n
      <4>1. i \in 0 .. n - 1
        BY <3>2
      <4> QED
        BY <2>1, <4>1
    <3> QED
      BY <3>1, <3>2
  <2>4. Upto(n + 1, h)
    <3> HIDE DEF h
    <3>1. (n + 1) - 1 = n
      OBVIOUS
    <3> QED
      BY <2>2, <2>3, <3>1
  <2> QED
    <3> HIDE DEF h, Upto
    <3> QED
      BY <2>4
<1>3. T = Nat
  <2> HIDE DEF T
  <2>1. T \in SUBSET Nat
    BY DEF T
  <2> QED
    BY <1>1, <1>2, <2>1, NatSetInduction
<1>4. \A n \in Nat : \E g : Upto(n, g)
  <2> HIDE DEF Upto
  <2> QED
    BY <1>3
<1>5. PICK G : \A n \in Nat : Upto(n, G[n])
  <2> HIDE DEF Upto
  <2> DEFINE H == [n \in Nat |-> CHOOSE g : Upto(n, g)]
  <2>1. \A n \in Nat : Upto(n, H[n])
    BY <1>4
  <2> QED
    BY <2>1
<1>6. ASSUME NEW n \in Nat PROVE G[n][n] = G[n + 1][n]
  <2> DEFINE U == {i \in Nat : i <= n => G[n][i] = G[n + 1][i]}
  <2>0. Upto(n, G[n]) /\ Upto(n + 1, G[n + 1])
    <3> HIDE DEF Upto
    <3> QED
      BY <1>5
  <2>1. 0 \in U
    BY <2>0
  <2>2. ASSUME NEW i \in U PROVE i + 1 \in U
    <3>1. CASE i + 1 <= n
      <4>1. G[n][i + 1] = F[i][G[n][i]] /\ G[n + 1][i + 1] = F[i][G[n + 1][i]]
        BY <2>0, <3>1
      <4> QED
        BY <3>1, <4>1
    <3>2. CASE ~(i + 1 <= n)
      BY <3>2
    <3> QED
      BY <3>1, <3>2
  <2>3. U = Nat
    <3> HIDE DEF U
    <3>1. U \in SUBSET Nat
      BY DEF U
    <3> QED
      BY <2>1, <2>2, <3>1, NatSetInduction
  <2> QED
    BY <2>3
<1> DEFINE s == [n \in Nat |-> G[n][n]]
<1>7. s \in [Nat -> A] /\ s[0] = a
  BY <1>5
<1>8. ASSUME NEW n \in Nat PROVE s[n + 1] = F[n][s[n]]
  <2>1. G[n + 1][n + 1] = F[n][G[n + 1][n]]
    BY <1>5
  <2> QED
    BY <1>6, <2>1
<1> QED
  <2> HIDE DEF s
  <2> QED
    BY <1>7, <1>8 DEF IteratesFrom

\* A set of naturals with an upper bound that is not empty has a greatest element.
LEMMA GreatestNumber ==
  ASSUME NEW T \in SUBSET Nat, T # {}, NEW b \in Nat, \A x \in T : x <= b
  PROVE  \E x \in T : \A y \in T : x >= y
<1> DEFINE U == {n \in Nat : b - n \in T}
<1>1. PICK t \in T : TRUE
  OBVIOUS
<1>2. b - t \in U
  BY <1>1
<1>3. PICK n \in U : \A m \in U : n <= m
  <2>1. U \in SUBSET Nat /\ U # {}
    BY <1>2
  <2> HIDE DEF U
  <2> QED
    BY <2>1, LeastNumber
<1>4. \A y \in T : b - y \in U
  OBVIOUS
<1>5. b - n \in T /\ n \in Nat
  BY <1>3
<1>6. ASSUME NEW y \in T PROVE b - n >= y
  <2>1. n <= b - y /\ y \in Nat
    BY <1>3, <1>4
  <2> QED
    BY <1>5, <2>1
<1> QED
  BY <1>5, <1>6

\* The iterates of a step function, up to some number.
IteratesUpto(g, N, A, a, F) ==
    /\ g \in [0 .. N -> A]
    /\ \A n \in 0 .. N : g[n] = IF n = 0 THEN a ELSE F[n - 1][g[n - 1]]

\* A step function has iterates up to every number.
LEMMA FirstIterates ==
  ASSUME NEW A, NEW a \in A, NEW F, StepFunction(F, A), NEW N \in Nat
  PROVE  \E g : IteratesUpto(g, N, A, a, F)
<1>1. PICK h : IteratesFrom(h, A, a, F)
  BY Iterates
<1> DEFINE g == [n \in 0 .. N |-> h[n]]
<1>2. g \in [0 .. N -> A]
  BY <1>1 DEF IteratesFrom
<1>3. ASSUME NEW n \in 0 .. N, n # 0 PROVE g[n] = F[n - 1][g[n - 1]]
  <2>1. n - 1 \in Nat /\ (n - 1) + 1 = n /\ n - 1 \in 0 .. N
    BY <1>3
  <2>2. h[n] = F[n - 1][h[n - 1]]
    BY <1>1, <2>1 DEF IteratesFrom
  <2> QED
    BY <2>1, <2>2
<1>4. g[0] = a
  BY <1>1 DEF IteratesFrom
<1> QED
  <2> HIDE DEF g
  <2> QED
    BY <1>2, <1>3, <1>4 DEF IteratesUpto

\* Induction up to a bound.
LEMMA BoundedInduction ==
  ASSUME NEW N \in Nat, NEW T \in SUBSET (0 .. N), 0 \in T,
         \A n \in T : n < N => n + 1 \in T
  PROVE  T = 0 .. N
<1> DEFINE U == {n \in Nat : n <= N => n \in T}
<1>1. 0 \in U /\ \A n \in U : n + 1 \in U
  OBVIOUS
<1>2. U = Nat
  <2>1. U \in SUBSET Nat
    OBVIOUS
  <2> HIDE DEF U
  <2> QED
    BY <1>1, <2>1, NatSetInduction
<1>3. ASSUME NEW n \in 0 .. N PROVE n \in T
  <2>1. n \in Nat /\ n <= N
    OBVIOUS
  <2>2. n \in U
    BY <1>2, <2>1
  <2> QED
    BY <2>1, <2>2
<1> QED
  BY <1>3

\* Two positions of q hold what two positions of s, out of K, hold.
DistinctOrigins(q, s, K) ==
    \A i, j \in DOMAIN q : i # j => \E k, l \in K : k # l /\ s[k] = q[i] /\ s[l] = q[j]

\* What comes first in q comes first in s.
OrderedOrigins(q, s, K) ==
    \A i, j \in DOMAIN q : i < j => \E k, l \in K : k < l /\ s[k] = q[i] /\ s[l] = q[j]

\* What an iterator's filter hands on: the elements of s that lie in T and no
\* others, in the order of s.
LEMMA SelectedInOrder ==
  ASSUME NEW X, NEW s \in Seq(X), NEW T
  PROVE  /\ Selected(s, T) \in Seq(X)
         /\ \A i \in DOMAIN Selected(s, T) :
              /\ Selected(s, T)[i] \in T
              /\ \E k \in DOMAIN s : s[k] = Selected(s, T)[i]
         /\ \A k \in DOMAIN s : s[k] \in T =>
              \E i \in DOMAIN Selected(s, T) : Selected(s, T)[i] = s[k]
         /\ OrderedOrigins(Selected(s, T), s, DOMAIN s)
<1> DEFINE N == Len(s)
           F == [n \in Nat |-> [q \in Seq(X) |->
                   IF n + 1 \in DOMAIN s /\ s[n + 1] \in T THEN Append(q, s[n + 1]) ELSE q]]
           Recursive(f) == f = [n \in 0 .. N |->
                   IF n = 0 THEN <<>>
                   ELSE IF s[n] \in T THEN Append(f[n - 1], s[n]) ELSE f[n - 1]]
<1>1. N \in Nat /\ DOMAIN s = 1 .. N /\ \A k \in 1 .. N : s[k] \in X
  OBVIOUS
<1>2. StepFunction(F, Seq(X)) /\ <<>> \in Seq(X)
  <2>1. ASSUME NEW n \in Nat, NEW q \in Seq(X)
        PROVE  (IF n + 1 \in DOMAIN s /\ s[n + 1] \in T THEN Append(q, s[n + 1]) ELSE q) \in Seq(X)
    BY <1>1
  <2> QED
    BY <2>1 DEF StepFunction
<1>3. PICK g \in [0 .. N -> Seq(X)] :
         \A n \in 0 .. N : g[n] = IF n = 0 THEN <<>> ELSE F[n - 1][g[n - 1]]
  <2> DEFINE A == Seq(X)  a == <<>>
  <2>1. N \in Nat /\ StepFunction(F, A) /\ a \in A
    BY <1>1, <1>2
  <2> HIDE DEF F, N, A, a
  <2>2. PICK g : IteratesUpto(g, N, A, a, F)
    BY <2>1, FirstIterates
  <2> QED
    BY <2>2 DEF A, a, IteratesUpto
<1>4. ASSUME NEW n \in 0 .. N, n # 0
      PROVE  g[n] = IF s[n] \in T THEN Append(g[n - 1], s[n]) ELSE g[n - 1]
  <2>1. n - 1 \in Nat /\ (n - 1) + 1 = n /\ n - 1 \in 0 .. N /\ n \in DOMAIN s
    BY <1>4, <1>1
  <2>2. g[n] = F[n - 1][g[n - 1]] /\ g[n - 1] \in Seq(X)
    BY <1>3, <1>4, <2>1
  <2> QED
    BY <2>1, <2>2
<1>5. Recursive(g)
  <2> HIDE DEF F
  <2> QED
    BY <1>3, <1>4
<1>6. PICK f : Recursive(f) /\ Selected(s, T) = f[N]
  <2>1. Selected(s, T) = (CHOOSE f : Recursive(f))[N]
    BY DEF Selected
  <2> HIDE DEF Recursive
  <2> QED
    BY <1>5, <2>1
<1> HIDE DEF F
<1>7. f[0] = <<>> /\ \A n \in 0 .. N : n # 0 =>
         f[n] = IF s[n] \in T THEN Append(f[n - 1], s[n]) ELSE f[n - 1]
  <2> HIDE DEF N
  <2>1. 0 \in 0 .. N
    BY <1>1
  <2> QED
    BY <1>6, <2>1
<1> HIDE DEF Recursive
<1> DEFINE Holds(n) ==
             /\ f[n] \in Seq(X)
             /\ \A i \in DOMAIN f[n] : f[n][i] \in T /\ \E k \in 1 .. n : s[k] = f[n][i]
             /\ \A k \in 1 .. n : s[k] \in T => \E i \in DOMAIN f[n] : f[n][i] = s[k]
             /\ OrderedOrigins(f[n], s, 1 .. n)
           P == {n \in 0 .. N : Holds(n)}
<1>8. 0 \in P
  <2>1. f[0] = <<>> /\ 0 \in 0 .. N
    BY <1>1, <1>7
  <2>2. DOMAIN f[0] = {} /\ 1 .. 0 = {} /\ f[0] \in Seq(X)
    BY <2>1
  <2>3. OrderedOrigins(f[0], s, 1 .. 0)
    BY <2>2 DEF OrderedOrigins
  <2> QED
    BY <2>1, <2>2, <2>3
<1>9. ASSUME NEW n \in P, n < N PROVE n + 1 \in P
  <2>1. n \in 0 .. N /\ n + 1 \in 0 .. N /\ n + 1 # 0 /\ (n + 1) - 1 = n /\ n + 1 \in 1 .. N /\ Holds(n)
    BY <1>1, <1>9
  <2>2. f[n + 1] = IF s[n + 1] \in T THEN Append(f[n], s[n + 1]) ELSE f[n]
    BY <1>7, <2>1
  <2>3. \A k \in 1 .. n + 1 : k \in 1 .. n \/ k = n + 1
    BY <1>1, <2>1
  <2>4. CASE s[n + 1] \notin T
    <3>1. f[n + 1] = f[n]
      BY <2>2, <2>4
    <3>0. 1 .. n \subseteq 1 .. n + 1 /\ \A k \in 1 .. n + 1 : s[k] \in T => k \in 1 .. n
      BY <2>1, <2>3, <2>4
    <3> HIDE DEF N
    <3>2. OrderedOrigins(f[n + 1], s, 1 .. n + 1)
      BY <2>1, <3>0, <3>1 DEF OrderedOrigins
    <3>3. Holds(n + 1)
      BY <2>1, <3>0, <3>1, <3>2
    <3> QED
      BY <2>1, <3>3
  <2>5. CASE s[n + 1] \in T
    <3> DEFINE q == f[n]  m == Len(q)
    <3>1. q \in Seq(X) /\ m \in Nat /\ s[n + 1] \in X
      BY <1>1, <2>1
    <3>2. f[n + 1] = Append(q, s[n + 1])
      BY <2>2, <2>5
    <3>3. /\ f[n + 1] \in Seq(X) /\ DOMAIN f[n + 1] = 1 .. m + 1 /\ DOMAIN q = 1 .. m
          /\ f[n + 1][m + 1] = s[n + 1]
          /\ \A i \in 1 .. m : f[n + 1][i] = q[i]
      BY <3>1, <3>2
    <3>4. \A i \in 1 .. m + 1 : i \in 1 .. m \/ i = m + 1
      BY <3>1
    <3> HIDE DEF m
    <3>5. ASSUME NEW i \in 1 .. m + 1
          PROVE  f[n + 1][i] \in T /\ \E k \in 1 .. n + 1 : s[k] = f[n + 1][i]
      <4>1. CASE i \in 1 .. m
        <5>1. q[i] \in T /\ \E k \in 1 .. n : s[k] = q[i]
          BY <2>1, <3>3, <4>1
        <5>2. 1 .. n \subseteq 1 .. n + 1
          BY <2>1
        <5> QED
          BY <3>3, <4>1, <5>1, <5>2
      <4>2. CASE i = m + 1
        <5>1. n + 1 \in 1 .. n + 1
          BY <2>1
        <5> QED
          BY <2>5, <3>3, <4>2, <5>1
      <4> QED
        BY <3>4, <4>1, <4>2
    <3>6. ASSUME NEW k \in 1 .. n + 1, s[k] \in T
          PROVE  \E i \in DOMAIN f[n + 1] : f[n + 1][i] = s[k]
      <4>1. CASE k = n + 1
        <5>1. m + 1 \in 1 .. m + 1
          BY <3>1
        <5> QED
          BY <3>3, <4>1, <5>1
      <4>2. CASE k \in 1 .. n
        <5>1. PICK i \in DOMAIN q : q[i] = s[k]
          BY <2>1, <3>6, <4>2
        <5>2. i \in 1 .. m + 1
          BY <3>1, <3>3, <5>1
        <5> QED
          BY <3>3, <5>1, <5>2
      <4> QED
        BY <2>3, <4>1, <4>2
    <3>7. ASSUME NEW i \in 1 .. m + 1, NEW j \in 1 .. m + 1, i < j
          PROVE  \E k, l \in 1 .. n + 1 : k < l /\ s[k] = f[n + 1][i] /\ s[l] = f[n + 1][j]
      <4>1. \A k \in 1 .. n : k \in 1 .. n + 1 /\ n + 1 \in 1 .. n + 1 /\ k < n + 1
        BY <2>1
      <4>2. CASE i \in 1 .. m /\ j \in 1 .. m
        <5>1. PICK k \in 1 .. n, l \in 1 .. n : k < l /\ s[k] = q[i] /\ s[l] = q[j]
          <6>1. OrderedOrigins(q, s, 1 .. n) /\ i \in DOMAIN q /\ j \in DOMAIN q
            BY <2>1, <3>3, <4>2
          <6> HIDE DEF q
          <6> QED
            BY <3>7, <6>1 DEF OrderedOrigins
        <5> QED
          BY <3>3, <4>1, <4>2, <5>1
      <4>3. CASE i \in 1 .. m /\ j = m + 1
        <5>1. PICK k \in 1 .. n : s[k] = q[i]
          BY <2>1, <3>3, <4>3
        <5> QED
          BY <3>3, <4>1, <4>3, <5>1
      <4>4. CASE i = m + 1
        <5>1. ~(i < j) /\ j \in Int /\ m \in Nat
          BY <3>1, <4>4
        <5> QED
          BY <3>7, <5>1
      <4> QED
        BY <3>4, <4>2, <4>3, <4>4
    <3>8. OrderedOrigins(f[n + 1], s, 1 .. n + 1)
      <4> SUFFICES ASSUME NEW i \in DOMAIN f[n + 1], NEW j \in DOMAIN f[n + 1], i < j
                   PROVE  \E k, l \in 1 .. n + 1 : k < l /\ s[k] = f[n + 1][i] /\ s[l] = f[n + 1][j]
        BY Zenon DEF OrderedOrigins
      <4>1. i \in 1 .. m + 1 /\ j \in 1 .. m + 1
        BY <3>3
      <4> QED
        BY <3>7, <4>1, Zenon
    <3> QED
      BY <2>1, <3>3, <3>5, <3>6, <3>8
  <2> QED
    BY <2>4, <2>5
<1>10. P = 0 .. N
  <2>1. P \in SUBSET (0 .. N)
    OBVIOUS
  <2> HIDE DEF P, N
  <2> QED
    BY <1>1, <1>8, <1>9, <2>1, BoundedInduction
<1>11. Holds(N)
  <2>1. N \in P
    BY <1>1, <1>10
  <2> QED
    BY <2>1
<1> QED
  BY <1>1, <1>6, <1>11

\* Two positions of what a filter hands on come from two of s.
LEMMA SelectedElements ==
  ASSUME NEW X, NEW s \in Seq(X), NEW T
  PROVE  /\ Selected(s, T) \in Seq(X)
         /\ \A i \in DOMAIN Selected(s, T) :
              /\ Selected(s, T)[i] \in T
              /\ \E k \in DOMAIN s : s[k] = Selected(s, T)[i]
         /\ \A k \in DOMAIN s : s[k] \in T =>
              \E i \in DOMAIN Selected(s, T) : Selected(s, T)[i] = s[k]
         /\ DistinctOrigins(Selected(s, T), s, DOMAIN s)
<1> DEFINE q == Selected(s, T)
<1>1. q \in Seq(X) /\ OrderedOrigins(q, s, DOMAIN s)
  BY SelectedInOrder
<1>2. \A i, j \in DOMAIN q : i # j => i < j \/ j < i
  <2>1. DOMAIN q = 1 .. Len(q) /\ Len(q) \in Nat
    BY <1>1
  <2> HIDE DEF q
  <2> QED
    BY <2>1
<1>3. \A k, l \in DOMAIN s : k < l => k # l
  OBVIOUS
<1> HIDE DEF q
<1>4. DistinctOrigins(q, s, DOMAIN s)
  <2> SUFFICES ASSUME NEW i \in DOMAIN q, NEW j \in DOMAIN q, i # j
               PROVE  \E k, l \in DOMAIN s : k # l /\ s[k] = q[i] /\ s[l] = q[j]
    BY DEF DistinctOrigins
  <2>1. CASE i < j
    BY <1>1, <1>3, <2>1 DEF OrderedOrigins
  <2>2. CASE j < i
    BY <1>1, <1>3, <2>2 DEF OrderedOrigins
  <2> QED
    BY <1>2, <2>1, <2>2
<1> QED
  BY <1>4, SelectedInOrder DEF q

\* Induction over all subsets of a finite set, from those with one element less.
LEMMA SubsetInduction ==
  ASSUME NEW S, IsFiniteSet(S), NEW P \in SUBSET SUBSET S, {} \in P,
         \A T \in SUBSET S : T # {} /\ (\A x \in T : T \ {x} \in P) => T \in P
  PROVE  P = SUBSET S
<1> DEFINE N == {n \in Nat : \A T \in SUBSET S : Cardinality(T) = n => T \in P}
<1>1. \A T \in SUBSET S : IsFiniteSet(T) /\ Cardinality(T) \in Nat
  BY FS_Subset, FS_CardinalityType
<1>2. 0 \in N
  BY <1>1, FS_EmptySet
<1>3. ASSUME NEW n \in N PROVE n + 1 \in N
  <2> SUFFICES ASSUME NEW T \in SUBSET S, Cardinality(T) = n + 1 PROVE T \in P
    OBVIOUS
  <2>1. T # {}
    <3>1. Cardinality({}) = 0 /\ n + 1 # 0
      BY FS_EmptySet
    <3> QED
      BY <3>1
  <2>2. ASSUME NEW x \in T PROVE T \ {x} \in P
    <3>1. IsFiniteSet(T)
      BY <1>1
    <3>2. Cardinality(T \ {x}) = Cardinality(T) - 1
      BY <3>1, FS_RemoveElement
    <3>3. Cardinality(T \ {x}) = n /\ T \ {x} \in SUBSET S
      BY <3>2
    <3> QED
      BY <3>3
  <2> QED
    BY <2>1, <2>2
<1>4. N = Nat
  <2> HIDE DEF N
  <2>1. N \in SUBSET Nat
    BY DEF N
  <2> QED
    BY <1>2, <1>3, <2>1, NatSetInduction
<1>5. ASSUME NEW T \in SUBSET S PROVE T \in P
  BY <1>1, <1>4
<1> QED
  BY <1>5

\* g folds the subsets of S into A: from the value for the set without the chosen
\* element C[s] the step K makes the value for s; the empty set has the value a.
Chooses(C, S) == \A s \in SUBSET S : s # {} => C[s] \in s
FoldOf(g, S, A, a, C, K) ==
    /\ g \in [SUBSET S -> A]
    /\ g[{}] = a
    /\ \A s \in SUBSET S : s # {} => g[s] = K[C[s]][g[s \ {C[s]}]]

\* Recursion over a finite set, in the order in which C chooses from it.
LEMMA FoldExists ==
  ASSUME NEW S, IsFiniteSet(S), NEW A, NEW a \in A, NEW C, Chooses(C, S),
         NEW K \in [S -> [A -> A]]
  PROVE  \E g : FoldOf(g, S, A, a, C, K)
<1> DEFINE G == [SUBSET S -> A]
           step(g) == [s \in SUBSET S |-> IF s = {} THEN a ELSE K[C[s]][g[s \ {C[s]}]]]
           F == [n \in Nat |-> [g \in G |-> step(g)]]
           first == [s \in SUBSET S |-> a]
<1>1. ASSUME NEW g \in G PROVE step(g) \in G
  <2>1. ASSUME NEW s \in SUBSET S, s # {} PROVE K[C[s]][g[s \ {C[s]}]] \in A
    <3>1. C[s] \in S
      BY <2>1 DEF Chooses
    <3>2. s \ {C[s]} \in SUBSET S
      OBVIOUS
    <3>3. g[s \ {C[s]}] \in A
      BY <3>2
    <3> QED
      BY <3>1, <3>3
  <2> QED
    BY <2>1
<1>2. StepFunction(F, G)
  BY <1>1 DEF StepFunction
<1>3. first \in G
  OBVIOUS
<1>4. PICK h : IteratesFrom(h, G, first, F)
  <2> HIDE DEF F, G, first
  <2> QED
    BY <1>2, <1>3, Iterates
<1>5. \A n \in Nat : h[n] \in G /\ h[n + 1] = step(h[n])
  BY <1>4 DEF IteratesFrom
<1>6. Cardinality(S) \in Nat
  BY FS_CardinalityType
<1> DEFINE N == Cardinality(S)
           Q == {T \in SUBSET S : \A n \in Nat : Cardinality(T) <= n => h[n + 1][T] = h[n][T]}
<1>7. \A T \in SUBSET S : IsFiniteSet(T) /\ Cardinality(T) \in Nat /\ Cardinality(T) <= N
  BY FS_Subset, FS_CardinalityType
<1>8. \A n \in Nat : h[n][{}] = a
  <2>1. h[0] = first
    BY <1>4 DEF IteratesFrom
  <2>2. ASSUME NEW n \in Nat, n # 0 PROVE h[n][{}] = a
    <3>1. n - 1 \in Nat /\ (n - 1) + 1 = n
      BY <2>2
    <3>2. h[n] = step(h[n - 1])
      BY <1>5, <3>1
    <3> QED
      BY <3>2
  <2> QED
    BY <2>1, <2>2
<1>9. Q = SUBSET S
  <2>1. {} \in Q
    BY <1>8
  <2>2. ASSUME NEW T \in SUBSET S, T # {}, \A x \in T : T \ {x} \in Q PROVE T \in Q
    <3> SUFFICES ASSUME NEW n \in Nat, Cardinality(T) <= n PROVE h[n + 1][T] = h[n][T]
      OBVIOUS
    <3> DEFINE x == C[T]  U == T \ {x}
    <3>1. x \in T
      BY <2>2 DEF Chooses
    <3>2. Cardinality(U) = Cardinality(T) - 1 /\ Cardinality(T) \in Nat /\ Cardinality(U) \in Nat
      <4>1. U \in SUBSET S
        OBVIOUS
      <4> QED
        BY <1>7, <3>1, <4>1, FS_RemoveElement
    <3>3. n - 1 \in Nat /\ (n - 1) + 1 = n /\ Cardinality(U) <= n - 1
      BY <3>2
    <3>4. h[n][U] = h[n - 1][U]
      <4> HIDE DEF x
      <4>1. U \in Q
        BY <2>2, <3>1
      <4> HIDE DEF U
      <4>2. h[(n - 1) + 1][U] = h[n - 1][U]
        BY <3>3, <4>1
      <4> QED
        BY <3>3, <4>2
    <3>5. h[n + 1][T] = K[x][h[n][U]]
      <4>1. h[n + 1] = step(h[n])
        BY <1>5
      <4> QED
        BY <2>2, <4>1
    <3>6. h[n][T] = K[x][h[n - 1][U]]
      <4>1. h[n] = step(h[n - 1])
        BY <1>5, <3>3
      <4> QED
        BY <2>2, <4>1
    <3> QED
      BY <3>4, <3>5, <3>6
  <2>3. Q \in SUBSET SUBSET S
    OBVIOUS
  <2> HIDE DEF Q
  <2> QED
    BY <2>1, <2>2, <2>3, SubsetInduction
<1> DEFINE g == h[N]
<1>10. g \in G
  BY <1>5, <1>6
<1>11. ASSUME NEW s \in SUBSET S, s # {} PROVE g[s] = K[C[s]][g[s \ {C[s]}]]
  <2>1. h[N + 1][s] = h[N][s]
    <3>1. s \in Q
      BY <1>9
    <3> QED
      BY <1>6, <1>7, <3>1
  <2>2. h[N + 1] = step(h[N])
    BY <1>5, <1>6
  <2>3. h[N + 1][s] = K[C[s]][h[N][s \ {C[s]}]]
    BY <1>11, <2>2
  <2> QED
    BY <2>1, <2>3
<1>12. g[{}] = a
  BY <1>6, <1>8
<1>13. FoldOf(g, S, A, a, C, K)
  <2> HIDE DEF g
  <2> QED
    BY <1>10, <1>11, <1>12 DEF FoldOf
<1> QED
  BY <1>13

\* g holds the sum of f over every subset of S.
Chosen(s) == CHOOSE x \in s : TRUE
SumsOf(g, f, S) ==
    /\ g \in [SUBSET S -> Int]
    /\ g[{}] = 0
    /\ \A s \in SUBSET S : s # {} => g[s] = f[Chosen(s)] + g[s \ {Chosen(s)}]
SumBody(g, f, S) ==
    g = [s \in SUBSET S |-> IF s = {} THEN 0 ELSE f[Chosen(s)] + g[s \ {Chosen(s)}]]

\* A function on a finite set has a function of the sums over its subsets.
LEMMA SumsExist ==
  ASSUME NEW S, IsFiniteSet(S), NEW f \in [S -> Int]
  PROVE  \E g : SumsOf(g, f, S)
<1> DEFINE C == [s \in SUBSET S |-> Chosen(s)]
           K == [x \in S |-> [n \in Int |-> f[x] + n]]
<1>1. Chooses(C, S)
  BY DEF Chooses, Chosen
<1>2. K \in [S -> [Int -> Int]]
  OBVIOUS
<1>3. PICK g : FoldOf(g, S, Int, 0, C, K)
  <2>1. 0 \in Int
    OBVIOUS
  <2> HIDE DEF C, K
  <2> QED
    BY <1>1, <1>2, <2>1, FoldExists
<1>4. ASSUME NEW s \in SUBSET S, s # {} PROVE g[s] = f[Chosen(s)] + g[s \ {Chosen(s)}]
  <2>1. g[s] = K[C[s]][g[s \ {C[s]}]] /\ g \in [SUBSET S -> Int]
    BY <1>3, <1>4 DEF FoldOf
  <2>2. C[s] = Chosen(s) /\ Chosen(s) \in S
    BY <1>1, <1>4 DEF Chooses
  <2>3. g[s \ {Chosen(s)}] \in Int
    BY <2>1
  <2> QED
    BY <2>1, <2>2, <2>3
<1>5. SumsOf(g, f, S)
  BY <1>3, <1>4 DEF FoldOf, SumsOf
<1> QED
  BY <1>5

\* What SumFunction computes: the sums of the subsets lead to it.
LEMMA SumIsFold ==
  ASSUME NEW S, IsFiniteSet(S), NEW f \in [S -> Int], NEW g, SumsOf(g, f, S)
  PROVE  SumFunction(f) = g[S]
<1>1. SumFunction(f) = (CHOOSE h : SumBody(h, f, S))[S]
  <2>1. DOMAIN f = S
    OBVIOUS
  <2>2. SumFunction(f) = SumFunctionOnSet(f, S)
    BY <2>1 DEF SumFunction
  <2> QED
    BY <2>2 DEF SumFunctionOnSet, FoldFunctionOnSet, MapThenFoldSet, SumBody, Chosen
<1>2. SumBody(g, f, S)
  BY DEF SumsOf, SumBody
<1>3. PICK h : h = (CHOOSE k : SumBody(k, f, S)) /\ SumBody(h, f, S)
  BY <1>2
<1> DEFINE P == {T \in SUBSET S : h[T] = g[T]}
<1>4. {} \in P
  BY <1>3 DEF SumBody, SumsOf
<1>5. ASSUME NEW T \in SUBSET S, T # {}, \A x \in T : T \ {x} \in P PROVE T \in P
  <2>1. Chosen(T) \in T
    BY <1>5 DEF Chosen
  <2>2. h[T \ {Chosen(T)}] = g[T \ {Chosen(T)}]
    BY <1>5, <2>1
  <2>3. h[T] = f[Chosen(T)] + h[T \ {Chosen(T)}]
    BY <1>3, <1>5 DEF SumBody
  <2>4. g[T] = f[Chosen(T)] + g[T \ {Chosen(T)}]
    BY <1>5 DEF SumsOf
  <2> QED
    BY <2>2, <2>3, <2>4
<1>6. P = SUBSET S
  <2>1. P \in SUBSET SUBSET S
    OBVIOUS
  <2> HIDE DEF P
  <2> QED
    BY <1>4, <1>5, <2>1, SubsetInduction
<1>7. S \in P
  BY <1>6
<1> QED
  BY <1>1, <1>3, <1>7

\* A sum may be taken apart at any element.
SplitsAnywhere(g, f, S) == \A T \in SUBSET S : \A x \in T : g[T] = f[x] + g[T \ {x}]
\* Such a sum may give up any one of its elements first.
LEMMA SumsTake ==
  ASSUME NEW S, IsFiniteSet(S), NEW f \in [S -> Int], NEW g, SumsOf(g, f, S)
  PROVE  SplitsAnywhere(g, f, S)
<1> DEFINE P == {T \in SUBSET S : \A x \in T : g[T] = f[x] + g[T \ {x}]}
<1>0. \A T \in SUBSET S : g[T] \in Int
  BY DEF SumsOf
<1>1. {} \in P
  OBVIOUS
<1>2. ASSUME NEW T \in SUBSET S, T # {}, \A x \in T : T \ {x} \in P PROVE T \in P
  <2> SUFFICES ASSUME NEW x \in T PROVE g[T] = f[x] + g[T \ {x}]
    OBVIOUS
  <2> DEFINE c == Chosen(T)
  <2>1. c \in T /\ g[T] = f[c] + g[T \ {c}]
    BY <1>2 DEF Chosen, SumsOf
  <2> HIDE DEF c
  <2>2. CASE x = c
    BY <2>1, <2>2
  <2>3. CASE x # c
    <3>0. T \ {c} \in P /\ T \ {x} \in P
      BY <1>2, <2>1
    <3>1. g[T \ {c}] = f[x] + g[(T \ {c}) \ {x}]
      BY <2>3, <3>0
    <3>2. g[T \ {x}] = f[c] + g[(T \ {x}) \ {c}]
      <4>1. c \in T \ {x}
        BY <2>1, <2>3
      <4> QED
        BY <3>0, <4>1
    <3>3. (T \ {c}) \ {x} = (T \ {x}) \ {c}
      OBVIOUS
    <3>4. g[(T \ {x}) \ {c}] \in Int /\ f[c] \in Int /\ f[x] \in Int
      BY <1>0, <2>1
    <3> DEFINE u == g[(T \ {x}) \ {c}]  fc == f[c]  fx == f[x]
    <3>5. g[T] = fc + (fx + u) /\ g[T \ {x}] = fc + u
      BY <2>1, <3>1, <3>2, <3>3
    <3>6. u \in Int /\ fc \in Int /\ fx \in Int
      BY <3>4
    <3> HIDE DEF u, fc, fx
    <3>7. fc + (fx + u) = fx + (fc + u)
      BY <3>6
    <3>8. g[T] = fx + g[T \ {x}]
      BY <3>5, <3>7
    <3> QED
      BY <3>8 DEF fx
  <2> QED
    BY <2>2, <2>3
<1>3. P \in SUBSET SUBSET S
  OBVIOUS
<1>4. P = SUBSET S
  <2> HIDE DEF P
  <2> QED
    BY <1>1, <1>2, <1>3, SubsetInduction
<1> QED
  BY <1>4 DEF SplitsAnywhere

\* SumFunction of a restriction is the sum over the subset.
LEMMA SumsPart ==
  ASSUME NEW S, IsFiniteSet(S), NEW f \in [S -> Int], NEW g, SumsOf(g, f, S),
         NEW T \in SUBSET S
  PROVE  SumFunction([x \in T |-> f[x]]) = g[T]
<1> DEFINE p == [x \in T |-> f[x]]
           q == [s \in SUBSET T |-> g[s]]
<1>1. IsFiniteSet(T) /\ p \in [T -> Int]
  BY FS_Subset
<1>2. \A s \in SUBSET T : s \in SUBSET S
  OBVIOUS
<1>3. q \in [SUBSET T -> Int] /\ q[{}] = 0
  BY <1>2 DEF SumsOf
<1>4. ASSUME NEW s \in SUBSET T, s # {} PROVE q[s] = p[Chosen(s)] + q[s \ {Chosen(s)}]
  <2>1. Chosen(s) \in s
    BY <1>4 DEF Chosen
  <2>2. g[s] = f[Chosen(s)] + g[s \ {Chosen(s)}]
    BY <1>2, <1>4 DEF SumsOf
  <2>3. p[Chosen(s)] = f[Chosen(s)] /\ q[s] = g[s] /\ q[s \ {Chosen(s)}] = g[s \ {Chosen(s)}]
    BY <2>1
  <2> QED
    BY <2>2, <2>3
<1>5. SumsOf(q, p, T)
  <2> HIDE DEF q, p
  <2> QED
    BY <1>3, <1>4 DEF SumsOf
<1>6. SumFunction(p) = q[T]
  <2> HIDE DEF q, p
  <2> QED
    BY <1>1, <1>5, SumIsFold
<1> QED
  BY <1>6

\* A sum of integers over a finite set is an integer; over no element it is 0; and
\* any element may be taken out of it.
LEMMA SumType ==
  ASSUME NEW S, IsFiniteSet(S), NEW f \in [S -> Int]
  PROVE  SumFunction(f) \in Int
<1>1. PICK g : SumsOf(g, f, S)
  BY SumsExist
<1>2. SumFunction(f) = g[S]
  BY <1>1, SumIsFold
<1>3. g \in [SUBSET S -> Int] /\ S \in SUBSET S
  BY <1>1 DEF SumsOf
<1> QED
  BY <1>2, <1>3

\* The sum over nothing is zero.
LEMMA SumEmpty ==
  ASSUME NEW f, DOMAIN f = {}
  PROVE  SumFunction(f) = 0
<1>1. SumFunction(f) = (CHOOSE h : SumBody(h, f, {}))[{}]
  <2>1. SumFunction(f) = SumFunctionOnSet(f, {})
    BY DEF SumFunction
  <2> QED
    BY <2>1 DEF SumFunctionOnSet, FoldFunctionOnSet, MapThenFoldSet, SumBody, Chosen
<1>2. SumBody([s \in SUBSET {} |-> 0], f, {})
  BY DEF SumBody
<1>3. PICK h : h = (CHOOSE k : SumBody(k, f, {})) /\ SumBody(h, f, {})
  BY <1>2
<1> QED
  BY <1>1, <1>3 DEF SumBody

Without(f, x) == [y \in DOMAIN f \ {x} |-> f[y]]
\* A sum is any one element and the sum of the others.
LEMMA SumTake ==
  ASSUME NEW S, IsFiniteSet(S), NEW f \in [S -> Int], NEW x \in S
  PROVE  SumFunction(f) = f[x] + SumFunction(Without(f, x))
<1>1. PICK g : SumsOf(g, f, S)
  BY SumsExist
<1>2. SumFunction(f) = g[S] /\ g[S] = f[x] + g[S \ {x}]
  BY <1>1, SumIsFold, SumsTake DEF SplitsAnywhere
<1>3. Without(f, x) = [y \in S \ {x} |-> f[y]] /\ S \ {x} \in SUBSET S
  BY DEF Without
<1>4. SumFunction([y \in S \ {x} |-> f[y]]) = g[S \ {x}]
  BY <1>1, <1>3, SumsPart
<1> QED
  BY <1>2, <1>3, <1>4

\* A sum of naturals is a natural.
LEMMA SumNat ==
  ASSUME NEW S, IsFiniteSet(S), NEW f \in [S -> Nat]
  PROVE  SumFunction(f) \in Nat
<1>0. f \in [S -> Int]
  OBVIOUS
<1>1. PICK g : SumsOf(g, f, S)
  BY <1>0, SumsExist
<1> DEFINE P == {T \in SUBSET S : g[T] \in Nat}
<1>2. {} \in P
  BY <1>1 DEF SumsOf
<1>3. ASSUME NEW T \in SUBSET S, T # {}, \A x \in T : T \ {x} \in P PROVE T \in P
  <2>1. Chosen(T) \in T
    BY <1>3 DEF Chosen
  <2>2. g[T] = f[Chosen(T)] + g[T \ {Chosen(T)}]
    BY <1>1, <1>3 DEF SumsOf
  <2>3. g[T \ {Chosen(T)}] \in Nat /\ f[Chosen(T)] \in Nat
    BY <1>3, <2>1
  <2> QED
    BY <2>2, <2>3
<1>4. P \in SUBSET SUBSET S
  OBVIOUS
<1>5. P = SUBSET S
  <2> HIDE DEF P
  <2> QED
    BY <1>2, <1>3, <1>4, SubsetInduction
<1>6. g[S] \in Nat
  BY <1>5
<1> QED
  BY <1>0, <1>1, <1>6, SumIsFold

Agree(h, f, S) == \A y \in S : h[y] = f[y]

\* Functions that differ at one element only have sums that differ as they do there.
LEMMA SumChange ==
  ASSUME NEW S, IsFiniteSet(S), NEW f \in [S -> Int], NEW h \in [S -> Int], NEW x \in S,
         Agree(h, f, S \ {x})
  PROVE  SumFunction(h) = SumFunction(f) + h[x] - f[x]
<1>1. SumFunction(f) = f[x] + SumFunction(Without(f, x))
  BY SumTake, Zenon
<1>2. SumFunction(h) = h[x] + SumFunction(Without(h, x))
  BY SumTake, Zenon
<1>3. Without(h, x) = Without(f, x)
  BY DEF Without, Agree
<1>4. SumFunction(Without(f, x)) \in Int /\ f[x] \in Int /\ h[x] \in Int
  <2>1. IsFiniteSet(S \ {x}) /\ Without(f, x) \in [S \ {x} -> Int]
    BY FS_Subset DEF Without
  <2> QED
    BY <2>1, SumType
<1> QED
  BY <1>1, <1>2, <1>3, <1>4

\* A new element adds its own value.
LEMMA SumGrow ==
  ASSUME NEW S, IsFiniteSet(S), NEW x, x \notin S, NEW h \in [S \cup {x} -> Int],
         NEW f \in [S -> Int], Agree(h, f, S)
  PROVE  SumFunction(h) = SumFunction(f) + h[x]
<1>1. IsFiniteSet(S \cup {x})
  BY FS_AddElement
<1>2. SumFunction(h) = h[x] + SumFunction(Without(h, x))
  <2>1. x \in S \cup {x}
    OBVIOUS
  <2> QED
    BY <1>1, <2>1, SumTake, Zenon
<1>3. Without(h, x) = f
  BY DEF Without, Agree
<1>4. SumFunction(f) \in Int /\ h[x] \in Int
  BY SumType
<1> QED
  BY <1>2, <1>3, <1>4

\* A sum of sums is the sum of the pointwise sums.
LEMMA SumAdd ==
  ASSUME NEW S, IsFiniteSet(S), NEW f \in [S -> Int], NEW h \in [S -> Int]
  PROVE  SumFunction([x \in S |-> f[x] + h[x]]) = SumFunction(f) + SumFunction(h)
<1> DEFINE k == [x \in S |-> f[x] + h[x]]
<1>0. k \in [S -> Int]
  OBVIOUS
<1>1. PICK a : SumsOf(a, f, S)
  BY SumsExist
<1>2. PICK b : SumsOf(b, h, S)
  BY SumsExist
<1> DEFINE c == [T \in SUBSET S |-> a[T] + b[T]]
<1>3. c \in [SUBSET S -> Int] /\ c[{}] = 0
  BY <1>1, <1>2 DEF SumsOf
<1>4. ASSUME NEW T \in SUBSET S, T # {} PROVE c[T] = k[Chosen(T)] + c[T \ {Chosen(T)}]
  <2>1. Chosen(T) \in T
    BY <1>4 DEF Chosen
  <2>2. a[T] = f[Chosen(T)] + a[T \ {Chosen(T)}] /\ b[T] = h[Chosen(T)] + b[T \ {Chosen(T)}]
    BY <1>1, <1>2, <1>4 DEF SumsOf
  <2>3. a[T \ {Chosen(T)}] \in Int /\ b[T \ {Chosen(T)}] \in Int
    BY <1>1, <1>2 DEF SumsOf
  <2>4. k[Chosen(T)] = f[Chosen(T)] + h[Chosen(T)] /\ f[Chosen(T)] \in Int /\ h[Chosen(T)] \in Int
    BY <2>1
  <2>5. c[T] = a[T] + b[T] /\ c[T \ {Chosen(T)}] = a[T \ {Chosen(T)}] + b[T \ {Chosen(T)}]
    OBVIOUS
  <2> HIDE DEF c, k
  <2> QED
    BY <2>2, <2>3, <2>4, <2>5
<1>5. SumsOf(c, k, S)
  <2> HIDE DEF c, k
  <2> QED
    BY <1>3, <1>4 DEF SumsOf
<1>6. SumFunction(k) = c[S]
  <2> HIDE DEF c, k
  <2> QED
    BY <1>0, <1>5, SumIsFold
<1>7. SumFunction(f) = a[S] /\ SumFunction(h) = b[S]
  BY <1>1, <1>2, SumIsFold
<1> QED
  BY <1>6, <1>7

\* A sum of zeros is zero.
LEMMA SumZero ==
  ASSUME NEW S, IsFiniteSet(S), NEW f \in [S -> Int], \A x \in S : f[x] = 0
  PROVE  SumFunction(f) = 0
<1> DEFINE g == [T \in SUBSET S |-> 0]
<1>1. g \in [SUBSET S -> Int] /\ g[{}] = 0
  OBVIOUS
<1>2. ASSUME NEW T \in SUBSET S, T # {} PROVE g[T] = f[Chosen(T)] + g[T \ {Chosen(T)}]
  <2>1. Chosen(T) \in S
    BY <1>2 DEF Chosen
  <2> QED
    BY <2>1
<1>3. SumsOf(g, f, S)
  <2> HIDE DEF g
  <2> QED
    BY <1>1, <1>2 DEF SumsOf
<1> QED
  BY <1>3, SumIsFold

\* The sum over a one-element set.
LEMMA SumOne ==
  ASSUME NEW x, NEW f \in [{x} -> Int]
  PROVE  SumFunction(f) = f[x]
<1>1. IsFiniteSet({x})
  BY FS_Singleton
<1>2. SumFunction(f) = f[x] + SumFunction(Without(f, x))
  BY <1>1, SumTake
<1>3. SumFunction(Without(f, x)) = 0
  <2>1. DOMAIN Without(f, x) = {}
    BY DEF Without
  <2> QED
    BY <2>1, SumEmpty
<1> QED
  BY <1>2, <1>3

\* The elements where f is 0 add nothing.
LEMMA SumSupport ==
  ASSUME NEW S, IsFiniteSet(S), NEW f \in [S -> Int], NEW R \in SUBSET S,
         \A x \in S \ R : f[x] = 0
  PROVE  SumFunction(f) = SumFunction([x \in R |-> f[x]])
<1>1. PICK g : SumsOf(g, f, S)
  BY SumsExist
<1> DEFINE P == {T \in SUBSET S : g[T] = g[T \cap R]}
<1>2. {} \in P
  <2>1. {} \cap R = {}
    OBVIOUS
  <2> QED
    BY <2>1
<1>3. ASSUME NEW T \in SUBSET S, T # {}, \A x \in T : T \ {x} \in P PROVE T \in P
  <2>1. CASE T \subseteq R
    <3>1. T \cap R = T
      BY <2>1
    <3> QED
      BY <3>1
  <2>2. CASE ~(T \subseteq R)
    <3>1. PICK x \in T : x \notin R
      BY <2>2
    <3>2. g[T] = f[x] + g[T \ {x}] /\ f[x] = 0
      BY <1>1, <3>1, SumsTake DEF SplitsAnywhere
    <3>3. g[T \ {x}] = g[(T \ {x}) \cap R] /\ (T \ {x}) \cap R = T \cap R
      BY <1>3, <3>1
    <3>4. g[T \ {x}] \in Int
      BY <1>1 DEF SumsOf
    <3>5. g[T] = g[T \ {x}]
      <4> DEFINE v == g[T \ {x}]
      <4>1. g[T] = 0 + v /\ v \in Int
        BY <3>2, <3>4
      <4> HIDE DEF v
      <4> QED
        BY <4>1 DEF v
    <3> QED
      BY <3>3, <3>5
  <2> QED
    BY <2>1, <2>2
<1>4. P \in SUBSET SUBSET S
  OBVIOUS
<1>5. P = SUBSET S
  <2> HIDE DEF P
  <2> QED
    BY <1>2, <1>3, <1>4, SubsetInduction
<1>6. g[S] = g[S \cap R] /\ S \cap R = R
  BY <1>5
<1>7. SumFunction(f) = g[S]
  BY <1>1, SumIsFold
<1>8. SumFunction([x \in R |-> f[x]]) = g[R]
  <2> HIDE DEF P
  <2> QED
    BY <1>1, SumsPart
<1> QED
  BY <1>6, <1>7, <1>8

\* The sum over two sets that share nothing.
LEMMA SumDisjoint ==
  ASSUME NEW S, IsFiniteSet(S), NEW R, IsFiniteSet(R), S \cap R = {}, NEW f \in [S \cup R -> Int]
  PROVE  SumFunction(f) = SumFunction([x \in S |-> f[x]]) + SumFunction([x \in R |-> f[x]])
<1> DEFINE A == S \cup R
           p == [x \in A |-> IF x \in S THEN f[x] ELSE 0]
           q == [x \in A |-> IF x \in R THEN f[x] ELSE 0]
<1>1. IsFiniteSet(A) /\ S \in SUBSET A /\ R \in SUBSET A /\ p \in [A -> Int] /\ q \in [A -> Int]
  <2>1. IsFiniteSet(A)
    BY FS_Union
  <2>2. p \in [A -> Int] /\ q \in [A -> Int]
    OBVIOUS
  <2> QED
    BY <2>1, <2>2
<1>2. \A x \in A \ S : p[x] = 0
  OBVIOUS
<1>3. \A x \in A \ R : q[x] = 0
  OBVIOUS
<1>4. f = [x \in A |-> p[x] + q[x]]
  <2>1. \A x \in A : f[x] = p[x] + q[x]
    OBVIOUS
  <2>2. f = [x \in A |-> f[x]]
    OBVIOUS
  <2> HIDE DEF p, q, A
  <2> QED
    BY <2>1, <2>2
<1>5. [x \in S |-> p[x]] = [x \in S |-> f[x]] /\ [x \in R |-> q[x]] = [x \in R |-> f[x]]
  OBVIOUS
<1> HIDE DEF p, q, A
<1>6. SumFunction([x \in A |-> p[x] + q[x]]) = SumFunction(p) + SumFunction(q)
  BY <1>1, SumAdd
<1>7. SumFunction(p) = SumFunction([x \in S |-> p[x]])
  BY <1>1, <1>2, SumSupport
<1>8. SumFunction(q) = SumFunction([x \in R |-> q[x]])
  BY <1>1, <1>3, SumSupport
<1> QED
  BY <1>4, <1>5, <1>6, <1>7, <1>8

\* A one-to-one renaming of the elements keeps the sum.
LEMMA SumRename ==
  ASSUME NEW S, IsFiniteSet(S), NEW R, NEW e \in [S -> R],
         \A x, y \in S : e[x] = e[y] => x = y,
         \A r \in R : \E x \in S : e[x] = r,
         NEW f \in [R -> Int]
  PROVE  SumFunction([x \in S |-> f[e[x]]]) = SumFunction(f)
<1> DEFINE k == [x \in S |-> f[e[x]]]
           im(T) == {e[x] : x \in T}
<1>0. k \in [S -> Int]
  OBVIOUS
<1>1. IsFiniteSet(R)
  <2>1. e \in Surjection(S, R)
    BY DEF Surjection
  <2> QED
    BY <2>1, FS_Surjection
<1>2. PICK g : SumsOf(g, f, R)
  BY <1>1, SumsExist
<1>10. \A U \in SUBSET R : \A r \in U : g[U] = f[r] + g[U \ {r}]
  <2>1. SplitsAnywhere(g, f, R)
    BY <1>1, <1>2, SumsTake
  <2> QED
    BY <2>1 DEF SplitsAnywhere
<1> DEFINE c == [T \in SUBSET S |-> g[im(T)]]
<1>3. \A T \in SUBSET S : im(T) \in SUBSET R
  OBVIOUS
<1>4. c \in [SUBSET S -> Int] /\ c[{}] = 0
  <2>1. im({}) = {}
    OBVIOUS
  <2> QED
    BY <1>2, <1>3, <2>1 DEF SumsOf
<1>5. ASSUME NEW T \in SUBSET S, T # {} PROVE c[T] = k[Chosen(T)] + c[T \ {Chosen(T)}]
  <2>1. Chosen(T) \in T
    BY <1>5 DEF Chosen
  <2> DEFINE x == Chosen(T)
  <2>2. im(T \ {x}) = im(T) \ {e[x]} /\ e[x] \in im(T)
    <3> HIDE DEF x
    <3>1. x \in T
      BY <2>1 DEF x
    <3> QED
      BY <3>1
  <2>3. g[im(T)] = f[e[x]] + g[im(T) \ {e[x]}]
    <3> HIDE DEF x
    <3> QED
      BY <1>3, <1>10, <2>2
  <2>4. k[x] = f[e[x]]
    BY <2>1
  <2> QED
    BY <2>2, <2>3, <2>4
<1>6. SumsOf(c, k, S)
  <2> HIDE DEF c, k
  <2> QED
    BY <1>4, <1>5 DEF SumsOf
<1>7. SumFunction(k) = c[S]
  <2> HIDE DEF c, k
  <2> QED
    BY <1>0, <1>6, SumIsFold
<1>8. im(S) = R
  OBVIOUS
<1>9. SumFunction(f) = g[R]
  BY <1>1, <1>2, SumIsFold
<1> QED
  BY <1>7, <1>8, <1>9

\* The sum of the rows of a matrix is the sum of its columns.
RowSums(w, R) == [r \in R |-> SumFunction(w[r])]
ColumnSums(w, R, F) == [f \in F |-> SumFunction([r \in R |-> w[r][f]])]
\* A table of numbers has one sum, by rows and by columns.
LEMMA SumExchange ==
  ASSUME NEW R, IsFiniteSet(R), NEW F, IsFiniteSet(F), NEW w \in [R -> [F -> Int]]
  PROVE  SumFunction(RowSums(w, R)) = SumFunction(ColumnSums(w, R, F))
<1> DEFINE P == {T \in SUBSET R : SumFunction(RowSums(w, T)) = SumFunction(ColumnSums(w, T, F))}
<1>1. {} \in P
  <2>1. SumFunction(RowSums(w, {})) = 0
    <3>1. DOMAIN RowSums(w, {}) = {}
      BY DEF RowSums
    <3> QED
      BY <3>1, SumEmpty
  <2>2. \A f \in F : ColumnSums(w, {}, F)[f] = 0
    <3> TAKE f \in F
    <3>1. SumFunction([r \in {} |-> w[r][f]]) = 0
      BY SumEmpty
    <3> QED
      BY <3>1 DEF ColumnSums
  <2>3. ColumnSums(w, {}, F) \in [F -> Int]
    BY <2>2 DEF ColumnSums
  <2>4. SumFunction(ColumnSums(w, {}, F)) = 0
    BY <2>2, <2>3, SumZero
  <2> QED
    BY <2>1, <2>4
<1>2. ASSUME NEW T \in P, NEW x \in R \ T PROVE T \cup {x} \in P
  <2> DEFINE U == T \cup {x}
  <2>0. T \in SUBSET R /\ U \in SUBSET R /\ IsFiniteSet(T) /\ IsFiniteSet(U)
        /\ SumFunction(RowSums(w, T)) = SumFunction(ColumnSums(w, T, F))
    BY FS_Subset
  <2>1. \A V \in SUBSET R : RowSums(w, V) \in [V -> Int]
    <3> TAKE V \in SUBSET R
    <3>1. ASSUME NEW r \in V PROVE SumFunction(w[r]) \in Int
      BY SumType
    <3> QED
      BY <3>1 DEF RowSums
  <2>2. \A V \in SUBSET R : IsFiniteSet(V) => ColumnSums(w, V, F) \in [F -> Int]
    <3> TAKE V \in SUBSET R
    <3> HAVE IsFiniteSet(V)
    <3>1. ASSUME NEW f \in F PROVE SumFunction([r \in V |-> w[r][f]]) \in Int
      <4>1. [r \in V |-> w[r][f]] \in [V -> Int]
        OBVIOUS
      <4> QED
        BY <4>1, SumType
    <3> QED
      BY <3>1 DEF ColumnSums
  <2>3. SumFunction(RowSums(w, U)) = SumFunction(RowSums(w, T)) + SumFunction(w[x])
    <3>1. RowSums(w, U) \in [T \cup {x} -> Int] /\ RowSums(w, T) \in [T -> Int]
      BY <2>0, <2>1
    <3>2. Agree(RowSums(w, U), RowSums(w, T), T)
      BY DEF RowSums, Agree
    <3>3. RowSums(w, U)[x] = SumFunction(w[x])
      BY DEF RowSums
    <3> HIDE DEF U
    <3>4. SumFunction(RowSums(w, U)) = SumFunction(RowSums(w, T)) + RowSums(w, U)[x]
      <4> DEFINE h == RowSums(w, U)  f == RowSums(w, T)
      <4>1. IsFiniteSet(T) /\ x \notin T
        BY <2>0
      <4>2. h \in [T \cup {x} -> Int] /\ f \in [T -> Int] /\ Agree(h, f, T)
        BY <3>1, <3>2
      <4> HIDE DEF h, f, P
      <4>3. SumFunction(h) = SumFunction(f) + h[x]
        BY <4>1, <4>2, SumGrow
      <4> QED
        BY <4>3 DEF h, f
    <3> QED
      BY <3>3, <3>4
  <2>4. ColumnSums(w, U, F) = [f \in F |-> ColumnSums(w, T, F)[f] + w[x][f]]
    <3>1. ASSUME NEW f \in F
          PROVE  SumFunction([r \in U |-> w[r][f]]) = SumFunction([r \in T |-> w[r][f]]) + w[x][f]
      <4> DEFINE a == [r \in U |-> w[r][f]]  b == [r \in T |-> w[r][f]]
      <4>1. a \in [T \cup {x} -> Int] /\ b \in [T -> Int] /\ a[x] = w[x][f] /\ Agree(a, b, T)
        BY <2>0 DEF Agree
      <4>4. IsFiniteSet(T) /\ x \notin T
        BY <2>0
      <4> HIDE DEF a, b, U, P
      <4>2. SumFunction(a) = SumFunction(b) + a[x]
        BY <4>1, <4>4, SumGrow
      <4>3. SumFunction(a) = SumFunction(b) + w[x][f]
        BY <4>1, <4>2
      <4> QED
        BY <4>3 DEF a, b
    <3> HIDE DEF U
    <3> QED
      BY <3>1 DEF ColumnSums
  <2>5. SumFunction(ColumnSums(w, U, F)) = SumFunction(ColumnSums(w, T, F)) + SumFunction(w[x])
    <3>1. ColumnSums(w, T, F) \in [F -> Int] /\ w[x] \in [F -> Int]
      BY <2>0, <2>2
    <3> DEFINE p == ColumnSums(w, T, F)  q == w[x]
    <3> HIDE DEF p, q
    <3>2. SumFunction([f \in F |-> p[f] + q[f]]) = SumFunction(p) + SumFunction(q)
      <4>1. p \in [F -> Int] /\ q \in [F -> Int]
        BY <3>1 DEF p, q
      <4> QED
        BY <4>1, SumAdd
    <3> QED
      BY <2>4, <3>2 DEF p, q
  <2> QED
    BY <2>0, <2>3, <2>5
<1>3. P \in SUBSET SUBSET R
  OBVIOUS
<1>4. R \in P
  <2> HIDE DEF P
  <2> QED
    BY <1>1, <1>2, <1>3, FiniteSetInduction
<1> QED
  BY <1>4
\* The image of a finite set under a function is finite.
LEMMA FiniteImage ==
  ASSUME NEW S, IsFiniteSet(S), NEW e, DOMAIN e = S
  PROVE  IsFiniteSet({e[x] : x \in S})
<1> DEFINE R == {e[x] : x \in S}
           k == [x \in S |-> e[x]]
<1>1. k \in Surjection(S, R)
  BY DEF Surjection
<1> HIDE DEF R, k
<1>2. IsFiniteSet(R)
  BY <1>1, FS_Surjection
<1> QED
  BY <1>2 DEF R

\* So are the elements of a sequence.
LEMMA FiniteRange ==
  ASSUME NEW X, NEW q \in Seq(X)
  PROVE  IsFiniteSet({q[i] : i \in DOMAIN q})
<1>1. IsFiniteSet(DOMAIN q)
  <2>1. DOMAIN q = 1 .. Len(q) /\ Len(q) \in Nat
    OBVIOUS
  <2> QED
    BY <2>1, FS_Interval
<1> QED
  BY <1>1, FiniteImage
\* A finite union of finite sets is finite.
LEMMA FiniteUnion ==
  ASSUME NEW S, IsFiniteSet(S), NEW e, DOMAIN e = S, \A x \in S : IsFiniteSet(e[x])
  PROVE  IsFiniteSet(UNION {e[x] : x \in S})
<1> DEFINE R == {e[x] : x \in S}
<1>1. IsFiniteSet(R)
  BY FiniteImage
<1>2. \A T \in R : IsFiniteSet(T)
  OBVIOUS
<1> HIDE DEF R
<1>3. IsFiniteSet(UNION R)
  BY <1>1, <1>2, FS_UNION
<1> QED
  BY <1>3 DEF R
\* A finite set that is not empty has an element of the greatest weight.
IsGreatest(x, w, S) == x \in S /\ \A y \in S : w[y] <= w[x]
\* A finite set that is not empty has an element of the greatest weight.
LEMMA FiniteGreatest ==
  ASSUME NEW S, IsFiniteSet(S), S # {}, NEW w \in [S -> Int]
  PROVE  \E x : IsGreatest(x, w, S)
<1> DEFINE P == {T \in SUBSET S : T # {} => \E x : IsGreatest(x, w, T)}
<1>1. {} \in P
  OBVIOUS
<1>2. ASSUME NEW T \in P, NEW z \in S \ T PROVE T \cup {z} \in P
  <2>1. CASE T = {}
    <3>1. IsGreatest(z, w, T \cup {z})
      BY <2>1 DEF IsGreatest
    <3> QED
      BY <3>1
  <2>2. CASE T # {}
    <3>1. PICK x : IsGreatest(x, w, T)
      BY <2>2
    <3>2. w[x] \in Int /\ w[z] \in Int /\ \A y \in T : w[y] \in Int
      BY <3>1 DEF IsGreatest
    <3>3. CASE w[z] <= w[x]
      <4>1. IsGreatest(x, w, T \cup {z})
        BY <3>1, <3>3 DEF IsGreatest
      <4> QED
        BY <4>1
    <3>4. CASE ~(w[z] <= w[x])
      <4>1. IsGreatest(z, w, T \cup {z})
        BY <3>1, <3>2, <3>4 DEF IsGreatest
      <4> QED
        BY <4>1
    <3> QED
      BY <3>3, <3>4
  <2> QED
    BY <2>1, <2>2
<1>3. P \in SUBSET SUBSET S
  OBVIOUS
<1>4. S \in P
  <2> HIDE DEF P
  <2> QED
    BY <1>1, <1>2, <1>3, FiniteSetInduction
<1> QED
  BY <1>4
=============================================================================
