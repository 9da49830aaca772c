--------------------------- MODULE FilePlanProofs ---------------------------
(***************************************************************************)
(* The files a reference plans, for every table, history of commits and    *)
(* filter.                                                                 *)
(*                                                                         *)
(* A filter and the predicate it is translated to are trees; what a        *)
(* recursive function on trees computes is proved by induction on their    *)
(* levels.  From it, for every row and every file: a translated predicate  *)
(* may be true wherever the filter is true, and, when it is exact, false   *)
(* wherever the filter is false; and the truth values that partition_      *)
(* predicate.rs reaches include the filter's own.  Then the listings (a    *)
(* replay shows the last add of each path), the invariant IInv (what ties  *)
(* a declaration to every later table: its columns' identities), and per   *)
(* format what a prune plans and what a scan reads through it.             *)
(***************************************************************************)
EXTENDS FilePlan, Induction

-----------------------------------------------------------------------------
(* Trees and functions on trees                                            *)

Grown(S) == S \cup [t : {"and", "or"}, args : Seq(S)] \cup [t : {"not"}, arg : S]

\* The recursive definition of the levels defines them: each is grown from the one before.
LEMMA LevelsAre ==
  ASSUME NEW S
  PROVE  Level(S, 0) = S /\ \A n \in Nat : Level(S, n + 1) = Grown(Level(S, n))
<1> DEFINE First == S
           Upto(n, g) == /\ DOMAIN g = 0 .. n
                         /\ g[0] = First
                         /\ \A i \in 0 .. n - 1 : g[i + 1] = Grown(g[i])
           Recursive(f) == f = [n \in Nat |-> IF n = 0 THEN First ELSE Grown(f[n - 1])]
           T == {n \in Nat : \E g : Upto(n, g)}
<1> HIDE DEF First
<1>1. 0 \in T
  <2>1. Upto(0, [i \in 0 .. 0 |-> First])
    OBVIOUS
  <2> QED
    BY <2>1
<1>2. ASSUME NEW n \in T PROVE n + 1 \in T
  <2>1. PICK g : Upto(n, g)
    OBVIOUS
  <2> DEFINE h == [i \in 0 .. n + 1 |-> IF i = n + 1 THEN Grown(g[n]) ELSE g[i]]
  <2>2. n \in Nat
    OBVIOUS
  <2>3. DOMAIN h = 0 .. n + 1 /\ h[0] = First
    BY <2>1, <2>2
  <2>4. ASSUME NEW i \in 0 .. n PROVE h[i + 1] = Grown(h[i])
    BY <2>1, <2>2
  <2>5. Upto(n + 1, h)
    <3>1. 0 .. (n + 1) - 1 = 0 .. n
      BY <2>2
    <3> HIDE DEF h
    <3> QED
      BY <2>3, <2>4, <3>1
  <2>6. \E k : Upto(n + 1, k)
    <3> HIDE DEF Upto, h
    <3> QED
      BY <2>5
  <2> QED
    BY <2>2, <2>6
<1>3. T = Nat
  <2>1. T \in SUBSET Nat
    OBVIOUS
  <2> HIDE DEF T
  <2> QED
    BY <1>1, <1>2, <2>1, NatSetInduction
<1>4. ASSUME NEW n \in Nat, NEW m \in Nat, m >= n, NEW g, NEW h, Upto(n, g), Upto(m, h)
      PROVE  g[n] = h[n]
  <2> DEFINE Same == {i \in 0 .. n : g[i] = h[i]}
  <2>1. 0 \in Same
    BY <1>4
  <2>2. ASSUME NEW i \in Same, i < n PROVE i + 1 \in Same
    <3>1. g[i + 1] = Grown(g[i]) /\ h[i + 1] = Grown(h[i])
      BY <1>4, <2>2
    <3> QED
      BY <2>2, <3>1
  <2>3. Same = 0 .. n
    <3>1. Same \in SUBSET (0 .. n)
      OBVIOUS
    <3> HIDE DEF Same
    <3> QED
      BY <2>1, <2>2, <3>1, BoundedInduction
  <2> QED
    BY <2>3
<1> DEFINE G(n) == CHOOSE g : Upto(n, g)
           L == [n \in Nat |-> G(n)[n]]
<1>5. ASSUME NEW n \in Nat PROVE Upto(n, G(n))
  <2>1. PICK k : Upto(n, k)
    BY <1>3
  <2>2. G(n) = CHOOSE g : Upto(n, g)
    OBVIOUS
  <2> HIDE DEF Upto, G
  <2> QED
    BY <2>1, <2>2
<1>6. L[0] = First
  BY <1>5
<1>7. ASSUME NEW n \in Nat PROVE L[n + 1] = Grown(L[n])
  <2>1. Upto(n, G(n)) /\ Upto(n + 1, G(n + 1))
    <3>1. n + 1 \in Nat
      OBVIOUS
    <3> HIDE DEF Upto, G
    <3> QED
      BY <1>5, <3>1
  <2>2. G(n)[n] = G(n + 1)[n]
    <3>1. n + 1 \in Nat /\ n + 1 >= n
      OBVIOUS
    <3> HIDE DEF Upto, G
    <3> QED
      BY <1>4, <2>1, <3>1
  <2>3. G(n + 1)[n + 1] = Grown(G(n + 1)[n])
    <3> HIDE DEF G
    <3> QED
      BY <2>1
  <2> HIDE DEF G
  <2> QED
    BY <2>2, <2>3
<1>8. Recursive(L)
  <2>1. ASSUME NEW n \in Nat PROVE L[n] = IF n = 0 THEN First ELSE Grown(L[n - 1])
    <3>1. CASE n = 0
      BY <1>6, <3>1
    <3>2. CASE n # 0
      <4>1. n - 1 \in Nat /\ (n - 1) + 1 = n
        BY <3>2
      <4>2. L[(n - 1) + 1] = Grown(L[n - 1])
        BY <1>7, <4>1
      <4> HIDE DEF L
      <4> QED
        BY <3>2, <4>1, <4>2
    <3> QED
      BY <3>1, <3>2
  <2>2. L = [n \in Nat |-> L[n]]
    OBVIOUS
  <2> HIDE DEF L
  <2> QED
    BY <2>1, <2>2
<1> DEFINE level == CHOOSE f : Recursive(f)
<1>9. Recursive(level)
  <2>1. level = CHOOSE f : Recursive(f)
    OBVIOUS
  <2> HIDE DEF Recursive, L, level
  <2> QED
    BY <1>8, <2>1
<1>10. \A n : Level(S, n) = level[n]
  BY DEF Level, Grown, First
<1> HIDE DEF level
<1>11. ASSUME NEW n \in Nat PROVE Level(S, n + 1) = Grown(Level(S, n))
  <2>1. n + 1 # 0 /\ (n + 1) - 1 = n /\ n + 1 \in Nat
    OBVIOUS
  <2> QED
    BY <1>9, <1>10, <2>1
<1>12. Level(S, 0) = First
  BY <1>9, <1>10
<1> QED
  BY <1>11, <1>12 DEF First

\* What stands right below a node.
Operands(g) ==
    IF g.t \in {"and", "or"} THEN {g.args[i] : i \in DOMAIN g.args}
    ELSE IF g.t = "not" THEN {g.arg} ELSE {}

\* Leaves are not connectives.
LeafSet(S) == \A g \in S : g.t \notin {"and", "or", "not"}

\* A leaf has no operands.
LEMMA LeafOperands ==
  ASSUME NEW S, LeafSet(S), NEW g \in Level(S, 0)
  PROVE  g.t \notin {"and", "or", "not"} /\ Operands(g) = {}
<1>1. g \in S
  BY LevelsAre
<1>2. g.t \notin {"and", "or", "not"}
  BY <1>1 DEF LeafSet
<1> QED
  BY <1>2 DEF Operands

\* The leaves of filters and of predicates are.
LEMMA LeafSets == LeafSet(Leaves) /\ LeafSet(Bounds)
BY DEF LeafSet, Leaves, Bounds

\* A tree of a level is of the level before, or a connective of trees of that level.
LEMMA LevelCases ==
  ASSUME NEW S, NEW n \in Nat, NEW g \in Level(S, n + 1)
  PROVE  \/ g \in Level(S, n)
         \/ g.t \in {"and", "or"} /\ g.args \in Seq(Level(S, n)) /\ g = [t |-> g.t, args |-> g.args]
         \/ g.t = "not" /\ g.arg \in Level(S, n) /\ g = [t |-> "not", arg |-> g.arg]
<1>1. g \in Grown(Level(S, n))
  BY LevelsAre
<1>2. CASE g \in [t : {"and", "or"}, args : Seq(Level(S, n))]
  BY <1>2
<1>3. CASE g \in [t : {"not"}, arg : Level(S, n)]
  BY <1>3
<1> QED
  BY <1>1, <1>2, <1>3 DEF Grown

\* The levels grow.
LEMMA LevelGrows ==
  ASSUME NEW S, NEW n \in Nat
  PROVE  /\ Level(S, n) \subseteq Level(S, n + 1)
         /\ \A t \in {"and", "or"}, q \in Seq(Level(S, n)) : [t |-> t, args |-> q] \in Level(S, n + 1)
         /\ \A g \in Level(S, n) : [t |-> "not", arg |-> g] \in Level(S, n + 1)
<1>1. Level(S, n + 1) = Grown(Level(S, n))
  BY LevelsAre
<1> QED
  BY <1>1 DEF Grown

\* The operands of a tree above the leaves are of the level before.
LEMMA OperandsBelow ==
  ASSUME NEW S, NEW n \in Nat, NEW g \in Level(S, n + 1)
  PROVE  g \in Level(S, n) \/ Operands(g) \subseteq Level(S, n)
<1>1. CASE g.t \in {"and", "or"} /\ g.args \in Seq(Level(S, n))
  BY <1>1 DEF Operands
<1>2. CASE g.t = "not" /\ g.arg \in Level(S, n)
  BY <1>2 DEF Operands
<1> QED
  BY <1>1, <1>2, LevelCases

\* A higher level holds the lower ones.
LEMMA LevelHolds ==
  ASSUME NEW S, NEW n \in Nat, NEW m \in Nat, m <= n
  PROVE  Level(S, m) \subseteq Level(S, n)
<1> DEFINE T == {k \in Nat : Level(S, m) \subseteq Level(S, m + k)}
<1>1. 0 \in T
  OBVIOUS
<1>2. ASSUME NEW k \in T PROVE k + 1 \in T
  <2>1. Level(S, m + k) \subseteq Level(S, (m + k) + 1)
    BY LevelGrows
  <2>2. (m + k) + 1 = m + (k + 1)
    OBVIOUS
  <2> QED
    BY <1>2, <2>1, <2>2
<1>3. T = Nat
  <2>1. T \in SUBSET Nat
    OBVIOUS
  <2> HIDE DEF T
  <2> QED
    BY <1>1, <1>2, <2>1, NatSetInduction
<1>4. n - m \in Nat /\ m + (n - m) = n
  OBVIOUS
<1>5. n - m \in T
  <2> HIDE DEF T
  <2> QED
    BY <1>3, <1>4
<1> QED
  BY <1>4, <1>5

\* Operands stay within a level; what they are is what the kind says.
LEMMA OperandsWithin ==
  ASSUME NEW S, LeafSet(S), NEW n \in Nat, NEW g \in Level(S, n)
  PROVE  /\ g.t \in {"and", "or"} => g.args \in Seq(Level(S, n))
         /\ g.t = "not" => g.arg \in Level(S, n)
         /\ Operands(g) \subseteq Level(S, n)
<1> DEFINE Fine(k, h) == /\ h.t \in {"and", "or"} => h.args \in Seq(Level(S, k))
                         /\ h.t = "not" => h.arg \in Level(S, k)
           T == {k \in Nat : \A h \in Level(S, k) : Fine(k, h)}
<1>1. 0 \in T
  <2>1. ASSUME NEW h \in Level(S, 0) PROVE Fine(0, h)
    BY LeafOperands
  <2> QED
    BY <2>1
<1>2. ASSUME NEW k \in T PROVE k + 1 \in T
  <2>1. Level(S, k) \subseteq Level(S, k + 1) /\ k \in Nat
    BY LevelGrows
  <2>2. ASSUME NEW h \in Level(S, k + 1) PROVE Fine(k, h)
    <3>1. CASE h \in Level(S, k)
      BY <1>2, <3>1
    <3>2. CASE h \notin Level(S, k)
      BY <3>2, <2>1, LevelCases
    <3> QED
      BY <3>1, <3>2
  <2>3. ASSUME NEW h \in Level(S, k + 1) PROVE Fine(k + 1, h)
    BY <2>1, <2>2, <2>3
  <2> QED
    BY <2>1, <2>3
<1>3. T = Nat
  <2>1. T \in SUBSET Nat
    OBVIOUS
  <2> HIDE DEF T
  <2> QED
    BY <1>1, <1>2, <2>1, NatSetInduction
<1>4. Fine(n, g)
  BY <1>3
<1> QED
  BY <1>4 DEF Operands

\* What holds of a tree whenever it holds of its operands holds of every tree.
LEMMA TreeInduction ==
  ASSUME NEW S, LeafSet(S), NEW M \in Nat, NEW T \in SUBSET Level(S, M),
         \A g \in Level(S, M) : Operands(g) \subseteq T => g \in T
  PROVE  T = Level(S, M)
<1> DEFINE U == {n \in 0 .. M : Level(S, n) \subseteq T}
<1>1. 0 \in U
  <2>1. Level(S, 0) \subseteq Level(S, M)
    BY LevelHolds
  <2> QED
    BY <2>1, LeafOperands
<1>2. ASSUME NEW n \in U, n < M PROVE n + 1 \in U
  <2>1. n + 1 \in 0 .. M /\ n \in Nat
    BY <1>2
  <2>2. Level(S, n + 1) \subseteq Level(S, M)
    BY <2>1, LevelHolds
  <2>3. ASSUME NEW g \in Level(S, n + 1) PROVE g \in T
    BY <1>2, <2>1, <2>2, <2>3, OperandsBelow
  <2> QED
    BY <2>1, <2>3
<1>3. U = 0 .. M
  <2>1. U \in SUBSET (0 .. M)
    OBVIOUS
  <2> HIDE DEF U
  <2> QED
    BY <1>1, <1>2, <2>1, BoundedInduction
<1> QED
  BY <1>3

\* A step looks at nothing but the values of a tree's operands.
Local(F, U, V) ==
    \A f, h \in [U -> V] : \A g \in U :
        (\A c \in Operands(g) : f[c] = h[c]) => F[f][g] = F[h][g]
TreeStep(F, U, V) == V # {} /\ F \in [[U -> V] -> [U -> V]] /\ Local(F, U, V)
Fixed(f, F, U, V) == f \in [U -> V] /\ f = F[f]
IsLevel(U) == \E S : LeafSet(S) /\ \E n \in Nat : U = Level(S, n)

\* Recursion on trees: a step that looks at nothing but the operands has a fixed point.
LEMMA TreeRecursion ==
  ASSUME NEW U, IsLevel(U), NEW V, NEW F, TreeStep(F, U, V)
  PROVE  \E f : Fixed(f, F, U, V)
<1> PICK S : LeafSet(S) /\ \E n \in Nat : U = Level(S, n)
  BY DEF IsLevel
<1> PICK M \in Nat : U = Level(S, M)
  OBVIOUS
<1> PICK v : v \in V
  BY DEF TreeStep
<1> F \in [[U -> V] -> [U -> V]] /\ Local(F, U, V)
  BY DEF TreeStep
<1> DEFINE A == [U -> V]
           a == [g \in U |-> v]
           E == [n \in Nat |-> F]
<1>1. PICK h : IteratesFrom(h, A, a, E)
  <2>1. a \in A /\ StepFunction(E, A)
    BY DEF StepFunction
  <2> HIDE DEF A, a, E
  <2> QED
    BY <2>1, Iterates
<1>2. \A n \in Nat : h[n] \in A /\ h[n + 1] = F[h[n]]
  BY <1>1 DEF IteratesFrom
<1> DEFINE Settled(n) == \A m \in Nat : m > n => \A g \in Level(S, n) : h[m + 1][g] = h[m][g]
           D == {n \in 0 .. M : Settled(n)}
<1>3. ASSUME NEW m \in Nat, m > 0, NEW g \in U,
             \A c \in Operands(g) : h[m][c] = h[m - 1][c]
      PROVE  h[m + 1][g] = h[m][g]
  <2>1. m - 1 \in Nat /\ (m - 1) + 1 = m
    BY <1>3
  <2>2. h[m] \in A /\ h[m - 1] \in A /\ h[m + 1] = F[h[m]] /\ h[m] = F[h[m - 1]]
    BY <1>2, <2>1
  <2> QED
    BY <1>3, <2>2 DEF Local
<1>4. 0 \in D
  <2>1. ASSUME NEW m \in Nat, m > 0, NEW g \in Level(S, 0) PROVE h[m + 1][g] = h[m][g]
    <3>1. g \in U /\ Operands(g) = {}
      <4>1. Level(S, 0) \subseteq Level(S, M)
        BY LevelHolds
      <4> QED
        BY <4>1, LeafOperands
    <3> QED
      BY <1>3, <2>1, <3>1
  <2>2. Settled(0) /\ 0 \in 0 .. M
    BY <2>1
  <2> HIDE DEF Settled
  <2> QED
    BY <2>2
<1>5. ASSUME NEW n \in D, n < M PROVE n + 1 \in D
  <2>1. n \in Nat /\ n + 1 \in 0 .. M /\ Settled(n)
    BY <1>5
  <2>2. Level(S, n + 1) \subseteq U
    BY <2>1, LevelHolds
  <2>3. ASSUME NEW m \in Nat, m > n + 1, NEW g \in Level(S, n + 1) PROVE h[m + 1][g] = h[m][g]
    <3>1. CASE g \in Level(S, n)
      BY <2>1, <2>3, <3>1
    <3>2. CASE Operands(g) \subseteq Level(S, n)
      <4>1. m - 1 \in Nat /\ m - 1 > n /\ (m - 1) + 1 = m /\ m > 0
        BY <2>1, <2>3
      <4>2. \A c \in Level(S, n) : h[(m - 1) + 1][c] = h[m - 1][c]
        BY <2>1, <4>1
      <4>3. \A c \in Operands(g) : h[m][c] = h[m - 1][c]
        BY <3>2, <4>1, <4>2
      <4> QED
        BY <1>3, <2>2, <4>1, <4>3
    <3> QED
      BY <2>1, <3>1, <3>2, OperandsBelow
  <2> QED
    BY <2>1, <2>3
<1>6. D = 0 .. M
  <2>1. D \in SUBSET (0 .. M)
    OBVIOUS
  <2> HIDE DEF D
  <2> QED
    BY <1>4, <1>5, <2>1, BoundedInduction
<1>7. \A g \in U : h[(M + 1) + 1][g] = h[M + 1][g]
  <2>1. M \in D /\ M + 1 \in Nat /\ M + 1 > M
    BY <1>6
  <2> QED
    BY <2>1
<1>8. h[M + 1] \in A /\ h[(M + 1) + 1] \in A /\ h[(M + 1) + 1] = F[h[M + 1]]
  <2>1. M + 1 \in Nat /\ (M + 1) + 1 \in Nat
    OBVIOUS
  <2> QED
    BY <1>2, <2>1
<1>9. h[M + 1] = F[h[M + 1]]
  BY <1>7, <1>8
<1> QED
  BY <1>8, <1>9 DEF Fixed

\* Two functions on trees that the same step makes of their own values are equal.
LEMMA TreeUnique ==
  ASSUME NEW U, IsLevel(U), NEW f, NEW h, DOMAIN f = U, DOMAIN h = U, f = [g \in U |-> f[g]],
         h = [g \in U |-> h[g]],
         \A g \in U : (\A c \in Operands(g) : f[c] = h[c]) => f[g] = h[g]
  PROVE  f = h
<1> PICK S : LeafSet(S) /\ \E n \in Nat : U = Level(S, n)
  BY DEF IsLevel
<1>1. PICK M \in Nat : U = Level(S, M)
  OBVIOUS
<1> DEFINE T == {g \in U : f[g] = h[g]}
<1>2. T \in SUBSET Level(S, M) /\ \A g \in Level(S, M) : Operands(g) \subseteq T => g \in T
  BY <1>1
<1>3. T = U
  <2> HIDE DEF T
  <2> QED
    BY <1>1, <1>2, TreeInduction
<1> QED
  BY <1>3

-----------------------------------------------------------------------------
(* What a filter means                                                     *)

Truths == {"T", "F", "N"}
TruthAt(f, g, row) ==
    CASE g.t = "and" -> Conj({f[g.args[i]] : i \in DOMAIN g.args})
      [] g.t = "or"  -> Disj({f[g.args[i]] : i \in DOMAIN g.args})
      [] g.t = "not" -> Negation(f[g.arg])
      [] OTHER       -> LeafTruth(g, row)

\* A connective has one of the three truth values, whatever it is applied to.
LEMMA TruthTypes ==
  /\ \A b \in BOOLEAN : Of(b) \in Truths
  /\ \A op, a, b : Compared(op, a, b) \in Truths
  /\ \A t : Negation(t) \in Truths
  /\ \A S : Conj(S) \in Truths /\ Disj(S) \in Truths
BY DEF Truths, Of, Compared, Negation, Conj, Disj

\* So has a node of a tree.
LEMMA TreeKinds ==
  ASSUME NEW S, LeafSet(S), NEW n \in Nat, NEW g \in Level(S, n), g.t \notin {"and", "or", "not"}
  PROVE  g \in S
<1> DEFINE T == {k \in Nat : \A h \in Level(S, k) : h.t \notin {"and", "or", "not"} => h \in Level(S, 0)}
<1>1. 0 \in T
  OBVIOUS
<1>2. ASSUME NEW k \in T PROVE k + 1 \in T
  <2>1. ASSUME NEW h \in Level(S, k + 1), h.t \notin {"and", "or", "not"} PROVE h \in Level(S, 0)
    BY <1>2, <2>1, LevelCases
  <2> QED
    BY <2>1
<1>3. T = Nat
  <2>1. T \in SUBSET Nat
    OBVIOUS
  <2> HIDE DEF T
  <2> QED
    BY <1>1, <1>2, <2>1, NatSetInduction
<1> QED
  BY <1>3, LevelsAre

\* A leaf has a truth value.
LEMMA LeafTyped ==
  ASSUME NEW g \in Leaves, NEW row
  PROVE  LeafTruth(g, row) \in Truths
<1>1. g.t \in {"cmp", "null", "notnull", "in", "between", "other"}
  BY DEF Leaves
<1> QED
  BY <1>1, TruthTypes DEF LeafTruth

\* The truth of a node depends on nothing but its operands'.
LEMMA TruthLocal ==
  ASSUME NEW row, NEW f, NEW h, NEW g, \A c \in Operands(g) : f[c] = h[c]
  PROVE  TruthAt(f, g, row) = TruthAt(h, g, row)
<1>1. CASE g.t \in {"and", "or"}
  <2>1. \A i \in DOMAIN g.args : f[g.args[i]] = h[g.args[i]]
    BY <1>1 DEF Operands
  <2>2. /\ {f[g.args[i]] : i \in DOMAIN g.args} = {h[g.args[i]] : i \in DOMAIN g.args}
        /\ [i \in DOMAIN g.args |-> f[g.args[i]]] = [i \in DOMAIN g.args |-> h[g.args[i]]]
        /\ (\A i \in DOMAIN g.args : f[g.args[i]]) = (\A i \in DOMAIN g.args : h[g.args[i]])
    BY <2>1
  <2> QED
    BY <1>1, <2>1, <2>2 DEF TruthAt
<1>2. CASE g.t = "not"
  BY <1>2 DEF TruthAt, Operands
<1>3. CASE g.t \notin {"and", "or", "not"}
  BY <1>3 DEF TruthAt
<1> QED
  BY <1>1, <1>2, <1>3

\* The recursive definition of a filter's meaning gives every tree a truth value, the one
\* that its kind makes of its operands'.
LEMMA TruthOf ==
  ASSUME NEW row
  PROVE  \E f \in [Trees -> Truths] :
            \A g \in Trees : Truth(g, row) = f[g] /\ f[g] = TruthAt(f, g, row)
<1> DEFINE F == [f \in [Trees -> Truths] |-> [g \in Trees |-> TruthAt(f, g, row)]]
           Recursive(f) == f = [g \in Trees |-> TruthAt(f, g, row)]
<1>1. IsLevel(Trees)
  BY DepthAssumption, LeafSets DEF Trees, IsLevel
<1>2. ASSUME NEW f \in [Trees -> Truths], NEW g \in Trees PROVE TruthAt(f, g, row) \in Truths
  <2>1. CASE g.t \in {"and", "or", "not"}
    BY <2>1, TruthTypes DEF TruthAt
  <2>2. CASE g.t \notin {"and", "or", "not"}
    BY <2>2, DepthAssumption, LeafSets, TreeKinds, LeafTyped DEF TruthAt, Trees
  <2> QED
    BY <2>1, <2>2
<1>3. Local(F, Trees, Truths)
  <2>1. \A f \in [Trees -> Truths], g \in Trees : F[f][g] = TruthAt(f, g, row)
    OBVIOUS
  <2> HIDE DEF F
  <2> QED
    BY <2>1, TruthLocal DEF Local
<1>4. PICK f : Fixed(f, F, Trees, Truths)
  <2>1. Truths # {}
    BY DEF Truths
  <2>2. F \in [[Trees -> Truths] -> [Trees -> Truths]]
    BY <1>2
  <2>3. TreeStep(F, Trees, Truths)
    <3> HIDE DEF F
    <3> QED
      BY <1>3, <2>1, <2>2 DEF TreeStep
  <2> HIDE DEF F
  <2> QED
    BY <1>1, <2>3, TreeRecursion
<1>5. f \in [Trees -> Truths] /\ Recursive(f)
  BY <1>4 DEF Fixed
<1> DEFINE t == CHOOSE u : Recursive(u)
<1>6. \A g : Truth(g, row) = t[g]
  BY DEF Truth, TruthAt
<1>7. Recursive(t)
  <2>1. t = CHOOSE u : Recursive(u)
    OBVIOUS
  <2> HIDE DEF Recursive, t
  <2> QED
    BY <1>5, <2>1
<1>8. t = f
  <2>1. \A g \in Trees : t[g] = TruthAt(t, g, row) /\ f[g] = TruthAt(f, g, row)
    <3> HIDE DEF t
    <3> QED
      BY <1>5, <1>7
  <2>2. \A g \in Trees : (\A c \in Operands(g) : t[c] = f[c]) => t[g] = f[g]
    <3> HIDE DEF t
    <3> QED
      BY <2>1, TruthLocal
  <2>3. DOMAIN t = Trees /\ DOMAIN f = Trees /\ t = [g \in Trees |-> t[g]] /\ f = [g \in Trees |-> f[g]]
    <3> HIDE DEF t
    <3> QED
      BY <1>5, <1>7
  <2> HIDE DEF t
  <2> QED
    BY <1>1, <2>2, <2>3, TreeUnique
<1> QED
  <2>1. \A g \in Trees : f[g] = TruthAt(f, g, row)
    BY <1>5
  <2> HIDE DEF t
  <2> QED
    BY <1>5, <1>6, <1>8, <2>1

-----------------------------------------------------------------------------
(* What the partition values of a file let a filter be                     *)

Reached == [true : BOOLEAN, false : BOOLEAN]
ReachAt(f, g, types, values) ==
    CASE g.t = "and" -> operands(g.args, and([i \in DOMAIN g.args |-> f[g.args[i]]]))
      [] g.t = "or"  -> operands(g.args, or([i \in DOMAIN g.args |-> f[g.args[i]]]))
      [] g.t = "not" -> negated(f[g.arg])
      [] OTHER       -> reachable_leaf(g, types, values)

\* Every reach is a pair of Booleans.
LEMMA ReachTypes ==
  /\ AnyTruth \in Reached
  /\ \A t : exactly(t) \in Reached
  /\ \A q : and(q) \in Reached /\ or(q) \in Reached
  /\ \A r \in Reached : negated(r) \in Reached
BY DEF Reached, AnyTruth, exactly, and, or, negated

\* So is that of a leaf.
LEMMA LeafReach ==
  ASSUME NEW g \in Leaves, NEW types, NEW values
  PROVE  reachable_leaf(g, types, values) \in Reached
<1>1. g.t \in {"cmp", "null", "notnull", "in", "between", "other"}
  BY DEF Leaves
<1>2. \A op, col, lit : compare(op, col, lit, types, values) \in Reached
  BY ReachTypes DEF compare
<1>3. \A col : is_null(col, values) \in Reached
  BY ReachTypes DEF is_null
<1>4. \A lits, col : \A r \in Reached : Unless(lits, col, types, r) \in Reached
  BY ReachTypes DEF Unless
<1> QED
  BY <1>1, <1>2, <1>3, <1>4, ReachTypes DEF reachable_leaf

\* What a node reaches depends on nothing but what its operands do.
LEMMA ReachLocal ==
  ASSUME NEW types, NEW values, NEW f, NEW h, NEW g, \A c \in Operands(g) : f[c] = h[c]
  PROVE  ReachAt(f, g, types, values) = ReachAt(h, g, types, values)
<1>1. CASE g.t \in {"and", "or"}
  <2>1. \A i \in DOMAIN g.args : f[g.args[i]] = h[g.args[i]]
    BY <1>1 DEF Operands
  <2>2. /\ {f[g.args[i]] : i \in DOMAIN g.args} = {h[g.args[i]] : i \in DOMAIN g.args}
        /\ [i \in DOMAIN g.args |-> f[g.args[i]]] = [i \in DOMAIN g.args |-> h[g.args[i]]]
        /\ (\A i \in DOMAIN g.args : f[g.args[i]]) = (\A i \in DOMAIN g.args : h[g.args[i]])
    BY <2>1
  <2> QED
    BY <1>1, <2>1, <2>2 DEF ReachAt
<1>2. CASE g.t = "not"
  BY <1>2 DEF ReachAt, Operands
<1>3. CASE g.t \notin {"and", "or", "not"}
  BY <1>3 DEF ReachAt
<1> QED
  BY <1>1, <1>2, <1>3

\* The recursive definition gives every tree a reach, the one that its kind makes of its
\* operands'.
LEMMA ReachOf ==
  ASSUME NEW types, NEW values
  PROVE  \E f \in [Trees -> Reached] :
            \A g \in Trees : reachable(g, types, values) = f[g] /\ f[g] = ReachAt(f, g, types, values)
<1> DEFINE F == [f \in [Trees -> Reached] |-> [g \in Trees |-> ReachAt(f, g, types, values)]]
           Recursive(f) == f = [g \in Trees |-> ReachAt(f, g, types, values)]
<1>1. IsLevel(Trees)
  BY DepthAssumption, LeafSets DEF Trees, IsLevel
<1>2. ASSUME NEW f \in [Trees -> Reached], NEW g \in Trees PROVE ReachAt(f, g, types, values) \in Reached
  <2>1. CASE g.t \in {"and", "or"}
    <3>1. \A q : operands(g.args, and(q)) \in Reached /\ operands(g.args, or(q)) \in Reached
      BY ReachTypes DEF operands
    <3> QED
      BY <2>1, <3>1 DEF ReachAt
  <2>2. CASE g.t = "not"
    <3>1. g.arg \in Trees
      BY <2>2, DepthAssumption, LeafSets, OperandsWithin DEF Trees, Predicates
    <3> QED
      BY <2>2, <3>1, ReachTypes DEF ReachAt
  <2>3. CASE g.t \notin {"and", "or", "not"}
    BY <2>3, DepthAssumption, LeafSets, TreeKinds, LeafReach DEF ReachAt, Trees
  <2> QED
    BY <2>1, <2>2, <2>3
<1>3. Local(F, Trees, Reached)
  <2>1. \A f \in [Trees -> Reached], g \in Trees : F[f][g] = ReachAt(f, g, types, values)
    OBVIOUS
  <2> HIDE DEF F
  <2> QED
    BY <2>1, ReachLocal DEF Local
<1>4. PICK f : Fixed(f, F, Trees, Reached)
  <2>1. Reached # {}
    <3>1. AnyTruth \in Reached
      BY DEF AnyTruth, Reached
    <3> QED
      BY <3>1
  <2>2. F \in [[Trees -> Reached] -> [Trees -> Reached]]
    BY <1>2
  <2>3. TreeStep(F, Trees, Reached)
    <3> HIDE DEF F
    <3> QED
      BY <1>3, <2>1, <2>2 DEF TreeStep
  <2> HIDE DEF F
  <2> QED
    BY <1>1, <2>3, TreeRecursion
<1>5. f \in [Trees -> Reached] /\ Recursive(f)
  BY <1>4 DEF Fixed
<1> DEFINE t == CHOOSE u : Recursive(u)
<1>6. \A g : reachable(g, types, values) = t[g]
  BY DEF reachable, ReachAt
<1>7. Recursive(t)
  <2>1. t = CHOOSE u : Recursive(u)
    OBVIOUS
  <2> HIDE DEF Recursive, t
  <2> QED
    BY <1>5, <2>1
<1>8. t = f
  <2>1. \A g \in Trees : t[g] = ReachAt(t, g, types, values) /\ f[g] = ReachAt(f, g, types, values)
    <3> HIDE DEF t
    <3> QED
      BY <1>5, <1>7
  <2>2. \A g \in Trees : (\A c \in Operands(g) : t[c] = f[c]) => t[g] = f[g]
    <3> HIDE DEF t
    <3> QED
      BY <2>1, ReachLocal
  <2>3. DOMAIN t = Trees /\ DOMAIN f = Trees /\ t = [g \in Trees |-> t[g]] /\ f = [g \in Trees |-> f[g]]
    <3> HIDE DEF t
    <3> QED
      BY <1>5, <1>7
  <2> HIDE DEF t
  <2> QED
    BY <1>1, <2>2, <2>3, TreeUnique
<1> QED
  <2>1. \A g \in Trees : f[g] = ReachAt(f, g, types, values)
    BY <1>5
  <2> HIDE DEF t
  <2> QED
    BY <1>5, <1>6, <1>8, <2>1

-----------------------------------------------------------------------------
(* What the recorded bounds of a file let a predicate be                   *)

Mights(stats) ==
    LET flags == BOOLEAN \cup {stats[q.id][1].nulls : q \in Predicates}
    IN  [true : flags, false : flags]
MightAt(f, g, stats) ==
    CASE g.t = "and" -> and([i \in DOMAIN g.args |-> f[g.args[i]]])
      [] g.t = "or"  -> or([i \in DOMAIN g.args |-> f[g.args[i]]])
      [] g.t = "not" -> negated(f[g.arg])
      [] OTHER       -> BoundReaches(g, stats)

\* What bounds let a node be depends on nothing but what they let its operands be.
LEMMA MightLocal ==
  ASSUME NEW stats, NEW f, NEW h, NEW g, \A c \in Operands(g) : f[c] = h[c]
  PROVE  MightAt(f, g, stats) = MightAt(h, g, stats)
<1>1. CASE g.t \in {"and", "or"}
  <2>1. \A i \in DOMAIN g.args : f[g.args[i]] = h[g.args[i]]
    BY <1>1 DEF Operands
  <2>2. /\ {f[g.args[i]] : i \in DOMAIN g.args} = {h[g.args[i]] : i \in DOMAIN g.args}
        /\ [i \in DOMAIN g.args |-> f[g.args[i]]] = [i \in DOMAIN g.args |-> h[g.args[i]]]
        /\ (\A i \in DOMAIN g.args : f[g.args[i]]) = (\A i \in DOMAIN g.args : h[g.args[i]])
    BY <2>1
  <2> QED
    BY <1>1, <2>1, <2>2 DEF MightAt
<1>2. CASE g.t = "not"
  BY <1>2 DEF MightAt, Operands
<1>3. CASE g.t \notin {"and", "or", "not"}
  BY <1>3 DEF MightAt
<1> QED
  BY <1>1, <1>2, <1>3

\* The recursive definition gives every predicate what the bounds let it be, the one that
\* its kind makes of its operands'.
LEMMA MightOf ==
  ASSUME NEW stats
  PROVE  \E f \in [Predicates -> Mights(stats)] :
            \A g \in Predicates : MightHold(g, stats) = f[g].true /\ f[g] = MightAt(f, g, stats)
<1> DEFINE F == [f \in [Predicates -> Mights(stats)] |-> [g \in Predicates |-> MightAt(f, g, stats)]]
           Recursive(f) == f = [g \in Predicates |-> MightAt(f, g, stats)]
<1>1. IsLevel(Predicates)
  BY DepthAssumption, LeafSets DEF Predicates, IsLevel
<1>2. ASSUME NEW f \in [Predicates -> Mights(stats)], NEW g \in Predicates PROVE MightAt(f, g, stats) \in Mights(stats)
  <2>1. CASE g.t \in {"and", "or"}
    BY <2>1 DEF MightAt, Mights, and, or
  <2>2. CASE g.t = "not"
    <3>1. g.arg \in Predicates
      BY <2>2, DepthAssumption, LeafSets, OperandsWithin DEF Trees, Predicates
    <3>2. f[g.arg] \in Mights(stats)
      BY <3>1
    <3> QED
      BY <2>2, <3>2 DEF MightAt, Mights, negated
  <2>3. CASE g.t \notin {"and", "or", "not"}
    BY <2>3 DEF MightAt, Mights, BoundReaches, AnyTruth
  <2> QED
    BY <2>1, <2>2, <2>3
<1>3. Local(F, Predicates, Mights(stats))
  <2>1. \A f \in [Predicates -> Mights(stats)], g \in Predicates : F[f][g] = MightAt(f, g, stats)
    OBVIOUS
  <2> HIDE DEF F
  <2> QED
    BY <2>1, MightLocal DEF Local
<1>4. PICK f : Fixed(f, F, Predicates, Mights(stats))
  <2>1. Mights(stats) # {}
    <3>1. AnyTruth \in Mights(stats)
      BY DEF AnyTruth, Mights
    <3> QED
      BY <3>1
  <2>2. F \in [[Predicates -> Mights(stats)] -> [Predicates -> Mights(stats)]]
    BY <1>2
  <2>3. TreeStep(F, Predicates, Mights(stats))
    <3> HIDE DEF F
    <3> QED
      BY <1>3, <2>1, <2>2 DEF TreeStep
  <2> HIDE DEF F
  <2> QED
    BY <1>1, <2>3, TreeRecursion
<1>5. f \in [Predicates -> Mights(stats)] /\ Recursive(f)
  BY <1>4 DEF Fixed
<1> DEFINE t == CHOOSE u : Recursive(u)
<1>6. \A g : MightHold(g, stats) = t[g].true
  BY DEF MightHold, MightAt
<1>7. Recursive(t)
  <2>1. t = CHOOSE u : Recursive(u)
    OBVIOUS
  <2> HIDE DEF Recursive, t
  <2> QED
    BY <1>5, <2>1
<1>8. t = f
  <2>1. \A g \in Predicates : t[g] = MightAt(t, g, stats) /\ f[g] = MightAt(f, g, stats)
    <3> HIDE DEF t
    <3> QED
      BY <1>5, <1>7
  <2>2. \A g \in Predicates : (\A c \in Operands(g) : t[c] = f[c]) => t[g] = f[g]
    <3> HIDE DEF t
    <3> QED
      BY <2>1, MightLocal
  <2>3. DOMAIN t = Predicates /\ DOMAIN f = Predicates /\ t = [g \in Predicates |-> t[g]] /\ f = [g \in Predicates |-> f[g]]
    <3> HIDE DEF t
    <3> QED
      BY <1>5, <1>7
  <2> HIDE DEF t
  <2> QED
    BY <1>1, <2>2, <2>3, TreeUnique
<1> QED
  <2>1. \A g \in Predicates : f[g] = MightAt(f, g, stats)
    BY <1>5
  <2> HIDE DEF t
  <2> QED
    BY <1>5, <1>6, <1>8, <2>1

-----------------------------------------------------------------------------
(* Numbers that a float column holds                                       *)

FloatsAt(f, g, columns) ==
    CASE g.t \in {"and", "or"} -> \A i \in DOMAIN g.args : f[g.args[i]]
      [] g.t = "not"           -> f[g.arg]
      [] OTHER -> g.col \in DOMAIN columns /\ columns[g.col].type = "float" =>
                     \A l \in LiteralsOf(g) : l.v % 2 = 0

\* Whether the numbers of a node are exact depends on nothing but its operands.
LEMMA FloatsLocal ==
  ASSUME NEW columns, NEW f, NEW h, NEW g, \A c \in Operands(g) : f[c] = h[c]
  PROVE  FloatsAt(f, g, columns) = FloatsAt(h, g, columns)
<1>1. CASE g.t \in {"and", "or"}
  <2>1. \A i \in DOMAIN g.args : f[g.args[i]] = h[g.args[i]]
    BY <1>1 DEF Operands
  <2>2. /\ {f[g.args[i]] : i \in DOMAIN g.args} = {h[g.args[i]] : i \in DOMAIN g.args}
        /\ [i \in DOMAIN g.args |-> f[g.args[i]]] = [i \in DOMAIN g.args |-> h[g.args[i]]]
        /\ (\A i \in DOMAIN g.args : f[g.args[i]]) = (\A i \in DOMAIN g.args : h[g.args[i]])
    BY <2>1
  <2> QED
    BY <1>1, <2>1, <2>2 DEF FloatsAt
<1>2. CASE g.t = "not"
  BY <1>2 DEF FloatsAt, Operands
<1>3. CASE g.t \notin {"and", "or", "not"}
  BY <1>3 DEF FloatsAt
<1> QED
  BY <1>1, <1>2, <1>3

\* The recursive definition says of every tree whether all its numbers are exact.
LEMMA FloatsOf ==
  ASSUME NEW columns
  PROVE  \E f \in [Trees -> BOOLEAN] :
            \A g \in Trees : FloatsExact(g, columns) = f[g] /\ f[g] = FloatsAt(f, g, columns)
<1> DEFINE F == [f \in [Trees -> BOOLEAN] |-> [g \in Trees |-> FloatsAt(f, g, columns)]]
           Recursive(f) == f = [g \in Trees |-> FloatsAt(f, g, columns)]
<1>1. IsLevel(Trees)
  BY DepthAssumption, LeafSets DEF Trees, IsLevel
<1>2. ASSUME NEW f \in [Trees -> BOOLEAN], NEW g \in Trees PROVE FloatsAt(f, g, columns) \in BOOLEAN
  <2>1. CASE g.t \in {"and", "or"}
    BY <2>1 DEF FloatsAt
  <2>2. CASE g.t = "not"
    <3>1. g.arg \in Trees
      BY <2>2, DepthAssumption, LeafSets, OperandsWithin DEF Trees, Predicates
    <3> QED
      BY <2>2, <3>1 DEF FloatsAt
  <2>3. CASE g.t \notin {"and", "or", "not"}
    BY <2>3 DEF FloatsAt
  <2> QED
    BY <2>1, <2>2, <2>3
<1>3. Local(F, Trees, BOOLEAN)
  <2>1. \A f \in [Trees -> BOOLEAN], g \in Trees : F[f][g] = FloatsAt(f, g, columns)
    OBVIOUS
  <2> HIDE DEF F
  <2> QED
    BY <2>1, FloatsLocal DEF Local
<1>4. PICK f : Fixed(f, F, Trees, BOOLEAN)
  <2>1. BOOLEAN # {}
    OBVIOUS
  <2>2. F \in [[Trees -> BOOLEAN] -> [Trees -> BOOLEAN]]
    BY <1>2
  <2>3. TreeStep(F, Trees, BOOLEAN)
    <3> HIDE DEF F
    <3> QED
      BY <1>3, <2>1, <2>2 DEF TreeStep
  <2> HIDE DEF F
  <2> QED
    BY <1>1, <2>3, TreeRecursion
<1>5. f \in [Trees -> BOOLEAN] /\ Recursive(f)
  BY <1>4 DEF Fixed
<1> DEFINE t == CHOOSE u : Recursive(u)
<1>6. \A g : FloatsExact(g, columns) = t[g]
  BY DEF FloatsExact, FloatsAt
<1>7. Recursive(t)
  <2>1. t = CHOOSE u : Recursive(u)
    OBVIOUS
  <2> HIDE DEF Recursive, t
  <2> QED
    BY <1>5, <2>1
<1>8. t = f
  <2>1. \A g \in Trees : t[g] = FloatsAt(t, g, columns) /\ f[g] = FloatsAt(f, g, columns)
    <3> HIDE DEF t
    <3> QED
      BY <1>5, <1>7
  <2>2. \A g \in Trees : (\A c \in Operands(g) : t[c] = f[c]) => t[g] = f[g]
    <3> HIDE DEF t
    <3> QED
      BY <2>1, FloatsLocal
  <2>3. DOMAIN t = Trees /\ DOMAIN f = Trees /\ t = [g \in Trees |-> t[g]] /\ f = [g \in Trees |-> f[g]]
    <3> HIDE DEF t
    <3> QED
      BY <1>5, <1>7
  <2> HIDE DEF t
  <2> QED
    BY <1>1, <2>2, <2>3, TreeUnique
<1> QED
  <2>1. \A g \in Trees : f[g] = FloatsAt(f, g, columns)
    BY <1>5
  <2> HIDE DEF t
  <2> QED
    BY <1>5, <1>6, <1>8, <2>1

-----------------------------------------------------------------------------
(* The translation of a filter                                             *)

Options(S) == {None} \cup {Some(r) : r \in [predicate : S, exact : BOOLEAN]}
ColumnsOK(columns) == \A n \in DOMAIN columns : columns[n].id \in Int

\* An option is none, or a predicate and whether it is exact.
LEMMA OptionCases ==
  ASSUME NEW S, NEW o \in Options(S), o # None
  PROVE  o[1].predicate \in S /\ o[1].exact \in BOOLEAN
BY DEF Options, Some

\* More predicates, more options.
LEMMA OptionsGrow ==
  ASSUME NEW S, NEW R, S \subseteq R
  PROVE  Options(S) \subseteq Options(R)
<1>1. ASSUME NEW r \in [predicate : S, exact : BOOLEAN] PROVE r \in [predicate : R, exact : BOOLEAN]
  OBVIOUS
<1> QED
  BY <1>1 DEF Options

\* Some predicate is an option.
LEMMA SomeOption ==
  ASSUME NEW S, NEW p \in S, NEW e \in BOOLEAN
  PROVE  Some([predicate |-> p, exact |-> e]) \in Options(S)
BY DEF Options

\* What the two folds keep: the children that are translated.
LEMMA KeptChildren ==
  ASSUME NEW S, NEW q \in Seq(Options(S))
  PROVE  LET kept == Selected(q, {c \in ToSet(q) : IsSome(c)})
         IN  /\ kept \in Seq(Options(S))
             /\ \A i \in DOMAIN kept : kept[i] # None /\ \E k \in DOMAIN q : q[k] = kept[i]
             /\ \A k \in DOMAIN q : q[k] # None => \E i \in DOMAIN kept : kept[i] = q[k]
<1> DEFINE T == {c \in ToSet(q) : IsSome(c)}
           kept == Selected(q, T)
<1>1. \A k \in DOMAIN q : q[k] \in T <=> q[k] # None
  BY DEF ToSet, IsSome
<1>2. \A c \in T : c # None
  BY DEF IsSome
<1> HIDE DEF T
<1>3. /\ kept \in Seq(Options(S))
      /\ \A i \in DOMAIN kept : kept[i] \in T /\ \E k \in DOMAIN q : q[k] = kept[i]
      /\ \A k \in DOMAIN q : q[k] \in T => \E i \in DOMAIN kept : kept[i] = q[k]
  BY SelectedInOrder
<1> QED
  BY <1>1, <1>2, <1>3 DEF T

\* A fold makes one node of its children.
LEMMA FoldTypes ==
  ASSUME NEW n \in Nat, NEW q \in Seq(Options(Level(Bounds, n)))
  PROVE  fold_and(q) \in Options(Level(Bounds, n + 1)) /\ fold_or(q) \in Options(Level(Bounds, n + 1))
<1> DEFINE L == Level(Bounds, n)
           kept == Selected(q, {c \in ToSet(q) : IsSome(c)})
<1>1. fold_and(q) \in Options(Level(Bounds, n + 1))
  <2>1. kept \in Seq(Options(L)) /\ \A i \in DOMAIN kept : kept[i] # None
    BY KeptChildren
  <2> DEFINE args == [i \in DOMAIN kept |-> kept[i][1].predicate]
             e == \A i \in DOMAIN q : IsSome(q[i]) /\ q[i][1].exact
  <2>2. fold_and(q) = None \/ fold_and(q) = Some([predicate |-> [t |-> "and", args |-> args], exact |-> e])
    BY DEF fold_and
  <2> HIDE DEF kept
  <2>3. \A i \in DOMAIN kept : kept[i][1].predicate \in L
    BY <2>1, OptionCases
  <2>4. args \in Seq(L)
    BY <2>1, <2>3
  <2>5. [t |-> "and", args |-> args] \in Level(Bounds, n + 1)
    <3> HIDE DEF args
    <3> QED
      BY <2>4, LevelGrows
  <2>6. e \in BOOLEAN
    OBVIOUS
  <2> HIDE DEF args, e
  <2> QED
    BY <2>2, <2>5, <2>6, SomeOption DEF Options
<1>2. fold_or(q) \in Options(Level(Bounds, n + 1))
  <2> DEFINE args == [i \in DOMAIN q |-> q[i][1].predicate]
             e == \A i \in DOMAIN q : q[i][1].exact
  <2>1. CASE \E i \in DOMAIN q : q[i] = None
    BY <2>1 DEF fold_or, Options
  <2>2. CASE \A i \in DOMAIN q : q[i] # None
    <3>1. fold_or(q) = None \/ fold_or(q) = Some([predicate |-> [t |-> "or", args |-> args], exact |-> e])
      BY DEF fold_or
    <3>2. \A i \in DOMAIN q : q[i][1].predicate \in L
      BY <2>2, OptionCases
    <3>3. args \in Seq(L)
      BY <3>2
    <3>4. [t |-> "or", args |-> args] \in Level(Bounds, n + 1)
      <4> HIDE DEF args
      <4> QED
        BY <3>3, LevelGrows
    <3>5. e \in BOOLEAN
      OBVIOUS
    <3> HIDE DEF args, e
    <3> QED
      BY <3>1, <3>4, <3>5, SomeOption DEF Options
  <2> QED
    BY <2>1, <2>2
<1> QED
  BY <1>1, <1>2

\* A negation makes one node of an exact translation.
LEMMA NotTypes ==
  ASSUME NEW n \in Nat, NEW o \in Options(Level(Bounds, n))
  PROVE  translate_not(o) \in Options(Level(Bounds, n + 1))
<1>1. CASE o = None \/ ~o[1].exact
  BY <1>1 DEF translate_not, Options
<1>2. CASE o # None /\ o[1].exact
  <2>1. [t |-> "not", arg |-> o[1].predicate] \in Level(Bounds, n + 1)
    BY <1>2, OptionCases, LevelGrows
  <2>2. Some([predicate |-> [t |-> "not", arg |-> o[1].predicate], exact |-> TRUE]) \in Options(Level(Bounds, n + 1))
    BY <2>1, SomeOption
  <2> QED
    BY <1>2, <2>2 DEF translate_not, Exact
<1> QED
  BY <1>1, <1>2

\* A literal converts to a number or to none.
LEMMA ConvertTyped ==
  ASSUME NEW lit \in Literals, NEW type, NEW format
  PROVE  Convert(lit, type, format) \in Int
<1>1. lit.v \in Int
  BY DEF Literals
<1>2. Exactly(lit.v) \in Int
  BY <1>1 DEF Exactly, NoLiteral
<1>3. (lit.v \div 2) * 2 \in Int /\ lit.v + 1 \in Int
  BY <1>1
<1> QED
  BY <1>1, <1>2, <1>3 DEF Convert, literal_to_datum, literal_to_scalar, NoLiteral

\* A comparison is translated to a bound.
LEMMA BoundTyped ==
  ASSUME NEW op \in Operators, NEW lit \in Literals, NEW columns, ColumnsOK(columns),
         NEW col \in DOMAIN columns, NEW format
  PROVE  Bound(op, col, lit, columns, format) \in Options(Bounds)
<1> DEFINE v == Convert(lit, columns[col].type, format)
<1>1. v \in Int
  BY ConvertTyped
<1>2. columns[col].id \in Int
  BY DEF ColumnsOK
<1>3. [t |-> "cmp", op |-> op, id |-> columns[col].id, v |-> v] \in Bounds
  <2> HIDE DEF v
  <2> QED
    BY <1>1, <1>2 DEF Bounds
<1>4. CASE v = NoLiteral
  BY <1>4 DEF Bound, Options
<1>5. CASE v # NoLiteral
  <2>1. Some([predicate |-> [t |-> "cmp", op |-> op, id |-> columns[col].id, v |-> v], exact |-> TRUE])
           \in Options(Bounds)
    <3> HIDE DEF v
    <3> QED
      BY <1>3, SomeOption
  <2> QED
    BY <1>5, <2>1 DEF Bound, Exact
<1> QED
  BY <1>4, <1>5

\* An operator with its operands swapped is an operator.
LEMMA SwappedTyped ==
  ASSUME NEW f \in Leaves, f.t = "cmp"
  PROVE  f.op \in Operators /\ comparison_operands(f) \in Operators
<1>1. f.op \in Operators
  BY DEF Leaves
<1> QED
  BY <1>1 DEF comparison_operands, with_operands_swapped, Operators

\* What the leaves hold.
LEMMA LeafParts ==
  ASSUME NEW f \in Leaves
  PROVE  /\ f.t \in {"cmp", "null", "notnull", "in", "between", "other"}
         /\ f.t = "cmp" => f.lit \in Literals
         /\ f.t = "in" => f.lits \in Seq(Literals)
         /\ f.t = "between" => f.low \in Literals /\ f.high \in Literals
BY DEF Leaves

\* The levels of predicates, from below.
LEMMA BoundLevels ==
  /\ Level(Bounds, 0) = Bounds
  /\ Options(Level(Bounds, 0)) \subseteq Options(Level(Bounds, 1))
<1>1. Level(Bounds, 0) = Bounds
  BY LevelsAre
<1>2. Level(Bounds, 0) \subseteq Level(Bounds, 0 + 1)
  BY LevelGrows
<1> QED
  BY <1>1, <1>2, OptionsGrow

\* A leaf is translated to a bound or to a connective of bounds.
LEMMA LeafTranslated ==
  ASSUME NEW g \in Leaves, NEW columns, ColumnsOK(columns), NEW format
  PROVE  translate_leaf(g, columns, format) \in Options(Level(Bounds, 1))
<1> DEFINE L == Options(Level(Bounds, 1))
<1>1. None \in L
  BY DEF Options
<1>2. CASE g.t = "other" \/ g.col \notin DOMAIN columns
  BY <1>1, <1>2 DEF translate_leaf
<1>3. CASE g.t # "other" /\ g.col \in DOMAIN columns
  <2>1. columns[g.col].id \in Int
    BY <1>3 DEF ColumnsOK
  <2>2. [t |-> "null", id |-> columns[g.col].id] \in Level(Bounds, 0)
    BY <2>1, BoundLevels DEF Bounds
  <2>3. CASE g.t = "cmp"
    <3>1. Bound(comparison_operands(g), g.col, g.lit, columns, format) \in Options(Bounds)
      BY <1>3, <2>3, BoundTyped, SwappedTyped, LeafParts
    <3>2. translate_comparison(g, columns, format) \in L
      BY <1>1, <3>1, BoundLevels DEF translate_comparison
    <3> QED
      BY <1>3, <2>3, <3>2 DEF translate_leaf
  <2>4. CASE g.t = "in"
    <3> DEFINE q == [i \in DOMAIN g.lits |-> Bound("eq", g.col, g.lits[i], columns, format)]
    <3>1. g.lits \in Seq(Literals) /\ "eq" \in Operators
      BY <2>4, LeafParts DEF Operators
    <3>2. \A i \in DOMAIN g.lits : Bound("eq", g.col, g.lits[i], columns, format) \in Options(Bounds)
      BY <1>3, <3>1, BoundTyped
    <3>3. q \in Seq(Options(Level(Bounds, 0)))
      BY <3>1, <3>2, BoundLevels
    <3>4. fold_or(q) \in Options(Level(Bounds, 0 + 1))
      <4> HIDE DEF q
      <4> QED
        BY <3>3, FoldTypes
    <3> QED
      BY <1>3, <2>4, <3>4 DEF translate_leaf, translate_in
  <2>5. CASE g.t = "between"
    <3> DEFINE q == <<Bound("ge", g.col, g.low, columns, format), Bound("le", g.col, g.high, columns, format)>>
    <3>1. g.low \in Literals /\ g.high \in Literals /\ "ge" \in Operators /\ "le" \in Operators
      BY <2>5, LeafParts DEF Operators
    <3>2. /\ Bound("ge", g.col, g.low, columns, format) \in Options(Bounds)
          /\ Bound("le", g.col, g.high, columns, format) \in Options(Bounds)
      BY <1>3, <3>1, BoundTyped
    <3>3. q \in Seq(Options(Level(Bounds, 0)))
      BY <3>2, BoundLevels
    <3>4. fold_and(q) \in Options(Level(Bounds, 0 + 1))
      <4> HIDE DEF q
      <4> QED
        BY <3>3, FoldTypes
    <3> QED
      BY <1>3, <2>5, <3>4 DEF translate_leaf, translate_between
  <2>6. CASE g.t = "null"
    <3>1. Exact([t |-> "null", id |-> columns[g.col].id]) \in Options(Level(Bounds, 0))
      BY <2>2, SomeOption DEF Exact
    <3> QED
      BY <1>3, <2>6, <3>1, BoundLevels DEF translate_leaf
  <2>7. CASE g.t = "notnull"
    <3>1. [t |-> "not", arg |-> [t |-> "null", id |-> columns[g.col].id]] \in Level(Bounds, 1)
      <4>1. [t |-> "not", arg |-> [t |-> "null", id |-> columns[g.col].id]] \in Level(Bounds, 0 + 1)
        BY <2>2, LevelGrows
      <4>2. 0 + 1 = 1
        OBVIOUS
      <4> QED
        BY <4>1, <4>2
    <3>2. Exact([t |-> "not", arg |-> [t |-> "null", id |-> columns[g.col].id]]) \in L
      BY <3>1, SomeOption DEF Exact
    <3> QED
      BY <1>3, <2>7, <3>2 DEF translate_leaf
  <2> QED
    BY <1>3, <2>3, <2>4, <2>5, <2>6, <2>7, LeafParts
<1> QED
  BY <1>2, <1>3

TranslateAt(f, g, columns, format) ==
    CASE g.t = "and" -> fold_and([i \in DOMAIN g.args |-> f[g.args[i]]])
      [] g.t = "or"  -> fold_or([i \in DOMAIN g.args |-> f[g.args[i]]])
      [] g.t = "not" -> translate_not(f[g.arg])
      [] OTHER       -> translate_leaf(g, columns, format)

\* The translation of a node depends on nothing but its operands'.
LEMMA TranslateLocal ==
  ASSUME NEW columns, NEW format, NEW f, NEW h, NEW g, \A c \in Operands(g) : f[c] = h[c]
  PROVE  TranslateAt(f, g, columns, format) = TranslateAt(h, g, columns, format)
<1>1. CASE g.t \in {"and", "or"}
  <2>1. \A i \in DOMAIN g.args : f[g.args[i]] = h[g.args[i]]
    BY <1>1 DEF Operands
  <2>2. [i \in DOMAIN g.args |-> f[g.args[i]]] = [i \in DOMAIN g.args |-> h[g.args[i]]]
    BY <2>1
  <2> QED
    BY <1>1, <2>1, <2>2 DEF TranslateAt
<1>2. CASE g.t = "not"
  BY <1>2 DEF TranslateAt, Operands
<1>3. CASE g.t \notin {"and", "or", "not"}
  BY <1>3 DEF TranslateAt
<1> QED
  BY <1>1, <1>2, <1>3

\* The recursive definition of the translation gives every filter none or a predicate, the one
\* that its kind makes of its operands'; a predicate is at most one level deeper than its filter.
LEMMA TranslateOf ==
  ASSUME NEW columns, ColumnsOK(columns), NEW format
  PROVE  \E f \in [Trees -> Options(Predicates)] :
            \A g \in Trees : /\ translate(g, columns, format) = f[g]
                             /\ f[g] = TranslateAt(f, g, columns, format)
<1> DEFINE V == Options(Predicates)
           At(f, g) == TranslateAt(f, g, columns, format)
           F == [f \in [Trees -> V] |-> [g \in Trees |-> IF At(f, g) \in V THEN At(f, g) ELSE None]]
           Recursive(f) == f = [g \in Trees |-> TranslateAt(f, g, columns, format)]
<1>1. IsLevel(Trees)
  BY DepthAssumption, LeafSets DEF Trees, IsLevel
<1>2. None \in V
  BY DEF Options
<1>3. Local(F, Trees, V)
  <2>1. \A f \in [Trees -> V], g \in Trees : F[f][g] = IF At(f, g) \in V THEN At(f, g) ELSE None
    <3> HIDE DEF At, V
    <3> QED
      OBVIOUS
  <2>2. ASSUME NEW f \in [Trees -> V], NEW h \in [Trees -> V], NEW g \in Trees,
               \A c \in Operands(g) : f[c] = h[c]
        PROVE  F[f][g] = F[h][g]
    <3>1. At(f, g) = At(h, g)
      BY <2>2, TranslateLocal
    <3> HIDE DEF F, V, At
    <3> QED
      BY <2>1, <3>1
  <2> HIDE DEF F, V
  <2> QED
    BY <2>2 DEF Local
<1>4. PICK f : Fixed(f, F, Trees, V)
  <2>1. F \in [[Trees -> V] -> [Trees -> V]]
    <3> HIDE DEF V, At
    <3> QED
      BY <1>2
  <2>2. TreeStep(F, Trees, V)
    <3> HIDE DEF F, V
    <3> QED
      BY <1>2, <1>3, <2>1 DEF TreeStep
  <2> HIDE DEF F, V
  <2> QED
    BY <1>1, <2>2, TreeRecursion
<1>5. f \in [Trees -> V] /\ \A g \in Trees : f[g] = IF At(f, g) \in V THEN At(f, g) ELSE None
  <2> HIDE DEF V, At
  <2> QED
    BY <1>4 DEF Fixed
<1> DEFINE Deep(n) == \A g \in Level(Leaves, n) : f[g] = At(f, g) /\ f[g] \in Options(Level(Bounds, n + 1))
           D == {n \in 0 .. MaxDepth : Deep(n)}
<1>6. ASSUME NEW n \in 0 .. MaxDepth PROVE Options(Level(Bounds, n + 1)) \subseteq V /\ Level(Leaves, n) \subseteq Trees
  <2>1. n \in Nat /\ n + 1 \in Nat /\ MaxDepth + 1 \in Nat /\ n + 1 <= MaxDepth + 1 /\ n <= MaxDepth
    BY DepthAssumption
  <2>2. Level(Bounds, n + 1) \subseteq Predicates /\ Level(Leaves, n) \subseteq Trees
    BY <2>1, DepthAssumption, LevelHolds DEF Predicates, Trees
  <2> QED
    BY <2>2, OptionsGrow
<1>7. 0 \in D
  <2>1. ASSUME NEW g \in Level(Leaves, 0) PROVE f[g] = At(f, g) /\ f[g] \in Options(Level(Bounds, 0 + 1))
    <3>1. g \in Leaves /\ g.t \notin {"and", "or", "not"}
      BY LevelsAre, LeafSets, LeafOperands
    <3>2. At(f, g) = translate_leaf(g, columns, format)
      BY <3>1 DEF TranslateAt
    <3>3. translate_leaf(g, columns, format) \in Options(Level(Bounds, 0 + 1)) /\ 0 \in 0 .. MaxDepth
      BY <3>1, LeafTranslated, DepthAssumption
    <3> HIDE DEF V, At
    <3> QED
      BY <1>5, <1>6, <3>2, <3>3
  <2>2. Deep(0) /\ 0 \in 0 .. MaxDepth
    BY <2>1, DepthAssumption
  <2> HIDE DEF Deep
  <2> QED
    BY <2>2
<1>8. ASSUME NEW n \in D, n < MaxDepth PROVE n + 1 \in D
  <2>1. n \in Nat /\ n + 1 \in Nat /\ n \in 0 .. MaxDepth /\ n + 1 \in 0 .. MaxDepth /\ Deep(n)
    BY <1>8, DepthAssumption
  <2>2. ASSUME NEW g \in Level(Leaves, n + 1)
        PROVE  f[g] = At(f, g) /\ f[g] \in Options(Level(Bounds, (n + 1) + 1))
    <3>1. CASE g \in Level(Leaves, n)
      <4>1. f[g] = At(f, g) /\ f[g] \in Options(Level(Bounds, n + 1))
        BY <2>1, <3>1
      <4>2. Level(Bounds, n + 1) \subseteq Level(Bounds, (n + 1) + 1)
        BY <2>1, LevelGrows
      <4> QED
        BY <4>1, <4>2, OptionsGrow
    <3>2. CASE g \notin Level(Leaves, n)
      <4>1. At(f, g) \in Options(Level(Bounds, (n + 1) + 1))
        <5>1. \A h \in Level(Leaves, n) : f[h] \in Options(Level(Bounds, n + 1))
          BY <2>1
        <5>2. CASE g.t \in {"and", "or"} /\ g.args \in Seq(Level(Leaves, n))
          <6> DEFINE q == [i \in DOMAIN g.args |-> f[g.args[i]]]
          <6>1. \A i \in DOMAIN g.args : f[g.args[i]] \in Options(Level(Bounds, n + 1))
            BY <5>1, <5>2
          <6>2. q \in Seq(Options(Level(Bounds, n + 1)))
            BY <5>2, <6>1
          <6>3. /\ fold_and(q) \in Options(Level(Bounds, (n + 1) + 1))
                /\ fold_or(q) \in Options(Level(Bounds, (n + 1) + 1))
            <7> HIDE DEF q
            <7> QED
              BY <2>1, <6>2, FoldTypes
          <6> QED
            BY <5>2, <6>3 DEF TranslateAt
        <5>3. CASE g.t = "not" /\ g.arg \in Level(Leaves, n)
          <6>1. translate_not(f[g.arg]) \in Options(Level(Bounds, (n + 1) + 1))
            BY <2>1, <5>1, <5>3, NotTypes
          <6> QED
            BY <5>3, <6>1 DEF TranslateAt
        <5> QED
          BY <2>1, <3>2, <5>2, <5>3, LevelCases
      <4>2. g \in Trees /\ At(f, g) \in V
        <5> HIDE DEF V, At
        <5> QED
          BY <1>6, <2>1, <4>1
      <4> HIDE DEF V, At
      <4> QED
        BY <1>5, <4>1, <4>2
    <3> QED
      BY <3>1, <3>2
  <2>3. Deep(n + 1)
    BY <2>2
  <2> HIDE DEF Deep
  <2> QED
    BY <2>1, <2>3
<1>9. D = 0 .. MaxDepth
  <2>1. D \in SUBSET (0 .. MaxDepth)
    OBVIOUS
  <2> HIDE DEF D
  <2> QED
    BY <1>7, <1>8, <2>1, BoundedInduction, DepthAssumption
<1>10. \A g \in Trees : f[g] = At(f, g)
  <2>1. MaxDepth \in D
    BY <1>9, DepthAssumption
  <2> HIDE DEF At
  <2> QED
    BY <2>1 DEF Trees
<1>11. Recursive(f)
  <2> HIDE DEF V
  <2> QED
    BY <1>5, <1>10
<1> DEFINE t == CHOOSE u : Recursive(u)
<1>12. \A g : translate(g, columns, format) = t[g]
  BY DEF translate, TranslateAt
<1>13. Recursive(t)
  <2>1. t = CHOOSE u : Recursive(u)
    OBVIOUS
  <2> HIDE DEF Recursive, t
  <2> QED
    BY <1>11, <2>1
<1>14. t = f
  <2>1. \A g \in Trees : t[g] = At(t, g) /\ f[g] = At(f, g)
    <3> HIDE DEF t
    <3> QED
      BY <1>10, <1>13
  <2>2. \A g \in Trees : (\A c \in Operands(g) : t[c] = f[c]) => t[g] = f[g]
    <3> HIDE DEF t
    <3> QED
      BY <2>1, TranslateLocal
  <2>3. DOMAIN t = Trees /\ DOMAIN f = Trees /\ t = [g \in Trees |-> t[g]] /\ f = [g \in Trees |-> f[g]]
    <3> HIDE DEF t, V
    <3> QED
      BY <1>5, <1>13
  <2> HIDE DEF t
  <2> QED
    BY <1>1, <2>2, <2>3, TreeUnique
<1> QED
  <2> HIDE DEF t
  <2> QED
    BY <1>5, <1>10, <1>12, <1>14

-----------------------------------------------------------------------------
(* The translation is sound: it lets a file be left out only when no row   *)
(* of it passes.                                                           *)

\* What a connective's truth says of its operands'.
LEMMA Connectives ==
  ASSUME NEW S \in SUBSET Truths
  PROVE  /\ Conj(S) = "T" => \A t \in S : t = "T"
         /\ Conj(S) = "F" => "F" \in S
         /\ Disj(S) = "T" => "T" \in S
         /\ Disj(S) = "F" => \A t \in S : t = "F"
<1>1. \A R \in SUBSET Truths : /\ Conj(R) = "T" => \A t \in R : t = "T"
                               /\ Conj(R) = "F" => "F" \in R
  BY DEF Conj, Truths
<1> DEFINE R == {Negation(t) : t \in S}
<1>2. R \in SUBSET Truths
  BY TruthTypes
<1>3. Conj(R) \in Truths
  BY TruthTypes
<1>4. Disj(S) = Negation(Conj(R))
  BY DEF Disj
<1>5. /\ Disj(S) = "T" => Conj(R) = "F"
      /\ Disj(S) = "F" => Conj(R) = "T"
  <2> HIDE DEF R
  <2> QED
    BY <1>3, <1>4 DEF Negation, Truths
<1>6. "F" \in R => "T" \in S
  BY DEF Negation, Truths
<1>7. (\A t \in R : t = "T") => \A t \in S : t = "F"
  <2>1. \A t \in S : Negation(t) \in R
    OBVIOUS
  <2> QED
    BY <2>1 DEF Negation, Truths
<1>8. /\ Conj(R) = "F" => "F" \in R
      /\ Conj(R) = "T" => \A t \in R : t = "T"
  <2> HIDE DEF R
  <2> QED
    BY <1>1, <1>2
<1> QED
  BY <1>1, <1>5, <1>6, <1>7, <1>8

\* A predicate that is reached whenever the filter's truth value is.
Sound(o, truth, m) ==
    o # None => /\ truth = "T" => m[o[1].predicate].true
                /\ o[1].exact /\ truth = "F" => m[o[1].predicate].false
IsMight(m, stats) == m \in [Predicates -> Mights(stats)] /\ \A p \in Predicates : m[p] = MightAt(m, p, stats)

\* A conjunction of what is sound is.
LEMMA FoldAndSound ==
  ASSUME NEW stats, NEW m, IsMight(m, stats), NEW q \in Seq(Options(Predicates)),
         fold_and(q) \in Options(Predicates), NEW r, DOMAIN r = DOMAIN q,
         \A k \in DOMAIN q : r[k] \in Truths /\ Sound(q[k], r[k], m)
  PROVE  Sound(fold_and(q), Conj({r[k] : k \in DOMAIN q}), m)
<1> DEFINE R == {r[k] : k \in DOMAIN q}
<1>1. R \in SUBSET Truths
  OBVIOUS
<1> DEFINE kept == Selected(q, {c \in ToSet(q) : IsSome(c)})
           args == [i \in DOMAIN kept |-> kept[i][1].predicate]
           p == [t |-> "and", args |-> args]
           e == \A i \in DOMAIN q : IsSome(q[i]) /\ q[i][1].exact
<1>2. /\ kept \in Seq(Options(Predicates))
      /\ \A i \in DOMAIN kept : kept[i] # None /\ \E k \in DOMAIN q : q[k] = kept[i]
      /\ \A k \in DOMAIN q : q[k] # None => \E i \in DOMAIN kept : kept[i] = q[k]
  BY KeptChildren
<1>3. fold_and(q) = None \/ (fold_and(q) # None /\ fold_and(q)[1] = [predicate |-> p, exact |-> e])
  BY DEF fold_and, Some, None
<1> HIDE DEF kept
<1>4. SUFFICES ASSUME fold_and(q) # None
               PROVE  Sound(fold_and(q), Conj(R), m)
  BY DEF Sound
<1>5. fold_and(q)[1].predicate = p /\ fold_and(q)[1].exact = e
  <2> HIDE DEF p, e
  <2> QED
    BY <1>3, <1>4
<1>6. p \in Predicates
  BY <1>4, <1>5, OptionCases
<1>7. m[p] = and([i \in DOMAIN args |-> m[args[i]]])
  <2>1. m[p] = MightAt(m, p, stats)
    <3> HIDE DEF p
    <3> QED
      BY <1>6 DEF IsMight
  <2>2. p.t = "and" /\ p.args = args
    <3> HIDE DEF args
    <3> QED
      OBVIOUS
  <2> HIDE DEF p, args
  <2> QED
    BY <2>1, <2>2 DEF MightAt
<1>8. /\ m[p].true = \A i \in DOMAIN kept : m[kept[i][1].predicate].true
      /\ m[p].false = \E i \in DOMAIN kept : m[kept[i][1].predicate].false
  <2>1. DOMAIN args = DOMAIN kept /\ \A i \in DOMAIN kept : args[i] = kept[i][1].predicate
    OBVIOUS
  <2> HIDE DEF p, args
  <2> QED
    BY <1>7, <2>1 DEF and
<1>9. Conj(R) = "T" => m[p].true
  <2> SUFFICES ASSUME Conj(R) = "T", NEW i \in DOMAIN kept
               PROVE  m[kept[i][1].predicate].true
    <3> HIDE DEF R, p
    <3> QED
      BY <1>8
  <2>1. PICK k \in DOMAIN q : q[k] = kept[i]
    BY <1>2
  <2>2. r[k] \in R
    OBVIOUS
  <2>3. r[k] = "T"
    <3> HIDE DEF R
    <3> QED
      BY <1>1, <2>2, Connectives
  <2> QED
    BY <1>2, <2>1, <2>3 DEF Sound
<1>10. e /\ Conj(R) = "F" => m[p].false
  <2> SUFFICES ASSUME e, Conj(R) = "F"
               PROVE  \E i \in DOMAIN kept : m[kept[i][1].predicate].false
    <3> HIDE DEF R, p, e
    <3> QED
      BY <1>8
  <2>1. "F" \in R
    <3> HIDE DEF R
    <3> QED
      BY <1>1, Connectives
  <2>2. PICK k \in DOMAIN q : r[k] = "F"
    BY <2>1
  <2>3. q[k] # None /\ q[k][1].exact
    BY DEF IsSome
  <2>4. m[q[k][1].predicate].false
    BY <2>2, <2>3 DEF Sound
  <2>5. PICK i \in DOMAIN kept : kept[i] = q[k]
    BY <1>2, <2>3
  <2> QED
    BY <2>4, <2>5
<1> HIDE DEF R, p, e
<1> QED
  BY <1>5, <1>9, <1>10 DEF Sound

\* So is a disjunction.
LEMMA FoldOrSound ==
  ASSUME NEW stats, NEW m, IsMight(m, stats), NEW q \in Seq(Options(Predicates)),
         fold_or(q) \in Options(Predicates), NEW r, DOMAIN r = DOMAIN q,
         \A k \in DOMAIN q : r[k] \in Truths /\ Sound(q[k], r[k], m)
  PROVE  Sound(fold_or(q), Disj({r[k] : k \in DOMAIN q}), m)
<1> DEFINE R == {r[k] : k \in DOMAIN q}
<1>1. R \in SUBSET Truths
  OBVIOUS
<1> DEFINE args == [i \in DOMAIN q |-> q[i][1].predicate]
           p == [t |-> "or", args |-> args]
           e == \A i \in DOMAIN q : q[i][1].exact
<1>2. SUFFICES ASSUME fold_or(q) # None
               PROVE  Sound(fold_or(q), Disj(R), m)
  BY DEF Sound
<1>3. \A i \in DOMAIN q : q[i] # None
  BY <1>2 DEF fold_or
<1>4. fold_or(q)[1] = [predicate |-> p, exact |-> e]
  BY <1>2 DEF fold_or, Some, None
<1>5. fold_or(q)[1].predicate = p /\ fold_or(q)[1].exact = e
  <2> HIDE DEF p, e
  <2> QED
    BY <1>4
<1>6. p \in Predicates
  BY <1>2, <1>5, OptionCases
<1>7. m[p] = or([i \in DOMAIN args |-> m[args[i]]])
  <2>1. m[p] = MightAt(m, p, stats)
    <3> HIDE DEF p
    <3> QED
      BY <1>6 DEF IsMight
  <2>2. p.t = "or" /\ p.args = args
    <3> HIDE DEF args
    <3> QED
      OBVIOUS
  <2> HIDE DEF p, args
  <2> QED
    BY <2>1, <2>2 DEF MightAt
<1>8. /\ m[p].true = \E i \in DOMAIN q : m[q[i][1].predicate].true
      /\ m[p].false = \A i \in DOMAIN q : m[q[i][1].predicate].false
  <2>1. DOMAIN args = DOMAIN q /\ \A i \in DOMAIN q : args[i] = q[i][1].predicate
    OBVIOUS
  <2> HIDE DEF p, args
  <2> QED
    BY <1>7, <2>1 DEF or
<1>9. Disj(R) = "T" => m[p].true
  <2> SUFFICES ASSUME Disj(R) = "T"
               PROVE  \E i \in DOMAIN q : m[q[i][1].predicate].true
    <3> HIDE DEF R, p
    <3> QED
      BY <1>8
  <2>1. "T" \in R
    <3> HIDE DEF R
    <3> QED
      BY <1>1, Connectives
  <2>2. PICK k \in DOMAIN q : r[k] = "T"
    BY <2>1
  <2> QED
    BY <1>3, <2>2 DEF Sound
<1>10. e /\ Disj(R) = "F" => m[p].false
  <2> SUFFICES ASSUME e, Disj(R) = "F", NEW k \in DOMAIN q
               PROVE  m[q[k][1].predicate].false
    <3> HIDE DEF R, p, e
    <3> QED
      BY <1>8
  <2>1. r[k] \in R
    OBVIOUS
  <2>2. r[k] = "F"
    <3> HIDE DEF R
    <3> QED
      BY <1>1, <2>1, Connectives
  <2> QED
    BY <1>3, <2>2 DEF Sound
<1> HIDE DEF R, p, e
<1> QED
  BY <1>5, <1>9, <1>10 DEF Sound

\* So is the negation of what is exact.
LEMMA NotSound ==
  ASSUME NEW stats, NEW m, IsMight(m, stats), NEW o \in Options(Predicates), NEW r \in Truths,
         Sound(o, r, m), translate_not(o) \in Options(Predicates)
  PROVE  Sound(translate_not(o), Negation(r), m)
<1>1. SUFFICES ASSUME o # None, o[1].exact
               PROVE  Sound(translate_not(o), Negation(r), m)
  BY DEF translate_not, Sound
<1> DEFINE p == o[1].predicate
           n == [t |-> "not", arg |-> p]
<1>2. translate_not(o) = <<[predicate |-> n, exact |-> TRUE]>>
  BY <1>1 DEF translate_not, Exact, Some
<1>3. translate_not(o)[1].predicate = n /\ translate_not(o) # None
  <2> HIDE DEF n
  <2> QED
    BY <1>2 DEF None
<1>4. n \in Predicates
  <2> HIDE DEF n
  <2> QED
    BY <1>3, OptionCases
<1>5. m[n] = negated(m[p])
  <2>1. n.t = "not" /\ n.arg = p
    <3> HIDE DEF p
    <3> QED
      OBVIOUS
  <2> HIDE DEF n, p
  <2> QED
    BY <1>4, <2>1 DEF IsMight, MightAt
<1>6. m[n].true = m[p].false /\ m[n].false = m[p].true
  <2> HIDE DEF n, p
  <2> QED
    BY <1>5 DEF negated
<1>7. (r = "T" => m[p].true) /\ (r = "F" => m[p].false)
  BY <1>1 DEF Sound
<1>8. (Negation(r) = "T" => r = "F") /\ (Negation(r) = "F" => r = "T")
  BY DEF Negation, Truths
<1> HIDE DEF n, p
<1> QED
  BY <1>3, <1>6, <1>7, <1>8, Zenon DEF Sound

\* What is recorded of a file's column admits a value of it.
CoveredBy(s, v) == s = None \/ IF v = Null THEN s[1].nulls ELSE s[1].low # Null /\ v \in s[1].low .. s[1].high
Covered(stats, columns, row) == \A n \in DOMAIN columns : CoveredBy(stats[columns[n].id], row[n])
\* A number is one that f32 holds where it is compared as one.
Narrowed(lit, type, format) == format = "iceberg" /\ type = "float" => lit.v % 2 = 0

\* A literal that converts keeps its value, but for the empty string.
LEMMA ConvertKeeps ==
  ASSUME NEW lit \in Literals, NEW type, NEW format, Narrowed(lit, type, format),
         Convert(lit, type, format) # NoLiteral, lit.v # Empty
  PROVE  Convert(lit, type, format) = lit.v
<1>1. lit.v \in Int
  BY DEF Literals
<1>2. Exactly(lit.v) # NoLiteral => Exactly(lit.v) = lit.v
  BY DEF Exactly
<1>3. CASE format = "iceberg" /\ type = "float"
  <2>1. lit.v % 2 = 0
    BY <1>3 DEF Narrowed
  <2>2. (lit.v \div 2) * 2 = lit.v /\ lit.v % 4 # 1
    BY <1>1, <2>1
  <2> QED
    BY <1>3, <2>2 DEF Convert, literal_to_datum
<1>4. CASE ~(format = "iceberg" /\ type = "float")
  BY <1>2, <1>4 DEF Convert, literal_to_datum, literal_to_scalar
<1> QED
  BY <1>3, <1>4

\* A comparison holds or does not.
LEMMA HoldsTyped ==
  ASSUME NEW op \in Operators, NEW a \in Int, NEW b \in Int
  PROVE  holds(op, a, b) \in BOOLEAN
<1>1. CASE op = "eq"
  BY <1>1 DEF holds
<1>2. CASE op = "ne"
  BY <1>2 DEF holds
<1>3. CASE op = "lt"
  BY <1>3 DEF holds
<1>4. CASE op = "le"
  BY <1>4 DEF holds
<1>5. CASE op = "gt"
  BY <1>5 DEF holds
<1>6. CASE op = "ge"
  BY <1>6 DEF holds
<1> QED
  BY <1>1, <1>2, <1>3, <1>4, <1>5, <1>6 DEF Operators

\* A comparison is reached by the bounds that cover the value compared.
LEMMA BoundSound ==
  ASSUME NEW stats, NEW m, IsMight(m, stats), NEW op \in Operators, NEW lit \in Literals,
         NEW columns, ColumnsOK(columns), NEW col \in DOMAIN columns, NEW format, NEW v \in Int,
         Narrowed(lit, columns[col].type, format), CoveredBy(stats[columns[col].id], v)
  PROVE  Sound(Bound(op, col, lit, columns, format), Compared(op, v, lit.v), m)
<1> DEFINE w == Convert(lit, columns[col].type, format)
           p == [t |-> "cmp", op |-> op, id |-> columns[col].id, v |-> w]
<1>1. SUFFICES ASSUME w # NoLiteral, v \notin {Null, Junk}, lit.v # Empty
               PROVE  Sound(Bound(op, col, lit, columns, format), Compared(op, v, lit.v), m)
  BY DEF Bound, Compared, Sound
<1>2. w = lit.v
  BY <1>1, ConvertKeeps
<1>3. Bound(op, col, lit, columns, format) = <<[predicate |-> p, exact |-> TRUE]>>
  BY <1>1 DEF Bound, Exact, Some
<1>4. Bound(op, col, lit, columns, format)[1].predicate = p
  <2> HIDE DEF p
  <2> QED
    BY <1>3
<1>5. p \in Bounds
  <2>1. columns[col].id \in Int /\ w \in Int
    BY ConvertTyped DEF ColumnsOK
  <2> HIDE DEF w
  <2> QED
    BY <2>1 DEF Bounds
<1>6. p \in Predicates
  <2>1. Level(Bounds, 0) \subseteq Predicates
    BY DepthAssumption, LevelHolds DEF Predicates
  <2> HIDE DEF p
  <2> QED
    BY <1>5, <2>1, BoundLevels
<1>7. m[p] = BoundReaches(p, stats)
  <2>1. m[p] = MightAt(m, p, stats)
    <3> HIDE DEF p
    <3> QED
      BY <1>6 DEF IsMight
  <2>2. p.t = "cmp"
    OBVIOUS
  <2> HIDE DEF p
  <2> QED
    BY <2>1, <2>2 DEF MightAt
<1>8. p.t = "cmp" /\ p.op = op /\ p.id = columns[col].id /\ p.v = lit.v
  <2> HIDE DEF w
  <2> QED
    BY <1>2
<1> HIDE DEF p
<1> DEFINE s == stats[columns[col].id]
           truth == holds(op, v, lit.v)
<1>9. truth \in BOOLEAN
  BY HoldsTyped DEF Literals
<1>10. CASE s = None
  <2>1. m[p] = AnyTruth
    BY <1>7, <1>8, <1>10 DEF BoundReaches
  <2> QED
    BY <1>4, <2>1 DEF Sound, AnyTruth
<1>11. CASE s # None
  <2>1. s[1].low # Null /\ v \in s[1].low .. s[1].high
    BY <1>1, <1>11 DEF CoveredBy
  <2>2. truth = TRUE => m[p].true
    <3>1. truth = TRUE => \E x \in s[1].low .. s[1].high : holds(p.op, x, p.v) = TRUE
      BY <1>8, <2>1
    <3>2. m[p].true = (s[1].low # Null /\ \E x \in s[1].low .. s[1].high : holds(p.op, x, p.v) = TRUE)
      BY <1>7, <1>8, <1>11 DEF BoundReaches
    <3> HIDE DEF truth, s
    <3> QED
      BY <2>1, <3>1, <3>2
  <2>3. truth = FALSE => m[p].false
    <3>1. truth = FALSE => \E x \in s[1].low .. s[1].high : holds(p.op, x, p.v) = FALSE
      BY <1>8, <2>1
    <3>2. m[p].false = (s[1].low # Null /\ \E x \in s[1].low .. s[1].high : holds(p.op, x, p.v) = FALSE)
      BY <1>7, <1>8, <1>11 DEF BoundReaches
    <3> HIDE DEF truth, s
    <3> QED
      BY <2>1, <3>1, <3>2
  <2>4. Compared(op, v, lit.v) = Of(truth)
    BY <1>1 DEF Compared
  <2>5. (Of(truth) = "T" => truth = TRUE) /\ (Of(truth) = "F" => truth = FALSE)
    <3> HIDE DEF truth
    <3> QED
      BY <1>9 DEF Of
  <2> HIDE DEF truth
  <2> QED
    BY <1>4, <2>2, <2>3, <2>4, <2>5 DEF Sound
<1> QED
  BY <1>10, <1>11

\* The narrowing of every number that a leaf compares.
NarrowedLeaf(g, columns, format) ==
    g.col \in DOMAIN columns => \A l \in LiteralsOf(g) : Narrowed(l, columns[g.col].type, format)

\* A sequence of bounds is one of predicates.
LEMMA BoundOptions == Options(Bounds) \subseteq Options(Predicates) /\ Options(Level(Bounds, 1)) \subseteq Options(Predicates)
<1>1. 0 \in Nat /\ 1 \in Nat /\ MaxDepth + 1 \in Nat /\ 0 <= MaxDepth + 1 /\ 1 <= MaxDepth + 1
  BY DepthAssumption
<1>2. Level(Bounds, 0) \subseteq Predicates /\ Level(Bounds, 1) \subseteq Predicates
  BY <1>1, LevelHolds DEF Predicates
<1> QED
  BY <1>2, OptionsGrow, BoundLevels

\* The translation of a leaf is sound.
LEMMA LeafSound ==
  ASSUME NEW stats, NEW m, IsMight(m, stats), NEW columns, ColumnsOK(columns), NEW format,
         NEW g \in Leaves, NarrowedLeaf(g, columns, format), NEW row,
         Covered(stats, columns, row), \A n \in DOMAIN columns : row[n] \in Int
  PROVE  Sound(translate_leaf(g, columns, format), LeafTruth(g, row), m)
<1>1. SUFFICES ASSUME g.t # "other", g.col \in DOMAIN columns
               PROVE  Sound(translate_leaf(g, columns, format), LeafTruth(g, row), m)
  BY DEF translate_leaf, Sound
<1> DEFINE v == row[g.col]
           id == columns[g.col].id
<1>2. v \in Int /\ CoveredBy(stats[id], v) /\ id \in Int
  BY <1>1 DEF Covered, ColumnsOK
<1>3. \A l \in LiteralsOf(g) : Narrowed(l, columns[g.col].type, format)
  BY <1>1 DEF NarrowedLeaf
<1>4. ASSUME NEW op \in Operators, NEW l \in Literals, l \in LiteralsOf(g)
      PROVE  Sound(Bound(op, g.col, l, columns, format), Compared(op, v, l.v), m)
  <2> HIDE DEF v
  <2> QED
    BY <1>1, <1>2, <1>3, <1>4, BoundSound
<1>5. CASE g.t = "cmp"
  <2>1. g.lit \in Literals /\ g.lit \in LiteralsOf(g) /\ comparison_operands(g) \in Operators
    BY <1>5, LeafParts, SwappedTyped DEF LiteralsOf
  <2>2. Sound(Bound(comparison_operands(g), g.col, g.lit, columns, format),
              Compared(comparison_operands(g), v, g.lit.v), m)
    BY <1>4, <2>1
  <2>3. LeafTruth(g, row) = Compared(comparison_operands(g), v, g.lit.v)
    BY <1>5 DEF LeafTruth
  <2>4. translate_leaf(g, columns, format) \in {None, Bound(comparison_operands(g), g.col, g.lit, columns, format)}
    BY <1>1, <1>5 DEF translate_leaf, translate_comparison
  <2> QED
    BY <2>2, <2>3, <2>4 DEF Sound
<1>6. CASE g.t = "in"
  <2> DEFINE q == [i \in DOMAIN g.lits |-> Bound("eq", g.col, g.lits[i], columns, format)]
             r == [i \in DOMAIN g.lits |-> Compared("eq", v, g.lits[i].v)]
  <2>1. g.lits \in Seq(Literals) /\ "eq" \in Operators /\ LiteralsOf(g) = ToSet(g.lits)
    BY <1>6, LeafParts DEF Operators, LiteralsOf
  <2>2. ASSUME NEW i \in DOMAIN g.lits
        PROVE  /\ Sound(Bound("eq", g.col, g.lits[i], columns, format), Compared("eq", v, g.lits[i].v), m)
               /\ Bound("eq", g.col, g.lits[i], columns, format) \in Options(Predicates)
    <3>1. g.lits[i] \in Literals /\ g.lits[i] \in LiteralsOf(g)
      BY <2>1 DEF ToSet
    <3> QED
      BY <1>1, <1>4, <2>1, <3>1, BoundTyped, BoundOptions
  <2>3. q \in Seq(Options(Predicates)) /\ DOMAIN q = DOMAIN r
    BY <2>1, <2>2
  <2>4. \A i \in DOMAIN q : r[i] \in Truths /\ Sound(q[i], r[i], m)
    BY <2>2, TruthTypes
  <2>5. fold_and(q) \in Options(Predicates) /\ fold_or(q) \in Options(Predicates)
    <3>1. \A i \in DOMAIN g.lits : Bound("eq", g.col, g.lits[i], columns, format) \in Options(Level(Bounds, 0))
      BY <1>1, <2>1, BoundTyped, BoundLevels
    <3>2. q \in Seq(Options(Level(Bounds, 0))) /\ 0 + 1 = 1
      BY <2>1, <3>1
    <3>3. fold_and(q) \in Options(Level(Bounds, 0 + 1)) /\ fold_or(q) \in Options(Level(Bounds, 0 + 1))
      <4> HIDE DEF q
      <4> QED
        BY <3>2, FoldTypes
    <3> HIDE DEF q
    <3> QED
      BY <3>2, <3>3, BoundOptions
  <2>6. {r[i] : i \in DOMAIN q} = {Compared("eq", v, g.lits[i].v) : i \in DOMAIN g.lits}
    OBVIOUS
  <2>7. Sound(fold_or(q), Disj({r[i] : i \in DOMAIN q}), m)
    <3> HIDE DEF q, r
    <3> QED
      BY <2>3, <2>4, <2>5, FoldOrSound
  <2>8. LeafTruth(g, row) = Disj({Compared("eq", v, g.lits[i].v) : i \in DOMAIN g.lits})
    BY <1>6 DEF LeafTruth
  <2>9. translate_leaf(g, columns, format) = fold_or(q)
    BY <1>1, <1>6 DEF translate_leaf, translate_in
  <2> HIDE DEF q, r
  <2> QED
    BY <2>6, <2>7, <2>8, <2>9
<1>7. CASE g.t = "between"
  <2> DEFINE lo == Bound("ge", g.col, g.low, columns, format)
             hi == Bound("le", g.col, g.high, columns, format)
             q == <<lo, hi>>
             r == <<Compared("ge", v, g.low.v), Compared("le", v, g.high.v)>>
  <2>1. /\ g.low \in Literals /\ g.high \in Literals /\ "ge" \in Operators /\ "le" \in Operators
        /\ g.low \in LiteralsOf(g) /\ g.high \in LiteralsOf(g)
    BY <1>7, LeafParts DEF Operators, LiteralsOf
  <2>2. Sound(lo, Compared("ge", v, g.low.v), m) /\ Sound(hi, Compared("le", v, g.high.v), m)
    BY <1>4, <2>1
  <2>3. lo \in Options(Bounds) /\ hi \in Options(Bounds)
    BY <1>1, <2>1, BoundTyped
  <2>4. lo \in Options(Predicates) /\ hi \in Options(Predicates) /\ lo \in Options(Level(Bounds, 0)) /\ hi \in Options(Level(Bounds, 0))
    BY <2>3, BoundOptions, BoundLevels
  <2>5. /\ q \in Seq(Options(Predicates)) /\ q \in Seq(Options(Level(Bounds, 0)))
        /\ DOMAIN q = 1 .. 2 /\ DOMAIN r = 1 .. 2
        /\ q[1] = lo /\ q[2] = hi /\ r[1] = Compared("ge", v, g.low.v) /\ r[2] = Compared("le", v, g.high.v)
    <3> HIDE DEF lo, hi, v
    <3> QED
      BY <2>4
  <2>6. \A i \in DOMAIN q : r[i] \in Truths /\ Sound(q[i], r[i], m)
    <3>1. \A i \in DOMAIN q : i = 1 \/ i = 2
      BY <2>5
    <3> HIDE DEF q, r, lo, hi, v
    <3> QED
      BY <2>2, <2>5, <3>1, TruthTypes
  <2>7. fold_and(q) \in Options(Predicates) /\ fold_or(q) \in Options(Predicates)
    <3>1. fold_and(q) \in Options(Level(Bounds, 0 + 1)) /\ fold_or(q) \in Options(Level(Bounds, 0 + 1))
      <4> HIDE DEF q
      <4> QED
        BY <2>5, FoldTypes
    <3>2. 0 + 1 = 1
      OBVIOUS
    <3> HIDE DEF q
    <3> QED
      BY <3>1, <3>2, BoundOptions
  <2>8. {r[i] : i \in DOMAIN q} = {Compared("ge", v, g.low.v), Compared("le", v, g.high.v)}
    <3> HIDE DEF q, r, lo, hi, v
    <3> QED
      BY <2>5
  <2>9. Sound(fold_and(q), Conj({r[i] : i \in DOMAIN q}), m)
    <3> HIDE DEF q, r
    <3> QED
      BY <2>5, <2>6, <2>7, FoldAndSound
  <2>10. LeafTruth(g, row) = Conj({Compared("ge", v, g.low.v), Compared("le", v, g.high.v)})
    BY <1>7 DEF LeafTruth
  <2>11. translate_leaf(g, columns, format) = fold_and(q)
    BY <1>1, <1>7 DEF translate_leaf, translate_between
  <2> HIDE DEF q, r
  <2> QED
    BY <2>8, <2>9, <2>10, <2>11
<1> DEFINE p == [t |-> "null", id |-> id]
<1>8. p \in Predicates /\ m[p] = BoundReaches(p, stats) /\ p.t = "null" /\ p.id = id
  <2>1. p \in Bounds /\ p.t = "null" /\ p.id = id
    BY <1>2 DEF Bounds
  <2>2. Level(Bounds, 0) \subseteq Predicates
    BY DepthAssumption, LevelHolds DEF Predicates
  <2> HIDE DEF p, id
  <2> QED
    BY <2>1, <2>2, BoundLevels DEF IsMight, MightAt
<1>9. (v = Null => m[p].true) /\ (v # Null => m[p].false)
  <2>1. CASE stats[id] = None
    <3> HIDE DEF p, id, v
    <3> QED
      BY <1>8, <2>1 DEF BoundReaches, AnyTruth
  <2>2. CASE stats[id] # None
    <3>1. m[p] = [true |-> stats[id][1].nulls, false |-> stats[id][1].low # Null]
      <4> HIDE DEF p, id, v
      <4> QED
        BY <1>8, <2>2 DEF BoundReaches
    <3> HIDE DEF p, id, v
    <3>2. m[p].true = stats[id][1].nulls /\ m[p].false = (stats[id][1].low # Null)
      BY <3>1
    <3>3. v = Null => stats[id][1].nulls
      BY <1>2, <2>2, Zenon DEF CoveredBy
    <3>4. v # Null => stats[id][1].low # Null
      BY <1>2, <2>2 DEF CoveredBy
    <3>5. v = Null => m[p].true
      BY <3>2, <3>3, Zenon
    <3>6. v # Null => m[p].false
      BY <3>2, <3>4
    <3> QED
      BY <3>5, <3>6
  <2> QED
    BY <2>1, <2>2
<1>10. CASE g.t = "null"
  <2>1. translate_leaf(g, columns, format) = <<[predicate |-> p, exact |-> TRUE]>>
    BY <1>1, <1>10 DEF translate_leaf, Exact, Some
  <2>2. LeafTruth(g, row) = Of(v = Null)
    BY <1>10 DEF LeafTruth
  <2>3. translate_leaf(g, columns, format)[1].predicate = p
    <3> HIDE DEF p
    <3> QED
      BY <2>1
  <2> HIDE DEF p, v
  <2> QED
    BY <1>9, <2>2, <2>3 DEF Of, Sound
<1>11. CASE g.t = "notnull"
  <2> DEFINE n == [t |-> "not", arg |-> p]
  <2>1. translate_leaf(g, columns, format) = <<[predicate |-> n, exact |-> TRUE]>>
    BY <1>1, <1>11 DEF translate_leaf, Exact, Some
  <2>2. LeafTruth(g, row) = Of(v # Null)
    BY <1>11 DEF LeafTruth
  <2>3. translate_leaf(g, columns, format)[1].predicate = n /\ translate_leaf(g, columns, format) # None
    <3> HIDE DEF n
    <3> QED
      BY <2>1 DEF None
  <2>4. n \in Predicates
    <3>1. translate_leaf(g, columns, format) \in Options(Predicates)
      BY LeafTranslated, BoundOptions
    <3> HIDE DEF n
    <3> QED
      BY <2>3, <3>1, OptionCases
  <2>5. m[n] = negated(m[p])
    <3>1. n.t = "not" /\ n.arg = p
      <4> HIDE DEF p
      <4> QED
        OBVIOUS
    <3> HIDE DEF n, p
    <3> QED
      BY <2>4, <3>1 DEF IsMight, MightAt
  <2> HIDE DEF n, p, v
  <2> QED
    BY <1>9, <2>2, <2>3, <2>5 DEF Of, Sound, negated
<1> QED
  BY <1>1, <1>5, <1>6, <1>7, <1>10, <1>11, LeafParts

\* The predicate that a filter is translated to may hold of a file whenever the filter is true of
\* a row of it, given bounds that cover the row: the file is not left out.
LEMMA TranslateSound ==
  ASSUME NEW columns, ColumnsOK(columns), NEW format, NEW g \in Trees, NEW stats, NEW row,
         format = "iceberg" => FloatsExact(g, columns),
         Covered(stats, columns, row), \A n \in DOMAIN columns : row[n] \in Int,
         Truth(g, row) = "T", translate(g, columns, format) # None
  PROVE  MightHold(translate(g, columns, format)[1].predicate, stats)
<1>1. PICK f \in [Trees -> Options(Predicates)] :
         \A h \in Trees : /\ translate(h, columns, format) = f[h]
                          /\ f[h] = TranslateAt(f, h, columns, format)
  BY TranslateOf
<1>2. PICK tr \in [Trees -> Truths] : \A h \in Trees : Truth(h, row) = tr[h] /\ tr[h] = TruthAt(tr, h, row)
  BY TruthOf
<1>3. PICK m \in [Predicates -> Mights(stats)] :
         \A p \in Predicates : MightHold(p, stats) = m[p].true /\ m[p] = MightAt(m, p, stats)
  BY MightOf
<1>4. PICK fl \in [Trees -> BOOLEAN] : \A h \in Trees : FloatsExact(h, columns) = fl[h] /\ fl[h] = FloatsAt(fl, h, columns)
  BY FloatsOf
<1>5. IsMight(m, stats)
  BY <1>3 DEF IsMight
<1> DEFINE Holds(h) == (format = "iceberg" => fl[h]) => Sound(f[h], tr[h], m)
           T == {h \in Trees : Holds(h)}
<1>6. ASSUME NEW h \in Trees, Operands(h) \subseteq T PROVE Holds(h)
  <2> SUFFICES ASSUME format = "iceberg" => fl[h]
               PROVE  Sound(f[h], tr[h], m)
    OBVIOUS
  <2>1. /\ f[h] = TranslateAt(f, h, columns, format) /\ tr[h] = TruthAt(tr, h, row) /\ fl[h] = FloatsAt(fl, h, columns)
        /\ f[h] \in Options(Predicates)
    BY <1>1, <1>2, <1>4
  <2>2. CASE h.t \in {"and", "or"}
    <3> DEFINE q == [i \in DOMAIN h.args |-> f[h.args[i]]]
               r == [i \in DOMAIN h.args |-> tr[h.args[i]]]
    <3>1. h.args \in Seq(Trees)
      BY <2>2, DepthAssumption, LeafSets, OperandsWithin DEF Trees
    <3>2. q \in Seq(Options(Predicates)) /\ DOMAIN r = DOMAIN q
      BY <3>1
    <3>3. ASSUME NEW k \in DOMAIN h.args PROVE tr[h.args[k]] \in Truths /\ Sound(f[h.args[k]], tr[h.args[k]], m)
      <4>1. h.args[k] \in Trees /\ h.args[k] \in Operands(h)
        BY <2>2, <3>1 DEF Operands
      <4>2. format = "iceberg" => fl[h.args[k]]
        BY <2>1, <2>2, <4>1 DEF FloatsAt
      <4> QED
        BY <1>6, <4>1, <4>2
    <3>4. \A k \in DOMAIN q : r[k] \in Truths /\ Sound(q[k], r[k], m)
      BY <3>3
    <3>5. {r[k] : k \in DOMAIN q} = {tr[h.args[i]] : i \in DOMAIN h.args}
      OBVIOUS
    <3>6. (h.t = "and" => f[h] = fold_and(q)) /\ (h.t = "or" => f[h] = fold_or(q))
      BY <2>1, <2>2 DEF TranslateAt
    <3>7. /\ h.t = "and" => tr[h] = Conj({tr[h.args[i]] : i \in DOMAIN h.args})
          /\ h.t = "or" => tr[h] = Disj({tr[h.args[i]] : i \in DOMAIN h.args})
      BY <2>1, <2>2 DEF TruthAt
    <3> HIDE DEF q, r
    <3>8. CASE h.t = "and"
      <4>1. fold_and(q) \in Options(Predicates)
        BY <2>1, <3>6, <3>8
      <4>2. Sound(fold_and(q), Conj({r[k] : k \in DOMAIN q}), m)
        BY <1>5, <3>2, <3>4, <4>1, FoldAndSound
      <4> QED
        BY <3>5, <3>6, <3>7, <3>8, <4>2
    <3>9. CASE h.t = "or"
      <4>1. fold_or(q) \in Options(Predicates)
        BY <2>1, <3>6, <3>9
      <4>2. Sound(fold_or(q), Disj({r[k] : k \in DOMAIN q}), m)
        BY <1>5, <3>2, <3>4, <4>1, FoldOrSound
      <4> QED
        BY <3>5, <3>6, <3>7, <3>9, <4>2
    <3> QED
      BY <2>2, <3>8, <3>9
  <2>3. CASE h.t = "not"
    <3>1. h.arg \in Trees /\ h.arg \in Operands(h)
      BY <2>3, DepthAssumption, LeafSets, OperandsWithin DEF Trees, Operands
    <3>2. format = "iceberg" => fl[h.arg]
      BY <2>1, <2>3 DEF FloatsAt
    <3>3. Sound(f[h.arg], tr[h.arg], m)
      BY <1>6, <3>1, <3>2
    <3>4. f[h] = translate_not(f[h.arg]) /\ tr[h] = Negation(tr[h.arg])
      BY <2>1, <2>3 DEF TranslateAt, TruthAt
    <3>5. f[h.arg] \in Options(Predicates) /\ tr[h.arg] \in Truths
      BY <3>1
    <3> QED
      BY <1>5, <2>1, <3>3, <3>4, <3>5, NotSound
  <2>4. CASE h.t \notin {"and", "or", "not"}
    <3>1. h \in Leaves
      BY <2>4, DepthAssumption, LeafSets, TreeKinds DEF Trees
    <3>2. f[h] = translate_leaf(h, columns, format) /\ tr[h] = LeafTruth(h, row)
      BY <2>1, <2>4 DEF TranslateAt, TruthAt
    <3>3. NarrowedLeaf(h, columns, format)
      BY <2>1, <2>4 DEF FloatsAt, NarrowedLeaf, Narrowed
    <3> QED
      BY <1>5, <3>1, <3>2, <3>3, LeafSound
  <2> QED
    BY <2>2, <2>3, <2>4
<1>7. T = Trees
  <2>1. T \in SUBSET Level(Leaves, MaxDepth) /\ \A h \in Level(Leaves, MaxDepth) : Operands(h) \subseteq T => h \in T
    <3>1. \A h \in Trees : Operands(h) \subseteq T => h \in T
      BY <1>6
    <3> QED
      BY <3>1 DEF Trees
  <2> HIDE DEF T
  <2> QED
    BY <2>1, DepthAssumption, LeafSets, TreeInduction DEF Trees
<1>8. Holds(g)
  BY <1>7
<1>9. Sound(f[g], tr[g], m)
  BY <1>4, <1>8
<1>10. f[g] # None /\ tr[g] = "T" /\ f[g] \in Options(Predicates)
  BY <1>1, <1>2
<1>11. f[g][1].predicate \in Predicates
  BY <1>10, OptionCases
<1>12. m[f[g][1].predicate].true
  BY <1>9, <1>10 DEF Sound
<1>13. MightHold(f[g][1].predicate, stats) = m[f[g][1].predicate].true
  BY <1>3, <1>11
<1> QED
  BY <1>1, <1>12, <1>13

-----------------------------------------------------------------------------
(* The pruning by partition values is sound                                *)

\* A truth value that the partition values let the filter have.
Reaches(reach, truth) == (truth = "T" => reach.true) /\ (truth = "F" => reach.false)

\* What is exactly known is reached; what is unknown asks for nothing.
LEMMA ExactReaches ==
  ASSUME NEW t
  PROVE  Reaches(exactly(t), t) /\ Reaches(exactly(t), "N")
<1>1. exactly(t).true = (t = "T") /\ exactly(t).false = (t = "F")
  BY DEF exactly
<1> QED
  BY <1>1 DEF Reaches

\* A negation swaps both.
LEMMA NegatedReaches ==
  ASSUME NEW reach, NEW t \in Truths, Reaches(reach, t)
  PROVE  Reaches(negated(reach), Negation(t))
<1>1. negated(reach).true = reach.false /\ negated(reach).false = reach.true
  BY DEF negated
<1>2. (Negation(t) = "T" => t = "F") /\ (Negation(t) = "F" => t = "T")
  BY DEF Negation, Truths
<1> QED
  BY <1>1, <1>2, Zenon DEF Reaches

\* A literal that converts keeps its value, and is not the empty string.
LEMMA LiteralKeeps ==
  ASSUME NEW lit \in Literals, NEW type, literal_under(lit, type) # NoLiteral
  PROVE  literal_under(lit, type) = lit.v
<1>1. Exactly(lit.v) # NoLiteral => Exactly(lit.v) = lit.v
  BY DEF Exactly
<1> QED
  BY <1>1 DEF literal_under

\* The known values of a file, as far as a row has them.
Agrees(values, row) == \A n \in DOMAIN values : row[n] = values[n]

\* A comparison reaches its truth value.
LEMMA CompareReaches ==
  ASSUME NEW op \in Operators, NEW col, NEW lit \in Literals, NEW types, NEW values, NEW row,
         Agrees(values, row), row[col] \in Int
  PROVE  Reaches(compare(op, col, lit, types, values), Compared(op, row[col], lit.v))
<1> DEFINE v == typed_literal(col, lit, types)
<1>1. CASE v = NoLiteral \/ col \notin DOMAIN values \/ values[col] = Junk
  BY <1>1 DEF compare, AnyTruth, Reaches, Null, Junk
<1>2. CASE v # NoLiteral /\ col \in DOMAIN values /\ values[col] # Junk
  <2>1. v = lit.v /\ row[col] = values[col]
    BY <1>2, LiteralKeeps DEF typed_literal, Agrees
  <2>2. CASE values[col] = Null
    BY <2>1, <2>2 DEF Reaches, Compared
  <2>3. CASE values[col] # Null
    <3> DEFINE truth == holds(op, values[col], v)
    <3>1. truth \in BOOLEAN
      BY <2>1, HoldsTyped DEF Literals
    <3>2. compare(op, col, lit, types, values) = exactly(Of(truth))
      BY <1>2, <2>3 DEF compare
    <3>3. Compared(op, row[col], lit.v) \in {"N", Of(truth)}
      BY <2>1 DEF Compared
    <3> HIDE DEF truth
    <3> QED
      BY <3>2, <3>3, ExactReaches
  <2> QED
    BY <2>2, <2>3
<1> QED
  BY <1>1, <1>2

\* A conjunction reaches what its operands together reach.
LEMMA AndReaches ==
  ASSUME NEW q, NEW r, DOMAIN r = DOMAIN q, \A k \in DOMAIN q : r[k] \in Truths /\ Reaches(q[k], r[k])
  PROVE  Reaches(and(q), Conj({r[k] : k \in DOMAIN q}))
<1> DEFINE R == {r[k] : k \in DOMAIN q}
<1>1. R \in SUBSET Truths /\ \A k \in DOMAIN q : r[k] \in R
  OBVIOUS
<1>2. "F" \in R => \E k \in DOMAIN q : r[k] = "F"
  OBVIOUS
<1>3. /\ and(q).true = \A i \in DOMAIN q : q[i].true
      /\ and(q).false = \E i \in DOMAIN q : q[i].false
  BY DEF and
<1> HIDE DEF R
<1>4. Conj(R) = "T" => \A k \in DOMAIN q : r[k] = "T"
  BY <1>1, Connectives
<1>5. Conj(R) = "F" => \E k \in DOMAIN q : r[k] = "F"
  BY <1>1, <1>2, Connectives
<1>6. Reaches(and(q), Conj(R))
  BY <1>3, <1>4, <1>5 DEF Reaches
<1> QED
  BY <1>6 DEF R

\* So does a disjunction.
LEMMA OrReaches ==
  ASSUME NEW q, NEW r, DOMAIN r = DOMAIN q, \A k \in DOMAIN q : r[k] \in Truths /\ Reaches(q[k], r[k])
  PROVE  Reaches(or(q), Disj({r[k] : k \in DOMAIN q}))
<1> DEFINE R == {r[k] : k \in DOMAIN q}
<1>1. R \in SUBSET Truths /\ \A k \in DOMAIN q : r[k] \in R
  OBVIOUS
<1>2. "T" \in R => \E k \in DOMAIN q : r[k] = "T"
  OBVIOUS
<1>3. /\ or(q).true = \E i \in DOMAIN q : q[i].true
      /\ or(q).false = \A i \in DOMAIN q : q[i].false
  BY DEF or
<1> HIDE DEF R
<1>4. Disj(R) = "F" => \A k \in DOMAIN q : r[k] = "F"
  BY <1>1, Connectives
<1>5. Disj(R) = "T" => \E k \in DOMAIN q : r[k] = "T"
  BY <1>1, <1>2, Connectives
<1>6. Reaches(or(q), Disj(R))
  BY <1>3, <1>4, <1>5 DEF Reaches
<1> QED
  BY <1>6 DEF R

\* A leaf reaches its truth value.
LEMMA LeafReaches ==
  ASSUME NEW g \in Leaves, NEW types, NEW values, NEW row, Agrees(values, row), row[g.col] \in Int
  PROVE  Reaches(reachable_leaf(g, types, values), LeafTruth(g, row))
<1> DEFINE v == row[g.col]
           c(op, l) == compare(op, g.col, l, types, values)
<1>1. ASSUME NEW op \in Operators, NEW l \in Literals PROVE Reaches(c(op, l), Compared(op, v, l.v))
  BY CompareReaches
<1>2. \A t : Reaches(AnyTruth, t)
  BY DEF Reaches, AnyTruth
<1>3. CASE g.t = "cmp"
  <2>1. g.lit \in Literals /\ comparison_operands(g) \in Operators
    BY <1>3, LeafParts, SwappedTyped
  <2>2. Reaches(c(comparison_operands(g), g.lit), Compared(comparison_operands(g), v, g.lit.v))
    <3> HIDE DEF c, v
    <3> QED
      BY <1>1, <2>1
  <2> QED
    BY <1>3, <2>2 DEF reachable_leaf, LeafTruth
<1>4. CASE g.t \in {"null", "notnull"}
  <2>1. Reaches(is_null(g.col, values), Of(v = Null)) /\ Reaches(negated(is_null(g.col, values)), Of(v # Null))
    <3>1. CASE g.col \in DOMAIN values
      <4>1. is_null(g.col, values) = exactly(Of(v = Null))
        BY <3>1 DEF is_null, Agrees
      <4>2. Of(v # Null) = Negation(Of(v = Null)) /\ Of(v = Null) \in Truths
        BY DEF Of, Negation, Truths
      <4> HIDE DEF v
      <4> QED
        BY <4>1, <4>2, ExactReaches, NegatedReaches
    <3>2. CASE g.col \notin DOMAIN values
      BY <3>2 DEF is_null, Reaches, negated, AnyTruth
    <3> QED
      BY <3>1, <3>2
  <2> QED
    BY <1>4, <2>1 DEF reachable_leaf, LeafTruth
<1>5. CASE g.t = "in"
  <2> DEFINE q == [i \in DOMAIN g.lits |-> c("eq", g.lits[i])]
             r == [i \in DOMAIN g.lits |-> Compared("eq", v, g.lits[i].v)]
  <2>1. g.lits \in Seq(Literals) /\ "eq" \in Operators
    BY <1>5, LeafParts DEF Operators
  <2>2. \A i \in DOMAIN g.lits : Compared("eq", v, g.lits[i].v) \in Truths /\ Reaches(c("eq", g.lits[i]), Compared("eq", v, g.lits[i].v))
    <3> HIDE DEF c, v
    <3> QED
      BY <1>1, <2>1, TruthTypes
  <2>3. DOMAIN r = DOMAIN q /\ \A i \in DOMAIN q : r[i] \in Truths /\ Reaches(q[i], r[i])
    <3> HIDE DEF c, v
    <3> QED
      BY <2>2
  <2>4. Reaches(or(q), Disj({r[i] : i \in DOMAIN q}))
    <3> HIDE DEF q, r
    <3> QED
      BY <2>3, OrReaches
  <2>5. {r[i] : i \in DOMAIN q} = {Compared("eq", v, g.lits[i].v) : i \in DOMAIN g.lits}
    OBVIOUS
  <2>6. LeafTruth(g, row) = Disj({Compared("eq", v, g.lits[i].v) : i \in DOMAIN g.lits})
    BY <1>5 DEF LeafTruth
  <2>7. reachable_leaf(g, types, values) = Unless(ToSet(g.lits), g.col, types, or(q))
    BY <1>5 DEF reachable_leaf
  <2> HIDE DEF q, r
  <2>8. Reaches(or(q), LeafTruth(g, row))
    BY <2>4, <2>5, <2>6
  <2> QED
    BY <1>2, <2>7, <2>8 DEF Unless
<1>6. CASE g.t = "between"
  <2> DEFINE q == <<c("ge", g.low), c("le", g.high)>>
             r == <<Compared("ge", v, g.low.v), Compared("le", v, g.high.v)>>
  <2>1. g.low \in Literals /\ g.high \in Literals /\ "ge" \in Operators /\ "le" \in Operators
    BY <1>6, LeafParts DEF Operators
  <2>2. /\ DOMAIN q = 1 .. 2 /\ DOMAIN r = 1 .. 2 /\ q[1] = c("ge", g.low) /\ q[2] = c("le", g.high)
        /\ r[1] = Compared("ge", v, g.low.v) /\ r[2] = Compared("le", v, g.high.v)
    <3> HIDE DEF c, v
    <3> QED
      OBVIOUS
  <2> HIDE DEF q, r
  <2>3. \A i \in DOMAIN q : r[i] \in Truths /\ Reaches(q[i], r[i])
    <3>1. \A i \in DOMAIN q : i = 1 \/ i = 2
      BY <2>2
    <3> HIDE DEF c, v
    <3> QED
      BY <1>1, <2>1, <2>2, <3>1, TruthTypes
  <2>4. Reaches(and(q), Conj({r[i] : i \in DOMAIN q}))
    BY <2>2, <2>3, AndReaches
  <2>5. {r[i] : i \in DOMAIN q} = {Compared("ge", v, g.low.v), Compared("le", v, g.high.v)}
    <3> HIDE DEF c, v
    <3> QED
      BY <2>2
  <2>6. LeafTruth(g, row) = Conj({Compared("ge", v, g.low.v), Compared("le", v, g.high.v)})
    BY <1>6 DEF LeafTruth
  <2>7. reachable_leaf(g, types, values) = Unless({g.low, g.high}, g.col, types, and(q))
    BY <1>6 DEF reachable_leaf, q
  <2>8. Reaches(and(q), LeafTruth(g, row))
    BY <2>4, <2>5, <2>6
  <2> QED
    BY <1>2, <2>7, <2>8 DEF Unless
<1>7. CASE g.t = "other"
  BY <1>2, <1>7 DEF reachable_leaf
<1> QED
  BY <1>3, <1>4, <1>5, <1>6, <1>7, LeafParts

ColumnsAt(f, g) ==
    CASE g.t \in {"and", "or"} -> UNION {f[g.args[i]] : i \in DOMAIN g.args}
      [] g.t = "not"           -> f[g.arg]
      [] OTHER                 -> {g.col}

\* The columns of a node depend on nothing but its operands'.
LEMMA ColumnsLocal ==
  ASSUME NEW f, NEW h, NEW g, \A c \in Operands(g) : f[c] = h[c]
  PROVE  ColumnsAt(f, g) = ColumnsAt(h, g)
<1>1. CASE g.t \in {"and", "or"}
  <2>1. \A i \in DOMAIN g.args : f[g.args[i]] = h[g.args[i]]
    BY <1>1 DEF Operands
  <2>2. /\ {f[g.args[i]] : i \in DOMAIN g.args} = {h[g.args[i]] : i \in DOMAIN g.args}
        /\ [i \in DOMAIN g.args |-> f[g.args[i]]] = [i \in DOMAIN g.args |-> h[g.args[i]]]
    BY <2>1
  <2> QED
    BY <1>1, <2>1, <2>2 DEF ColumnsAt
<1>2. CASE g.t = "not"
  BY <1>2 DEF ColumnsAt, Operands
<1>3. CASE g.t \notin {"and", "or", "not"}
  BY <1>3 DEF ColumnsAt
<1> QED
  BY <1>1, <1>2, <1>3

\* The recursive definition collects the columns of every tree.
LEMMA ColumnsAre ==
  \E f \in [Trees -> SUBSET STRING] :
            \A g \in Trees : ColumnsOf(g) = f[g] /\ f[g] = ColumnsAt(f, g)
<1> DEFINE F == [f \in [Trees -> SUBSET STRING] |-> [g \in Trees |-> ColumnsAt(f, g)]]
           Recursive(f) == f = [g \in Trees |-> ColumnsAt(f, g)]
<1>1. IsLevel(Trees)
  BY DepthAssumption, LeafSets DEF Trees, IsLevel
<1>2. ASSUME NEW f \in [Trees -> SUBSET STRING], NEW g \in Trees PROVE ColumnsAt(f, g) \in SUBSET STRING
  <2>1. CASE g.t \in {"and", "or"}
    <3>1. g.args \in Seq(Trees)
      BY <2>1, DepthAssumption, LeafSets, OperandsWithin DEF Trees
    <3> QED
      BY <2>1, <3>1 DEF ColumnsAt
  <2>2. CASE g.t = "not"
    <3>1. g.arg \in Trees
      BY <2>2, DepthAssumption, LeafSets, OperandsWithin DEF Trees, Predicates
    <3> QED
      BY <2>2, <3>1 DEF ColumnsAt
  <2>3. CASE g.t \notin {"and", "or", "not"}
    <3>1. g \in Leaves
      BY <2>3, DepthAssumption, LeafSets, TreeKinds DEF Trees
    <3>2. g.col \in STRING
      BY <3>1 DEF Leaves
    <3> QED
      BY <2>3, <3>2 DEF ColumnsAt
  <2> QED
    BY <2>1, <2>2, <2>3
<1>3. Local(F, Trees, SUBSET STRING)
  <2>1. \A f \in [Trees -> SUBSET STRING], g \in Trees : F[f][g] = ColumnsAt(f, g)
    OBVIOUS
  <2> HIDE DEF F
  <2> QED
    BY <2>1, ColumnsLocal DEF Local
<1>4. PICK f : Fixed(f, F, Trees, SUBSET STRING)
  <2>1. SUBSET STRING # {}
    <3>1. {} \in SUBSET STRING
      OBVIOUS
    <3> QED
      BY <3>1
  <2>2. F \in [[Trees -> SUBSET STRING] -> [Trees -> SUBSET STRING]]
    BY <1>2
  <2>3. TreeStep(F, Trees, SUBSET STRING)
    <3> HIDE DEF F
    <3> QED
      BY <1>3, <2>1, <2>2 DEF TreeStep
  <2> HIDE DEF F
  <2> QED
    BY <1>1, <2>3, TreeRecursion
<1>5. f \in [Trees -> SUBSET STRING] /\ Recursive(f)
  BY <1>4 DEF Fixed
<1> DEFINE t == CHOOSE u : Recursive(u)
<1>6. \A g : ColumnsOf(g) = t[g]
  BY DEF ColumnsOf, ColumnsAt
<1>7. Recursive(t)
  <2>1. t = CHOOSE u : Recursive(u)
    OBVIOUS
  <2> HIDE DEF Recursive, t
  <2> QED
    BY <1>5, <2>1
<1>8. t = f
  <2>1. \A g \in Trees : t[g] = ColumnsAt(t, g) /\ f[g] = ColumnsAt(f, g)
    <3> HIDE DEF t
    <3> QED
      BY <1>5, <1>7
  <2>2. \A g \in Trees : (\A c \in Operands(g) : t[c] = f[c]) => t[g] = f[g]
    <3> HIDE DEF t
    <3> QED
      BY <2>1, ColumnsLocal
  <2>3. DOMAIN t = Trees /\ DOMAIN f = Trees /\ t = [g \in Trees |-> t[g]] /\ f = [g \in Trees |-> f[g]]
    <3> HIDE DEF t
    <3> QED
      BY <1>5, <1>7
  <2> HIDE DEF t
  <2> QED
    BY <1>1, <2>2, <2>3, TreeUnique
<1> QED
  <2>1. \A g \in Trees : f[g] = ColumnsAt(f, g)
    BY <1>5
  <2> HIDE DEF t
  <2> QED
    BY <1>5, <1>6, <1>8, <2>1

\* A file one of whose rows passes the filter is kept, whatever of the row's values is known.
LEMMA KeepsSound ==
  ASSUME NEW g \in Trees, NEW types, NEW values, NEW row, Agrees(values, row),
         NEW C, ColumnsOf(g) \subseteq C, \A n \in C : row[n] \in Int, Truth(g, row) = "T"
  PROVE  keeps(Some(g), types, values)
<1>1. PICK f \in [Trees -> Reached] :
         \A h \in Trees : reachable(h, types, values) = f[h] /\ f[h] = ReachAt(f, h, types, values)
  BY ReachOf
<1>2. PICK tr \in [Trees -> Truths] : \A h \in Trees : Truth(h, row) = tr[h] /\ tr[h] = TruthAt(tr, h, row)
  BY TruthOf
<1>3. PICK cs \in [Trees -> SUBSET STRING] : \A h \in Trees : ColumnsOf(h) = cs[h] /\ cs[h] = ColumnsAt(cs, h)
  BY ColumnsAre
<1> DEFINE Holds(h) == cs[h] \subseteq C => Reaches(f[h], tr[h])
           T == {h \in Trees : Holds(h)}
<1>4. ASSUME NEW h \in Trees, Operands(h) \subseteq T PROVE Holds(h)
  <2> SUFFICES ASSUME cs[h] \subseteq C
               PROVE  Reaches(f[h], tr[h])
    OBVIOUS
  <2>1. f[h] = ReachAt(f, h, types, values) /\ tr[h] = TruthAt(tr, h, row) /\ cs[h] = ColumnsAt(cs, h)
    BY <1>1, <1>2, <1>3
  <2>2. CASE h.t \in {"and", "or"}
    <3> DEFINE q == [i \in DOMAIN h.args |-> f[h.args[i]]]
               r == [i \in DOMAIN h.args |-> tr[h.args[i]]]
    <3>1. h.args \in Seq(Trees)
      BY <2>2, DepthAssumption, LeafSets, OperandsWithin DEF Trees
    <3>2. DOMAIN r = DOMAIN q
      OBVIOUS
    <3>3. ASSUME NEW k \in DOMAIN h.args PROVE tr[h.args[k]] \in Truths /\ Reaches(f[h.args[k]], tr[h.args[k]])
      <4>1. h.args[k] \in Trees /\ h.args[k] \in Operands(h)
        BY <2>2, <3>1 DEF Operands
      <4>2. cs[h.args[k]] \subseteq C
        BY <2>1, <2>2 DEF ColumnsAt
      <4> QED
        BY <1>4, <4>1, <4>2
    <3>4. \A k \in DOMAIN q : r[k] \in Truths /\ Reaches(q[k], r[k])
      BY <3>3
    <3>5. {r[k] : k \in DOMAIN q} = {tr[h.args[i]] : i \in DOMAIN h.args}
      OBVIOUS
    <3>6. (h.t = "and" => f[h] = operands(h.args, and(q))) /\ (h.t = "or" => f[h] = operands(h.args, or(q)))
      BY <2>1, <2>2 DEF ReachAt
    <3>7. /\ h.t = "and" => tr[h] = Conj({tr[h.args[i]] : i \in DOMAIN h.args})
          /\ h.t = "or" => tr[h] = Disj({tr[h.args[i]] : i \in DOMAIN h.args})
      BY <2>1, <2>2 DEF TruthAt
    <3> HIDE DEF q, r
    <3>8. Reaches(and(q), Conj({r[k] : k \in DOMAIN q})) /\ Reaches(or(q), Disj({r[k] : k \in DOMAIN q}))
      BY <3>2, <3>4, AndReaches, OrReaches
    <3>9. \A t : Reaches(AnyTruth, t)
      BY DEF Reaches, AnyTruth
    <3>10. \A m, t : Reaches(m, t) => Reaches(operands(h.args, m), t)
      BY <3>9 DEF operands
    <3> QED
      BY <2>2, <3>5, <3>6, <3>7, <3>8, <3>10
  <2>3. CASE h.t = "not"
    <3>1. h.arg \in Trees /\ h.arg \in Operands(h)
      BY <2>3, DepthAssumption, LeafSets, OperandsWithin DEF Trees, Operands
    <3>2. cs[h.arg] \subseteq C
      BY <2>1, <2>3 DEF ColumnsAt
    <3>3. Reaches(f[h.arg], tr[h.arg]) /\ tr[h.arg] \in Truths
      BY <1>4, <3>1, <3>2
    <3>4. f[h] = negated(f[h.arg]) /\ tr[h] = Negation(tr[h.arg])
      BY <2>1, <2>3 DEF ReachAt, TruthAt
    <3> QED
      BY <3>3, <3>4, NegatedReaches
  <2>4. CASE h.t \notin {"and", "or", "not"}
    <3>1. h \in Leaves
      BY <2>4, DepthAssumption, LeafSets, TreeKinds DEF Trees
    <3>2. f[h] = reachable_leaf(h, types, values) /\ tr[h] = LeafTruth(h, row)
      BY <2>1, <2>4 DEF ReachAt, TruthAt
    <3>3. h.col \in C
      BY <2>1, <2>4 DEF ColumnsAt
    <3> QED
      BY <3>1, <3>2, <3>3, LeafReaches
  <2> QED
    BY <2>2, <2>3, <2>4
<1>5. T = Trees
  <2>1. T \in SUBSET Level(Leaves, MaxDepth) /\ \A h \in Level(Leaves, MaxDepth) : Operands(h) \subseteq T => h \in T
    <3>1. \A h \in Trees : Operands(h) \subseteq T => h \in T
      BY <1>4
    <3> QED
      BY <3>1 DEF Trees
  <2> HIDE DEF T
  <2> QED
    BY <2>1, DepthAssumption, LeafSets, TreeInduction DEF Trees
<1>6. Holds(g)
  BY <1>5
<1>7. Reaches(f[g], "T")
  BY <1>2, <1>3, <1>6
<1> QED
  BY <1>1, <1>7 DEF keeps, Some, Reaches

-----------------------------------------------------------------------------
(* Listings                                                                *)

\* The greatest and the least of a set of numbers that has one are in it and bound it.
LEMMA MaxIs ==
  ASSUME NEW S, NEW x \in S, \A y \in S : x >= y
  PROVE  Max(S) \in S /\ \A y \in S : Max(S) >= y
<1>1. Max(S) = CHOOSE z \in S : \A y \in S : z >= y
  BY DEF Max
<1> QED
  BY <1>1
\* A set with a least element has it as its minimum.
LEMMA MinIs ==
  ASSUME NEW S, NEW x \in S, \A y \in S : x <= y
  PROVE  Min(S) \in S /\ \A y \in S : Min(S) <= y
<1>1. Min(S) = CHOOSE z \in S : \A y \in S : z <= y
  BY DEF Min
<1> QED
  BY <1>1

\* The positions of a sequence have a last one.
LEMMA LastPosition ==
  ASSUME NEW X, NEW q \in Seq(X), NEW S \in SUBSET (DOMAIN q), S # {}
  PROVE  Max(S) \in S /\ \A i \in S : Max(S) >= i
<1>1. S \in SUBSET Nat /\ Len(q) \in Nat /\ \A x \in S : x <= Len(q)
  OBVIOUS
<1>2. PICK x \in S : \A y \in S : x >= y
  BY <1>1, GreatestNumber
<1> QED
  BY <1>2, MaxIs

\* An action that adds a file which no later one touches.
Lasts(log, i) == log[i].op = "add" /\ \A j \in DOMAIN log : j > i => log[j].file.path # log[i].file.path

\* The live files are the ones whose add lasts.
LEMMA LiveIs ==
  ASSUME NEW X, NEW log \in Seq(X)
  PROVE  Live(log) = {log[i].file : i \in {k \in DOMAIN log : Lasts(log, k)}}
<1> DEFINE on(path) == {i \in DOMAIN log : log[i].file.path = path}
           latest(path) == Max(on(path))
           paths == {log[i].file.path : i \in DOMAIN log}
<1>1. Live(log) = {log[latest(p)].file : p \in {q \in paths : log[latest(q)].op = "add"}}
  BY DEF Live
<1>2. ASSUME NEW i \in DOMAIN log
      PROVE  /\ latest(log[i].file.path) \in DOMAIN log
             /\ log[latest(log[i].file.path)].file.path = log[i].file.path
             /\ \A j \in DOMAIN log : log[j].file.path = log[i].file.path => latest(log[i].file.path) >= j
  <2> DEFINE p == log[i].file.path
  <2>1. i \in on(p) /\ on(p) \in SUBSET (DOMAIN log)
    OBVIOUS
  <2>2. latest(p) \in on(p) /\ \A j \in on(p) : latest(p) >= j
    <3> HIDE DEF on
    <3> QED
      BY <2>1, LastPosition
  <2> QED
    BY <2>2
<1> HIDE DEF latest
<1>3. ASSUME NEW f \in Live(log) PROVE \E i \in DOMAIN log : Lasts(log, i) /\ f = log[i].file
  <2>1. PICK p \in paths : log[latest(p)].op = "add" /\ f = log[latest(p)].file
    BY <1>1
  <2>2. PICK k \in DOMAIN log : p = log[k].file.path
    OBVIOUS
  <2>3. latest(p) \in DOMAIN log /\ log[latest(p)].file.path = p /\ \A j \in DOMAIN log : log[j].file.path = p => latest(p) >= j
    BY <1>2, <2>2
  <2>4. Lasts(log, latest(p))
    BY <2>1, <2>3 DEF Lasts
  <2> QED
    BY <2>1, <2>3, <2>4
<1>4. ASSUME NEW i \in DOMAIN log, Lasts(log, i) PROVE log[i].file \in Live(log)
  <2> DEFINE p == log[i].file.path
  <2>1. p \in paths
    OBVIOUS
  <2>2. latest(p) \in DOMAIN log /\ log[latest(p)].file.path = p /\ latest(p) >= i
    BY <1>2
  <2>3. latest(p) = i
    <3>1. ~(latest(p) > i)
      BY <1>4, <2>2 DEF Lasts
    <3>2. latest(p) \in Int /\ i \in Int
      BY <2>2
    <3> QED
      BY <2>2, <3>1, <3>2
  <2>4. log[latest(p)].op = "add" /\ log[latest(p)].file = log[i].file
    BY <1>4, <2>3 DEF Lasts
  <2> HIDE DEF p, paths
  <2> QED
    BY <1>1, <2>1, <2>4
<1> QED
  BY <1>3, <1>4

\* The live files are finitely many, and have paths of their own.
LEMMA LiveFinite ==
  ASSUME NEW X, NEW log \in Seq(X)
  PROVE  /\ IsFiniteSet(Live(log))
         /\ \A f, g \in Live(log) : f.path = g.path => f = g
         /\ \A f \in Live(log) : \E i \in DOMAIN log : f = log[i].file
<1>1. Live(log) = {log[i].file : i \in {k \in DOMAIN log : Lasts(log, k)}}
  BY LiveIs
<1>2. IsFiniteSet(Live(log))
  <2> DEFINE q == [i \in DOMAIN log |-> log[i].file]
             S == {q[i] : i \in DOMAIN q}
  <2>1. q \in Seq({log[i].file : i \in DOMAIN log})
    OBVIOUS
  <2>2. IsFiniteSet(S)
    <3> HIDE DEF q
    <3> QED
      BY <2>1, FiniteRange
  <2>3. Live(log) \subseteq S
    BY <1>1
  <2> HIDE DEF S
  <2> QED
    BY <2>2, <2>3, FS_Subset
<1>3. ASSUME NEW f \in Live(log), NEW g \in Live(log), f.path = g.path PROVE f = g
  <2>1. PICK i \in DOMAIN log : Lasts(log, i) /\ f = log[i].file
    BY <1>1
  <2>2. PICK j \in DOMAIN log : Lasts(log, j) /\ g = log[j].file
    BY <1>1
  <2>3. ~(i > j) /\ ~(j > i) /\ i \in Int /\ j \in Int
    BY <1>3, <2>1, <2>2 DEF Lasts
  <2> QED
    BY <2>1, <2>2, <2>3
<1> QED
  BY <1>1, <1>2, <1>3

\* Enumerations of a set in the order of paths.
Sorted(s) == IsInjective(s) /\ \A i, j \in DOMAIN s : i < j => s[i].path <= s[j].path
Enumerates(s, S) == s \in [1 .. Cardinality(S) -> S] /\ Sorted(s)

\* A finite set can be listed in the order of paths.
LEMMA SortedExists ==
  ASSUME NEW S, IsFiniteSet(S), \A f \in S : f.path \in Int
  PROVE  \E s : Enumerates(s, S)
<1> DEFINE P == {T \in SUBSET S : \E s : Enumerates(s, T)}
<1>1. {} \in P
  <2>1. Enumerates(<<>>, {})
    BY FS_EmptySet DEF Enumerates, Sorted, IsInjective
  <2> QED
    BY <2>1
<1>2. ASSUME NEW T \in SUBSET S, T # {}, \A x \in T : T \ {x} \in P PROVE T \in P
  <2> DEFINE w == [f \in T |-> f.path]
  <2>1. IsFiniteSet(T) /\ w \in [T -> Int]
    BY FS_Subset
  <2>2. PICK x : IsGreatest(x, w, T)
    <3> HIDE DEF w
    <3> QED
      BY <1>2, <2>1, FiniteGreatest
  <2>3. x \in T /\ \A y \in T : y.path <= x.path
    BY <2>2 DEF IsGreatest
  <2> DEFINE R == T \ {x}
  <2>4. PICK s : Enumerates(s, R)
    BY <1>2, <2>3
  <2> DEFINE n == Cardinality(R)
             u == [i \in 1 .. n + 1 |-> IF i = n + 1 THEN x ELSE s[i]]
  <2>5. n \in Nat /\ Cardinality(T) = n + 1
    <3>1. IsFiniteSet(R) /\ n = Cardinality(T) - 1
      BY <2>1, <2>3, FS_RemoveElement
    <3>2. n \in Nat /\ Cardinality(T) \in Nat
      BY <2>1, <3>1, FS_CardinalityType
    <3> QED
      BY <3>1, <3>2
  <2>6. s \in [1 .. n -> R] /\ Sorted(s)
    BY <2>4 DEF Enumerates
  <2> HIDE DEF n
  <2>7. \A i \in 1 .. n + 1 : i = n + 1 \/ i \in 1 .. n
    BY <2>5
  <2>8. u \in [1 .. n + 1 -> T]
    BY <2>3, <2>6, <2>7
  <2>9. IsInjective(u)
    <3>1. ASSUME NEW a \in 1 .. n + 1, NEW b \in 1 .. n + 1, u[a] = u[b] PROVE a = b
      <4>1. \A i \in 1 .. n : s[i] \in R /\ s[i] # x
        BY <2>6
      <4>2. \A i, j \in 1 .. n : s[i] = s[j] => i = j
        BY <2>6 DEF Sorted, IsInjective
      <4> QED
        BY <2>5, <2>7, <3>1, <4>1, <4>2
    <3> QED
      BY <3>1 DEF IsInjective
  <2>10. \A i, j \in DOMAIN u : i < j => u[i].path <= u[j].path
    <3>1. ASSUME NEW i \in 1 .. n + 1, NEW j \in 1 .. n + 1, i < j PROVE u[i].path <= u[j].path
      <4>1. i \in 1 .. n /\ u[i] = s[i] /\ s[i] \in T
        BY <2>5, <2>6, <3>1
      <4>2. CASE j = n + 1
        BY <2>3, <4>1, <4>2
      <4>3. CASE j \in 1 .. n
        <5>1. u[j] = s[j]
          BY <2>5, <4>3
        <5> QED
          BY <2>6, <3>1, <4>1, <4>3, <5>1 DEF Sorted
      <4> QED
        BY <2>7, <4>2, <4>3
    <3> QED
      BY <3>1
  <2>11. Enumerates(u, T)
    BY <2>5, <2>8, <2>9, <2>10 DEF Enumerates, Sorted
  <2> HIDE DEF u
  <2> QED
    BY <2>11
<1>3. P \in SUBSET SUBSET S
  OBVIOUS
<1>4. P = SUBSET S
  <2> HIDE DEF P
  <2> QED
    BY <1>1, <1>2, <1>3, SubsetInduction
<1> QED
  BY <1>4

\* ByPath lists every element of a finite set, once.
LEMMA ByPathLists ==
  ASSUME NEW S, IsFiniteSet(S), \A f \in S : f.path \in Int
  PROVE  /\ ByPath(S) \in Seq(S)
         /\ IsInjective(ByPath(S))
         /\ ToSet(ByPath(S)) = S
<1> DEFINE n == Cardinality(S)
           I == 1 .. n
           b == ByPath(S)
<1>1. n \in Nat /\ IsFiniteSet(I) /\ Cardinality(I) = n
  BY FS_CardinalityType, FS_Interval
<1>2. PICK s : Enumerates(s, S)
  BY SortedExists
<1>3. b = CHOOSE z \in [I -> S] : IsInjective(z) /\ \A i, j \in DOMAIN z : i < j => z[i].path <= z[j].path
  BY DEF ByPath
<1>4. s \in [I -> S] /\ IsInjective(s) /\ \A i, j \in DOMAIN s : i < j => s[i].path <= s[j].path
  BY <1>2 DEF Enumerates, Sorted
<1> HIDE DEF n, I, b
<1>5. b \in [I -> S] /\ IsInjective(b)
  BY <1>3, <1>4
<1>6. b \in Injection(I, S)
  BY <1>5 DEF Injection, IsInjective
<1>7. b \in Surjection(I, S)
  BY <1>1, <1>6, FS_Injection DEF n
<1>8. ToSet(b) = S
  BY <1>5, <1>7 DEF ToSet, Surjection
<1>9. b \in Seq(S)
  BY <1>1, <1>5 DEF I
<1> QED
  BY <1>5, <1>8, <1>9 DEF b

-----------------------------------------------------------------------------
(* No file is planned twice                                                *)

DistinctPaths(q) == \A i, j \in DOMAIN q : q[i].path = q[j].path => i = j
PathsOf(log) == \A i \in DOMAIN log : log[i].file.path \in Int
IsLog(log) == log \in Seq({log[i] : i \in DOMAIN log}) /\ PathsOf(log)

\* A consistent table has a log.
LEMMA ConsistentLog ==
  ASSUME NEW t, Consistent(t)
  PROVE  IsLog(t.log)
<1>1. \E X : t.log \in Seq(X)
  BY DEF Consistent
<1>2. t.log \in Seq({t.log[i] : i \in DOMAIN t.log})
  BY <1>1
<1>3. PathsOf(t.log)
  BY DEF Consistent, FileOK, PathsOf
<1> QED
  BY <1>2, <1>3 DEF IsLog

\* The live files of a log are finitely many, with paths of their own.
LEMMA LiveListed ==
  ASSUME NEW log, IsLog(log)
  PROVE  /\ IsFiniteSet(Live(log))
         /\ \A f, g \in Live(log) : f.path = g.path => f = g
         /\ \A f \in Live(log) : f.path \in Int
         /\ \A f \in Live(log) : \E i \in DOMAIN log : f = log[i].file
BY LiveFinite DEF IsLog, PathsOf

\* Some of them, listed by their paths.
LEMMA LiveByPath ==
  ASSUME NEW log, IsLog(log), NEW S \in SUBSET Live(log)
  PROVE  /\ ByPath(S) \in Seq(S)
         /\ ToSet(ByPath(S)) = S
         /\ DistinctPaths(ByPath(S))
<1>1. IsFiniteSet(S) /\ \A f \in S : f.path \in Int
  BY LiveListed, FS_Subset
<1>2. ByPath(S) \in Seq(S) /\ IsInjective(ByPath(S)) /\ ToSet(ByPath(S)) = S
  BY <1>1, ByPathLists
<1>3. ASSUME NEW i \in DOMAIN ByPath(S), NEW j \in DOMAIN ByPath(S), ByPath(S)[i].path = ByPath(S)[j].path
      PROVE  i = j
  <2>1. ByPath(S)[i] \in Live(log) /\ ByPath(S)[j] \in Live(log)
    BY <1>2
  <2>2. ByPath(S)[i] = ByPath(S)[j]
    BY <1>3, <2>1, LiveListed
  <2> QED
    BY <1>2, <2>2 DEF IsInjective
<1> QED
  BY <1>2, <1>3 DEF DistinctPaths

\* A directory's data files: at any depth, or the direct children of a Glue location.
DataFiles(log, location) ==
    {f \in Live(log) : /\ f.kind \notin {"hidden", "empty"}
                       /\ IF location = AnyDepth THEN f.kind # "extensionless" ELSE f.dir = location}

\* A listing enumerates the data files of its location, each path once.
LEMMA LocationFiles ==
  ASSUME NEW log, IsLog(log), NEW location
  PROVE  /\ list_location_files(log, location) \in Seq(DataFiles(log, location))
         /\ ToSet(list_location_files(log, location)) = DataFiles(log, location)
         /\ DistinctPaths(list_location_files(log, location))
<1>1. list_location_files(log, location) = ByPath(DataFiles(log, location))
  BY DEF list_location_files, DataFiles
<1>2. DataFiles(log, location) \in SUBSET Live(log)
  BY DEF DataFiles
<1> QED
  BY <1>1, <1>2, LiveByPath

\* What a filter of a listing keeps has paths of its own.
LEMMA SelectedDistinct ==
  ASSUME NEW X, NEW s \in Seq(X), DistinctPaths(s), NEW T
  PROVE  DistinctPaths(Selected(s, T))
<1> DEFINE q == Selected(s, T)
<1>1. q \in Seq(X) /\ OrderedOrigins(q, s, DOMAIN s)
  BY SelectedInOrder
<1> HIDE DEF q
<1>2. ASSUME NEW i \in DOMAIN q, NEW j \in DOMAIN q, i < j, q[i].path = q[j].path PROVE FALSE
  <2>1. PICK k \in DOMAIN s, l \in DOMAIN s : k < l /\ s[k] = q[i] /\ s[l] = q[j]
    BY <1>1, <1>2 DEF OrderedOrigins
  <2>2. k = l
    BY <1>2, <2>1 DEF DistinctPaths
  <2> QED
    BY <2>1, <2>2
<1>3. ASSUME NEW i \in DOMAIN q, NEW j \in DOMAIN q, q[i].path = q[j].path PROVE i = j
  <2>1. i \in Int /\ j \in Int
    BY <1>1
  <2> QED
    BY <1>2, <1>3, <2>1
<1> QED
  BY <1>3 DEF DistinctPaths, q

\* What is left of a log by the replay is live.
Shown(log, predicate, t) ==
    {f \in Live(log) : \/ predicate = None
                       \/ MightHold(predicate[1], [c \in DOMAIN t.schema |-> KernelStats(t, f, c)])}

\* The files of one path are skipped together.
LEMMA SkippedTogether ==
  ASSUME NEW t, DeltaLogOK(t.log), NEW i \in DOMAIN t.log, NEW j \in DOMAIN t.log,
         t.log[i].file.path = t.log[j].file.path
  PROVE  [c \in DOMAIN t.schema |-> KernelStats(t, t.log[i].file, c)]
         = [c \in DOMAIN t.schema |-> KernelStats(t, t.log[j].file, c)]
<1> DEFINE f == t.log[i].file
           g == t.log[j].file
<1>1. f.rows = g.rows /\ f.stats = g.stats /\ f.parts = g.parts
  <2>1. \A field \in {"rows", "stats", "parts"} : f[field] = g[field]
    BY DEF DeltaLogOK
  <2> QED
    BY <2>1
<1> HIDE DEF f, g
<1>2. \A c : KernelStats(t, f, c) = KernelStats(t, g, c)
  BY <1>1 DEF KernelStats, StatsOf
<1> QED
  BY <1>2 DEF f, g

\* A replayed row that the kernel skips loses its selection and nothing else.
LEMMA RowFields ==
  ASSUME NEW f, NEW add \in BOOLEAN, NEW selected \in BOOLEAN, NEW kept \in BOOLEAN
  PROVE  LET row == [[file |-> f, add |-> add, selected |-> selected] EXCEPT !.selected = @ /\ kept]
         IN  row.file = f /\ row.add = add /\ row.selected = (selected /\ kept)
<1> DEFINE plain == [file |-> f, add |-> add, selected |-> selected]
           row == [plain EXCEPT !.selected = @ /\ kept]
<1>1. row.selected = (plain.selected /\ kept)
  BY Zenon
<1>2. plain.selected = selected
  BY Zenon
<1>3. row.file = f
  BY SMT
<1>4. row.add = add
  BY SMT
<1> QED
  BY <1>1, <1>2, <1>3, <1>4, Zenon

\* The replay of a Delta log leaves exactly its live files, less the ones that are skipped.
LEMMA ReplayShows ==
  ASSUME NEW t, IsLog(t.log), DeltaLogOK(t.log), \A i \in DOMAIN t.log : t.log[i].op \in {"add", "remove"},
         NEW predicate
  PROVE  active_files(t, predicate) = ByPath(Shown(t.log, predicate, t))
<1> DEFINE log == t.log
           n == Len(log)
           rows == ReplayedRows(log)
           skips(f) == /\ predicate # None
                       /\ ~MightHold(predicate[1], [c \in DOMAIN t.schema |-> KernelStats(t, f, c)])
           rr == [i \in DOMAIN rows |-> [rows[i] EXCEPT !.selected = @ /\ ~skips(rows[i].file)]]
           sel(i) == \A j \in 1 .. i - 1 : <<log[n + 1 - j].file.path, log[n + 1 - j].key>>
                                            # <<log[n + 1 - i].file.path, log[n + 1 - i].key>>
           listed == {i \in DOMAIN rr : rr[i].add /\ rr[i].selected}
           first(i) == \A j \in listed : j < i => rr[j].file.path # rr[i].file.path
<1>1. log \in Seq({log[i] : i \in DOMAIN log}) /\ n \in Nat /\ DOMAIN log = 1 .. n
  BY DEF IsLog
<1>2. active_files(t, predicate) = ByPath({rr[i].file : i \in {k \in listed : first(k)}})
  BY DEF active_files, append_active_files
<1>3. DOMAIN rows = 1 .. n
  BY DEF ReplayedRows
<1>4. ASSUME NEW i \in 1 .. n
      PROVE  rows[i] = [file |-> log[n + 1 - i].file, add |-> log[n + 1 - i].op = "add", selected |-> sel(i)]
  <2>1. \A j \in 1 .. i - 1 : j \in 1 .. n
    BY <1>1
  <2> QED
    BY <1>1, <2>1 DEF ReplayedRows
<1> HIDE DEF rows, skips, sel
<1>5. ASSUME NEW i \in 1 .. n
      PROVE  /\ rr[i].file = log[n + 1 - i].file
             /\ rr[i].add = (log[n + 1 - i].op = "add")
             /\ rr[i].selected = (sel(i) /\ ~skips(log[n + 1 - i].file))
  <2>1. rr[i] = [rows[i] EXCEPT !.selected = @ /\ ~skips(rows[i].file)]
    BY <1>3
  <2>2. rows[i] = [file |-> log[n + 1 - i].file, add |-> log[n + 1 - i].op = "add", selected |-> sel(i)]
    BY <1>4
  <2>3. sel(i) \in BOOLEAN
    BY DEF sel
  <2>4. (~skips(log[n + 1 - i].file)) \in BOOLEAN /\ (log[n + 1 - i].op = "add") \in BOOLEAN
    BY Zenon
  <2>5. rows[i].file = log[n + 1 - i].file
    BY <2>2
  <2>6. rr[i] = [[file |-> log[n + 1 - i].file, add |-> log[n + 1 - i].op = "add", selected |-> sel(i)]
                   EXCEPT !.selected = @ /\ ~skips(log[n + 1 - i].file)]
    BY <2>1, <2>2, <2>5, Zenon
  <2> HIDE DEF rr
  <2>7. \A f : \A add, selected, kept \in BOOLEAN :
          LET row == [[file |-> f, add |-> add, selected |-> selected] EXCEPT !.selected = @ /\ kept]
          IN  row.file = f /\ row.add = add /\ row.selected = (selected /\ kept)
    BY RowFields, Zenon
  <2> QED
    BY <2>3, <2>4, <2>6, <2>7, Zenon
<1>6. DOMAIN rr = 1 .. n
  BY <1>3
<1> HIDE DEF rr
<1>7. ASSUME NEW i \in 1 .. n
      PROVE  i \in listed <=> log[n + 1 - i].op = "add" /\ sel(i) /\ ~skips(log[n + 1 - i].file)
  BY <1>5, <1>6
<1>8. ASSUME NEW a \in DOMAIN log, NEW b \in DOMAIN log, log[a].file.path = log[b].file.path
      PROVE  skips(log[a].file) = skips(log[b].file)
  BY <1>8, SkippedTogether DEF skips
<1>9. ASSUME NEW a \in DOMAIN log, Lasts(log, a), ~skips(log[a].file)
      PROVE  n + 1 - a \in listed /\ log[n + 1 - (n + 1 - a)] = log[a] /\ n + 1 - a \in 1 .. n
  <2>1. n + 1 - a \in 1 .. n /\ n + 1 - (n + 1 - a) = a
    BY <1>1
  <2>2. sel(n + 1 - a)
    <3>1. ASSUME NEW j \in 1 .. (n + 1 - a) - 1 PROVE log[n + 1 - j].file.path # log[a].file.path
      <4>1. n + 1 - j \in DOMAIN log /\ n + 1 - j > a
        BY <1>1
      <4> QED
        BY <1>9, <4>1 DEF Lasts
    <3> QED
      BY <2>1, <3>1 DEF sel
  <2> HIDE DEF listed
  <2> QED
    BY <1>7, <1>9, <2>1, <2>2 DEF Lasts
<1>10. ASSUME NEW i \in listed, first(i) PROVE Lasts(log, n + 1 - i) /\ n + 1 - i \in DOMAIN log
  <2> DEFINE a == n + 1 - i
  <2>1. i \in 1 .. n /\ a \in DOMAIN log /\ n + 1 - i = a
    BY <1>1, <1>6
  <2>2. log[a].op = "add" /\ sel(i) /\ ~skips(log[a].file)
    BY <1>7, <2>1
  <2>3. SUFFICES ASSUME NEW j \in DOMAIN log, j > a, log[j].file.path = log[a].file.path PROVE FALSE
    BY <2>1, <2>2 DEF Lasts
  <2> DEFINE on == {k \in DOMAIN log : log[k].file.path = log[a].file.path}
             l == Max(on)
  <2>4. l \in on /\ \A k \in on : l >= k
    <3>1. on \in SUBSET (DOMAIN log) /\ j \in on
      BY <2>3
    <3> HIDE DEF on
    <3> QED
      BY <1>1, <3>1, LastPosition
  <2>5. l \in DOMAIN log /\ log[l].file.path = log[a].file.path /\ l > a
    <3>1. l \in DOMAIN log /\ log[l].file.path = log[a].file.path /\ l >= j
      BY <2>3, <2>4
    <3> HIDE DEF l, a
    <3> QED
      BY <1>1, <2>1, <2>3, <3>1
  <2>6. \A k \in DOMAIN log : k > l => log[k].file.path # log[l].file.path
    <3>1. ASSUME NEW k \in DOMAIN log, k > l, log[k].file.path = log[l].file.path PROVE FALSE
      <4>1. k \in on
        BY <2>5, <3>1
      <4> HIDE DEF l, on, a
      <4>2. l >= k
        BY <2>4, <4>1
      <4>3. k \in Int /\ l \in Int
        BY <1>1, <2>5
      <4> QED
        BY <3>1, <4>2, <4>3
    <3> QED
      BY <3>1
  <2> HIDE DEF l, on
  <2>7. CASE log[l].op = "add"
    <3>1. ~skips(log[l].file)
      BY <1>8, <2>1, <2>2, <2>5
    <3>2. n + 1 - l \in listed /\ log[n + 1 - (n + 1 - l)] = log[l] /\ n + 1 - l \in 1 .. n
      <4>1. Lasts(log, l)
        BY <2>5, <2>6, <2>7 DEF Lasts
      <4> HIDE DEF listed
      <4> QED
        BY <1>9, <2>5, <3>1, <4>1
    <3>3. n + 1 - l < i
      BY <1>1, <2>1, <2>5
    <3>4. rr[n + 1 - l].file.path = rr[i].file.path
      BY <1>5, <2>1, <2>5, <3>2
    <3> HIDE DEF listed
    <3> QED
      BY <1>10, <3>2, <3>3, <3>4
  <2>8. CASE log[l].op = "remove"
    <3>1. PICK k \in a + 1 .. Len(log) : log[k].file.path = log[a].file.path /\ log[k].key = log[a].key
      <4> HIDE DEF a
      <4> QED
        BY <2>1, <2>2, <2>5, <2>8 DEF DeltaLogOK
    <3>2. n + 1 - k \in 1 .. i - 1 /\ n + 1 - (n + 1 - k) = k
      <4>1. n \in Int /\ i \in Int /\ k \in Int /\ k >= n + 1 - i + 1 /\ k <= n
        BY <1>1, <2>1
      <4> HIDE DEF n
      <4> QED
        BY <4>1
    <3>3. <<log[n + 1 - (n + 1 - k)].file.path, log[n + 1 - (n + 1 - k)].key>>
            # <<log[n + 1 - i].file.path, log[n + 1 - i].key>>
      BY <2>2, <3>2 DEF sel
    <3> QED
      BY <3>1, <3>2, <3>3
  <2> QED
    BY <2>5, <2>7, <2>8
<1>11. ASSUME NEW a \in DOMAIN log, Lasts(log, a), ~skips(log[a].file)
       PROVE  n + 1 - a \in listed /\ first(n + 1 - a) /\ rr[n + 1 - a].file = log[a].file
  <2>1. n + 1 - a \in listed /\ log[n + 1 - (n + 1 - a)] = log[a] /\ n + 1 - a \in 1 .. n
    <3> HIDE DEF listed
    <3> QED
      BY <1>9, <1>11
  <2>2. rr[n + 1 - a].file = log[a].file
    BY <1>5, <2>1
  <2>3. ASSUME NEW j \in listed, j < n + 1 - a PROVE rr[j].file.path # rr[n + 1 - a].file.path
    <3>1. j \in 1 .. n /\ n + 1 - j \in DOMAIN log /\ n + 1 - j > a
      BY <1>1, <1>6, <2>3
    <3>2. log[n + 1 - j].file.path # log[a].file.path
      BY <1>11, <3>1 DEF Lasts
    <3> QED
      BY <1>5, <2>2, <3>1, <3>2
  <2> QED
    BY <2>1, <2>2, <2>3
<1>12. Live(log) = {log[i].file : i \in {k \in DOMAIN log : Lasts(log, k)}}
  BY <1>1, LiveIs
<1>13. \A f : f \in Shown(log, predicate, t) <=> f \in Live(log) /\ ~skips(f)
  BY DEF Shown, skips
<1> HIDE DEF first, listed
<1>14. {rr[i].file : i \in {k \in listed : first(k)}} = Shown(log, predicate, t)
  <2>1. ASSUME NEW i \in listed, first(i) PROVE rr[i].file \in Shown(log, predicate, t)
    <3>1. i \in 1 .. n
      BY <1>6 DEF listed
    <3>2. rr[i].file = log[n + 1 - i].file /\ ~skips(log[n + 1 - i].file)
      BY <1>5, <1>7, <3>1
    <3>3. Lasts(log, n + 1 - i) /\ n + 1 - i \in DOMAIN log
      BY <1>10, <2>1
    <3> QED
      BY <1>12, <1>13, <3>2, <3>3
  <2>2. ASSUME NEW f \in Shown(log, predicate, t) PROVE \E i \in listed : first(i) /\ rr[i].file = f
    <3>1. f \in Live(log) /\ ~skips(f)
      BY <1>13
    <3>2. PICK a \in DOMAIN log : Lasts(log, a) /\ f = log[a].file
      BY <1>12, <3>1
    <3> QED
      BY <1>11, <3>1, <3>2
  <2> QED
    BY <2>1, <2>2
<1> QED
  BY <1>2, <1>14


-----------------------------------------------------------------------------
(* What is true of every reachable state                                   *)

\* The declared fields stand for columns that a table still has.
FieldsBound(n, t) ==
    /\ \A d, e \in n.fields : d.name = e.name \/ d.column = e.column => d = e
    /\ \A d \in n.fields : d.column \in DOMAIN t.schema

BoundIceberg(n) == \A d \in n.fields : d.id = d.column

\* A key that was recorded is the column's; without one, its files know it by the declared name.
BoundDelta(n, t) ==
    \A d \in n.fields :
        /\ d.id \in {NoKey, d.column}
        /\ d.physical \in {NoName, t.schema[d.column].physical}
        /\ d.id = NoKey /\ d.physical = NoName => d.name = t.schema[d.column].physical

\* Parquet files know a column by its name, and a directory knows a partition column by it.
BoundPlain(n, t) ==
    /\ \A d \in n.fields :
         /\ d.id = NoKey /\ d.physical = NoName /\ d.nullable
         /\ Upper(d.name) = KeyOf(t, d.column)
         /\ d.column \in ToSet(t.parts) <=> d.name \in ToSet(n.parts)
         /\ d.column \notin ToSet(t.parts) => d.name = t.schema[d.column].physical
    /\ ToSet(n.parts) \subseteq Names(n) \cup n.refused

BoundTo(n, t) ==
    /\ FieldsBound(n, t)
    /\ t.format = "iceberg" => BoundIceberg(n)
    /\ t.format = "delta" => BoundDelta(n, t)
    /\ Plain(t) => BoundPlain(n, t)

\* A filter of a reference compares declared columns.
FilterOf(filter, n) ==
    filter # None => /\ filter[1] \in Filters /\ ColumnsOf(filter[1]) \subseteq Names(n)
                     /\ filter = Some(filter[1])

NotesInv == notes # None => BoundTo(notes[1], source)

LoadedInv ==
    loaded # None =>
        /\ notes # None
        /\ WellFormed(loaded[1].table)
        /\ BoundTo(notes[1], loaded[1].table)
        /\ loaded[1].table.format = source.format
        /\ loaded[1].opened <=> ensure_scannable(notes[1]) /\ opens(loaded[1].table)

PlannedInv ==
    planned # None =>
        /\ loaded # None
        /\ Consistent(PrunedTable)
        /\ PrunedTable.format # "glue" => WellFormed(PrunedTable)
        /\ BoundTo(notes[1], PrunedTable) /\ ensure_scannable(notes[1])
        /\ FilterOf(planned[1].filter, notes[1])
        /\ planned[1].files = prune(PrunedTable, notes[1], planned[1].filter)

IInv == WellFormed(source) /\ NotesInv /\ LoadedInv /\ PlannedInv

\* An iceberg table has no directory.
LEMMA FormatsApart ==
  ASSUME NEW t
  PROVE  Plain(t) => t.format # "iceberg" /\ t.format # "delta"
BY DEF Plain

\* A name without a mapping is the one in the files.
LEMMA NamesAreBound ==
  ASSUME NEW t, Consistent(t), Plain(t), NEW c \in DOMAIN t.schema
  PROVE  t.schema[c].physical = t.schema[c].name /\ KeyOf(t, c) = Upper(t.schema[c].physical)
<1>1. t.mode = "none" /\ t.format # "iceberg" /\ SchemaOK(t)
  BY FormatsApart DEF Consistent
<1> QED
  BY <1>1 DEF SchemaOK, KeyOf

\* What a writer may do to a table leaves the declared fields bound.
LEMMA EvolutionKeepsBound ==
  ASSUME NEW n, NEW t, NEW u, BoundTo(n, t), Consistent(t), Consistent(u), Evolves(t, u)
  PROVE  BoundTo(n, u)
<1>1. u.format = t.format /\ (Plain(u) <=> Plain(t))
  BY DEF Evolves, Plain
<1>2. \A c \in DOMAIN t.schema : c \in DOMAIN u.schema /\ u.schema[c].physical = t.schema[c].physical
  BY DEF Evolves
<1>3. \A d \in n.fields : d.column \in DOMAIN t.schema /\ d.column \in DOMAIN u.schema
                          /\ u.schema[d.column].physical = t.schema[d.column].physical
  BY <1>2 DEF BoundTo, FieldsBound
<1>4. FieldsBound(n, u)
  BY <1>3 DEF BoundTo, FieldsBound
<1>5. t.format = "iceberg" => BoundIceberg(n)
  BY DEF BoundTo
<1>6. t.format = "delta" => BoundDelta(n, u)
  BY <1>3 DEF BoundTo, BoundDelta
<1>7. ASSUME Plain(t) PROVE BoundPlain(n, u)
  <2>1. u.parts = t.parts
    BY <1>7 DEF Evolves
  <2>2. \A d \in n.fields : KeyOf(u, d.column) = KeyOf(t, d.column)
    BY <1>1, <1>3, <1>7, NamesAreBound
  <2> QED
    BY <1>3, <1>7, <2>1, <2>2 DEF BoundTo, BoundPlain
<1> QED
  BY <1>1, <1>4, <1>5, <1>6, <1>7 DEF BoundTo

\* An Iceberg declaration binds by the field ids.
LEMMA IcebergDeclares ==
  ASSUME NEW t, Consistent(t), t.format = "iceberg"
  PROVE  BoundTo(iceberg_declaration(t), t)
<1> DEFINE n == iceberg_declaration(t)
           of(c) == Field(t.schema[c].name, c, NoName, c, t.schema[c].type, t.schema[c].nullable)
<1>1. \A d \in n.fields : \E c \in DOMAIN t.schema : d = of(c)
  BY DEF iceberg_declaration
<1>2. \A c : of(c).name = t.schema[c].name /\ of(c).id = c /\ of(c).column = c
  BY DEF Field
<1> HIDE DEF n, of
<1>3. \A c, d \in DOMAIN t.schema : t.schema[c].name = t.schema[d].name => c = d
  BY DEF Consistent, SchemaOK, KeyOf
<1>4. FieldsBound(n, t)
  BY <1>1, <1>2, <1>3 DEF FieldsBound
<1>5. BoundIceberg(n)
  BY <1>1, <1>2 DEF BoundIceberg
<1> QED
  BY <1>4, <1>5, FormatsApart DEF BoundTo, n

\* A catalog declaration binds a Delta table by the keys of its mode, and a Parquet one by name.
LEMMA CatalogDeclares ==
  ASSUME NEW t, Consistent(t), t.format \notin {"iceberg", "direct"}
  PROVE  BoundTo(catalog_declaration(t), t)
<1> DEFINE n == catalog_declaration(t)
           mode == t.mode
           S == DOMAIN t.schema
           key(c) == binding_key(c, t.schema[c], mode)
           of(c) == Field(t.schema[c].name, key(c).id, key(c).physical, c, t.schema[c].type,
                          t.schema[c].nullable \/ t.format # "delta")
           mapped == {d \in S : walk_field(t.schema[d], mode) = "mapped"}
<1>1. /\ n.fields = {of(c) : c \in mapped} /\ n.parts = [i \in DOMAIN t.parts |-> t.schema[t.parts[i]].name]
      /\ n.refused = {t.schema[c].name : c \in S \ mapped}
  BY DEF catalog_declaration, classify_spark_schema
<1>2. \A c : /\ of(c).name = t.schema[c].name /\ of(c).column = c
             /\ of(c).id = IF mode = "id" THEN c ELSE NoKey
             /\ of(c).physical = IF mode = "name" THEN t.schema[c].physical ELSE NoName
  BY DEF Field, binding_key
<1>3. \A c : t.format # "delta" => of(c).nullable
  BY DEF Field
<1>4. mapped \subseteq S
  OBVIOUS
<1> HIDE DEF n, of
<1>5. /\ \A c, d \in S : t.schema[c].name = t.schema[d].name => c = d
      /\ \A c \in S : t.mode = "none" => t.schema[c].physical = t.schema[c].name
      /\ t.format # "delta" => t.mode = "none"
      /\ t.mode \in {"none", "id", "name"}
  BY DEF Consistent, SchemaOK, KeyOf
<1>6. FieldsBound(n, t)
  <2> HIDE DEF mapped
  <2> QED
    BY <1>1, <1>2, <1>4, <1>5 DEF FieldsBound
<1>7. t.format = "delta" => BoundDelta(n, t)
  <2> HIDE DEF mapped
  <2>1. \A c \in S : c # NoKey /\ t.schema[c].physical # NoName
    BY DEF Consistent, SchemaOK
  <2> QED
    BY <1>1, <1>2, <1>4, <1>5, <2>1 DEF BoundDelta
<1>8. ASSUME Plain(t) PROVE BoundPlain(n, t)
  <2>1. t.parts \in Seq(S) /\ \A c \in ToSet(t.parts) : c \in S
    BY DEF Consistent, SchemaOK, ToSet
  <2>2. ToSet(n.parts) = {t.schema[c].name : c \in ToSet(t.parts)}
    BY <1>1 DEF ToSet
  <2> HIDE DEF mapped
  <2>3. \A c \in mapped : c \in ToSet(t.parts) <=> t.schema[c].name \in ToSet(n.parts)
    BY <1>4, <1>5, <2>1, <2>2
  <2>4. \A c \in mapped : KeyOf(t, c) = Upper(t.schema[c].name)
    BY DEF KeyOf
  <2>5. mode = "none" /\ t.format # "delta"
    BY <1>5, <1>8, FormatsApart
  <2>6. \A d \in n.fields :
         /\ d.id = NoKey /\ d.physical = NoName /\ d.nullable
         /\ Upper(d.name) = KeyOf(t, d.column)
         /\ d.column \in ToSet(t.parts) <=> d.name \in ToSet(n.parts)
         /\ d.column \notin ToSet(t.parts) => d.name = t.schema[d.column].physical
    <3>1. SUFFICES ASSUME NEW c \in mapped
                   PROVE  LET d == of(c)
                          IN  /\ d.id = NoKey /\ d.physical = NoName /\ d.nullable
                              /\ Upper(d.name) = KeyOf(t, d.column)
                              /\ d.column \in ToSet(t.parts) <=> d.name \in ToSet(n.parts)
                              /\ d.column \notin ToSet(t.parts) => d.name = t.schema[d.column].physical
      BY <1>1
    <3>2. of(c).nullable
      BY <1>3, <2>5
    <3>3. of(c).name = t.schema[c].name /\ of(c).column = c /\ of(c).id = NoKey /\ of(c).physical = NoName
      BY <1>2, <2>5
    <3>4. t.schema[c].physical = t.schema[c].name
      BY <1>4, <1>5, <2>5
    <3> QED
      BY <2>3, <2>4, <3>2, <3>3, <3>4, Zenon
  <2>7. ToSet(n.parts) \subseteq Names(n) \cup n.refused
    BY <1>1, <1>2, <2>1, <2>2 DEF Names
  <2> QED
    BY <2>6, <2>7 DEF BoundPlain
<1> QED
  BY <1>6, <1>7, <1>8 DEF BoundTo, n

\* A set of at most one element has no two.
LEMMA AtMostOne ==
  ASSUME NEW S, IsFiniteSet(S), Cardinality(S) <= 1, NEW x \in S, NEW y \in S
  PROVE  x = y
<1>1. SUFFICES ASSUME x # y PROVE FALSE
  OBVIOUS
<1>2. IsFiniteSet(S \ {x}) /\ Cardinality(S \ {x}) = Cardinality(S) - 1 /\ Cardinality(S) \in Nat
  BY FS_RemoveElement, FS_CardinalityType
<1>3. Cardinality(S \ {x}) = 0
  <2>1. Cardinality(S \ {x}) \in Nat
    BY <1>2, FS_CardinalityType
  <2> QED
    BY <1>2, <2>1
<1>4. S \ {x} = {}
  BY <1>2, <1>3, FS_EmptySet
<1> QED
  BY <1>1, <1>4

\* SetToSeq lists the elements of a finite set.
LEMMA SetListed ==
  ASSUME NEW S, IsFiniteSet(S)
  PROVE  ToSet(SetToSeq(S)) = S
<1> DEFINE k == Cardinality(S)
           I == 1 .. k
           q == SetToSeq(S)
<1>1. k \in Nat /\ ExistsBijection(I, S)
  BY FS_CardinalityType
<1>2. \E f \in [I -> S] : IsInjective(f)
  BY <1>1 DEF ExistsBijection, Bijection, Injection, IsInjective
<1>3. q = CHOOSE f \in [I -> S] : IsInjective(f)
  BY DEF SetToSeq
<1>4. IsFiniteSet(I) /\ Cardinality(I) = k
  BY <1>1, FS_Interval
<1> HIDE DEF k, I, q
<1>5. q \in [I -> S] /\ IsInjective(q)
  BY <1>2, <1>3
<1> DEFINE T == ToSet(q)
<1>6. T \subseteq S /\ q \in [I -> T] /\ \A y \in T : \E i \in I : q[i] = y
  BY <1>5 DEF ToSet
<1>7. q \in Injection(I, T) /\ q \in Surjection(I, T)
  BY <1>5, <1>6 DEF Injection, Surjection, IsInjective
<1> HIDE DEF T
<1>8. IsFiniteSet(T) /\ Cardinality(T) = k
  BY <1>4, <1>7, FS_Surjection
<1>9. T = S
  BY <1>6, <1>8, FS_Subset DEF k
<1> QED
  BY <1>9 DEF T, q

SegmentsOf(files) ==
    \A i \in DOMAIN files : files[i].segments \in Seq([key : STRING, value : Values \cup {Junk}])
KeysOf(files) == UNION {SegmentKeys(files[x]) : x \in DOMAIN files}

\* The paths of a listing carry finitely many keys.
LEMMA KeysFinite ==
  ASSUME NEW X, NEW files \in Seq(X), SegmentsOf(files)
  PROVE  IsFiniteSet(KeysOf(files))
<1> DEFINE of == [x \in DOMAIN files |-> SegmentKeys(files[x])]
<1>1. ASSUME NEW x \in DOMAIN files PROVE IsFiniteSet(SegmentKeys(files[x]))
  <2> DEFINE s == files[x].segments
             e == [y \in DOMAIN s |-> s[y].key]
  <2>1. s \in Seq([key : STRING, value : Values \cup {Junk}])
    BY DEF SegmentsOf
  <2>2. IsFiniteSet(DOMAIN s)
    <3>1. DOMAIN s = 1 .. Len(s) /\ Len(s) \in Nat
      BY <2>1
    <3> QED
      BY <3>1, FS_Interval
  <2>3. DOMAIN e = DOMAIN s /\ SegmentKeys(files[x]) = {e[y] : y \in DOMAIN s}
    BY DEF SegmentKeys
  <2> HIDE DEF e, s
  <2> QED
    BY <2>2, <2>3, FiniteImage
<1>2. IsFiniteSet(DOMAIN files)
  <2>1. DOMAIN files = 1 .. Len(files) /\ Len(files) \in Nat
    OBVIOUS
  <2> QED
    BY <2>1, FS_Interval
<1>3. /\ DOMAIN of = DOMAIN files
      /\ \A x \in DOMAIN files : IsFiniteSet(of[x])
      /\ KeysOf(files) = UNION {of[x] : x \in DOMAIN files}
  BY <1>1 DEF KeysOf
<1> HIDE DEF of
<1> QED
  BY <1>2, <1>3, FiniteUnion

\* Two spellings of a declared key are one spelling.
LEMMA OneSpelling ==
  ASSUME NEW X, NEW files \in Seq(X), SegmentsOf(files),
         NEW declared, ensure_one_spelling_per_declared_key(files, declared),
         NEW d \in declared, NEW k \in KeysOf(files), NEW l \in KeysOf(files),
         Upper(k) = Upper(d), Upper(l) = Upper(d)
  PROVE  k = l
<1> DEFINE S == {x \in KeysOf(files) : Upper(x) = Upper(d)}
<1>1. k \in S /\ l \in S /\ S \subseteq KeysOf(files)
  OBVIOUS
<1>2. Cardinality(S) <= 1
  BY DEF ensure_one_spelling_per_declared_key, KeysOf
<1> HIDE DEF S
<1>3. IsFiniteSet(S)
  BY <1>1, KeysFinite, FS_Subset
<1> QED
  BY <1>1, <1>2, <1>3, AtMostOne

\* The files that a directory's reader meets are its listed ones.
LEMMA DirectoryListed ==
  ASSUME NEW t, Consistent(t)
  PROVE  LET files == list_location_files(t.log, AnyDepth)
         IN  /\ files \in Seq(Listed(t)) /\ ToSet(files) = Listed(t)
             /\ SegmentsOf(files)
             /\ \A f \in Live(t.log) : FileOK(t, f)
<1> DEFINE files == list_location_files(t.log, AnyDepth)
<1>1. DataFiles(t.log, AnyDepth) = Listed(t)
  BY DEF DataFiles, Listed
<1>2. files \in Seq(Listed(t)) /\ ToSet(files) = Listed(t)
  BY <1>1, ConsistentLog, LocationFiles
<1>3. \A f \in Live(t.log) : FileOK(t, f)
  <2>1. \A i \in DOMAIN t.log : FileOK(t, t.log[i].file)
    BY DEF Consistent
  <2> QED
    BY <2>1, ConsistentLog, LiveListed
<1> HIDE DEF files
<1>4. SegmentsOf(files)
  <2>1. \A i \in DOMAIN files : files[i] \in Live(t.log)
    BY <1>2 DEF Listed
  <2> QED
    BY <1>3, <2>1 DEF SegmentsOf, FileOK
<1> QED
  BY <1>2, <1>3, <1>4 DEF files

\* A directory's declaration binds by name, the keys of its paths to its partition columns.
LEMMA DirectoryDeclares ==
  ASSUME NEW t, Consistent(t), t.format = "direct", resolve_parquet_directory(t) # None
  PROVE  BoundTo(resolve_parquet_directory(t)[1], t)
<1> DEFINE n == resolve_parquet_directory(t)[1]
           S == DOMAIN t.schema
           files == list_location_files(t.log, AnyDepth)
           read == IF t.sampled THEN SubSeq(files, 1, 1) ELSE files
           declared == KeysOf(read)
           folded == SchemaFold(t, read, KeysOf(files))
           read_columns == {c \in folded[1] : t.schema[c].type # "variant"}
           unread == {t.schema[c].name : c \in {x \in folded[1] : t.schema[x].type = "variant"}}
           named(k) == CHOOSE c \in S : Upper(t.schema[c].name) = Upper(k)
           plain(c) == Field(t.schema[c].name, NoKey, NoName, c, t.schema[c].type, TRUE)
           part(k) == Field(k, NoKey, NoName, named(k), "text", TRUE)
<1>1. /\ files # <<>> /\ ensure_one_spelling_per_declared_key(files, declared) /\ folded # None
      /\ n = [fields |-> {plain(c) : c \in read_columns} \cup {part(k) : k \in declared},
              refused |-> unread, parts |-> SetToSeq(declared)]
  <2> DEFINE notes1 == [fields |-> {plain(c) : c \in read_columns} \cup {part(k) : k \in declared},
                        refused |-> unread, parts |-> SetToSeq(declared)]
             bad == files = <<>> \/ ~ensure_one_spelling_per_declared_key(files, declared) \/ folded = None
  <2>1. resolve_parquet_directory(t) = IF bad THEN None ELSE Some(notes1)
    BY DEF resolve_parquet_directory, KeysOf
  <2> HIDE DEF bad, notes1
  <2>2. ~bad /\ n = notes1
    BY <2>1 DEF Some
  <2> QED
    BY <2>2 DEF bad, notes1
<1>2. n.fields = {plain(c) : c \in read_columns} \cup {part(k) : k \in declared} /\ n.parts = SetToSeq(declared)
  BY <1>1
<1> HIDE DEF n, files
<1>3. /\ files \in Seq(Listed(t)) /\ ToSet(files) = Listed(t)
      /\ SegmentsOf(files)
      /\ \A f \in Live(t.log) : FileOK(t, f)
  BY DirectoryListed DEF files
<1>4. read \in Seq(Listed(t)) /\ \A i \in DOMAIN read : \E j \in DOMAIN files : read[i] = files[j]
  <2>1. Len(files) >= 1
    BY <1>1, <1>3
  <2>2. CASE t.sampled
    <3>1. read = SubSeq(files, 1, 1)
      BY <2>2
    <3>2. SubSeq(files, 1, 1) \in Seq(Listed(t)) /\ DOMAIN SubSeq(files, 1, 1) = 1 .. 1 /\ SubSeq(files, 1, 1)[1] = files[1]
      BY <1>3, <2>1
    <3>3. 1 \in DOMAIN files /\ 1 .. 1 = {1}
      BY <1>3, <2>1
    <3> HIDE DEF read
    <3> QED
      BY <3>1, <3>2, <3>3
  <2>3. CASE ~t.sampled
    BY <1>3, <2>3
  <2> QED
    BY <2>2, <2>3
<1> HIDE DEF read
<1>5. declared \subseteq KeysOf(files) /\ IsFiniteSet(declared)
  <2>1. declared \subseteq KeysOf(files)
    BY <1>4 DEF KeysOf
  <2> QED
    BY <1>3, <2>1, KeysFinite, FS_Subset
<1> DEFINE keys == {Upper(k) : k \in UNION {SegmentKeys(f) : f \in Listed(t)}}
<1>6. \A k \in KeysOf(files) : Upper(k) \in keys
  <2>1. KeysOf(files) = UNION {SegmentKeys(f) : f \in Listed(t)}
    BY <1>3 DEF KeysOf, ToSet
  <2> QED
    BY <2>1
<1>7. \A x \in keys : \E k \in KeysOf(files) : x = Upper(k)
  <2>1. KeysOf(files) = UNION {SegmentKeys(f) : f \in Listed(t)}
    BY <1>3 DEF KeysOf, ToSet
  <2> QED
    BY <2>1
<1>8. /\ keys \subseteq {KeyOf(t, c) : c \in ToSet(t.parts)}
      /\ \A c \in ToSet(t.parts), f \in Listed(t) : c \in DOMAIN f.rows[1] => KeyOf(t, c) \in keys
  BY DEF Consistent, DirectoryOK
<1> HIDE DEF keys
<1>9. /\ \A c, d \in S : KeyOf(t, c) = KeyOf(t, d) => c = d
      /\ ToSet(t.parts) \subseteq S
      /\ \A c \in S : t.schema[c].physical = t.schema[c].name
  <2>1. SchemaOK(t) /\ t.mode = "none"
    BY DEF Consistent
  <2> QED
    BY <2>1 DEF SchemaOK, ToSet
<1>10. ASSUME NEW k \in declared
       PROVE  named(k) \in ToSet(t.parts) /\ KeyOf(t, named(k)) = Upper(k)
  <2>1. Upper(k) \in keys
    BY <1>5, <1>6
  <2>2. PICK c \in ToSet(t.parts) : KeyOf(t, c) = Upper(k)
    BY <1>8, <2>1
  <2>3. \A x \in S : Upper(t.schema[x].name) = Upper(k) <=> x = c
    BY <1>9, <2>2 DEF KeyOf
  <2>4. named(k) = c
    BY <1>9, <2>3
  <2> QED
    BY <2>2, <2>4
<1>11. ASSUME NEW c \in read_columns
       PROVE  c \in S /\ c \notin ToSet(t.parts) /\ \A k \in KeysOf(files) : Upper(k) # KeyOf(t, c)
  <2>1. c \in UNION {DOMAIN read[i].rows[1] : i \in DOMAIN read} /\ \A k \in KeysOf(files) : Upper(k) # Upper(t.schema[c].name)
    BY <1>1 DEF SchemaFold, Some
  <2>2. PICK i \in DOMAIN read : c \in DOMAIN read[i].rows[1]
    BY <2>1
  <2>3. read[i] \in Listed(t) /\ FileOK(t, read[i])
    BY <1>3, <1>4 DEF Listed
  <2>4. c \in S
    BY <2>2, <2>3 DEF FileOK
  <2>5. c \notin ToSet(t.parts)
    BY <1>7, <1>8, <2>1, <2>2, <2>3 DEF KeyOf
  <2> QED
    BY <2>1, <2>4, <2>5 DEF KeyOf
<1>12. \A k, l \in declared : Upper(k) = Upper(l) => k = l
  BY <1>1, <1>3, <1>5, OneSpelling
<1> HIDE DEF named, folded, declared, read_columns
<1>13. /\ \A c : plain(c).name = t.schema[c].name /\ plain(c).column = c /\ plain(c).id = NoKey /\ plain(c).physical = NoName
       /\ \A k : part(k).name = k /\ part(k).column = named(k) /\ part(k).id = NoKey /\ part(k).physical = NoName
  BY DEF Field
<1>14. (\A c : plain(c).nullable) /\ (\A k : part(k).nullable)
  BY DEF Field
<1> HIDE DEF plain, part
<1>15. \A c \in read_columns : t.schema[c].name \notin declared
  BY <1>5, <1>11 DEF KeyOf
<1>16. FieldsBound(n, t)
  <2>1. ASSUME NEW d \in n.fields
        PROVE  \/ \E c \in read_columns : d = plain(c)
               \/ \E k \in declared : d = part(k)
    BY <1>2
  <2>2. \A c, x \in read_columns : t.schema[c].name = t.schema[x].name => c = x
    BY <1>9, <1>11 DEF KeyOf
  <2>3. \A k, l \in declared : named(k) = named(l) => k = l
    BY <1>10, <1>12
  <2>4. \A d \in n.fields : d.column \in S
    BY <1>9, <1>10, <1>11, <1>13, <2>1
  <2>5. ASSUME NEW d \in n.fields, NEW e \in n.fields, d.name = e.name \/ d.column = e.column PROVE d = e
    <3>1. CASE \E c \in read_columns : d = plain(c)
      BY <1>10, <1>11, <1>13, <1>15, <2>1, <2>2, <2>5, <3>1
    <3>2. CASE \E k \in declared : d = part(k)
      BY <1>10, <1>11, <1>13, <1>15, <2>1, <2>3, <2>5, <3>2
    <3> QED
      BY <2>1, <3>1, <3>2
  <2> QED
    BY <2>4, <2>5 DEF FieldsBound
<1>17. ToSet(n.parts) = declared
  BY <1>2, <1>5, SetListed
<1>18. BoundPlain(n, t)
  <2>1. ASSUME NEW c \in read_columns
        PROVE  LET d == plain(c)
               IN  /\ d.id = NoKey /\ d.physical = NoName /\ d.nullable
                   /\ Upper(d.name) = KeyOf(t, d.column)
                   /\ d.column \in ToSet(t.parts) <=> d.name \in ToSet(n.parts)
                   /\ d.column \notin ToSet(t.parts) => d.name = t.schema[d.column].physical
    <3>1. Upper(t.schema[c].name) = KeyOf(t, c) /\ t.schema[c].physical = t.schema[c].name
      BY <1>9, <1>11 DEF KeyOf
    <3> QED
      BY <1>11, <1>13, <1>14, <1>15, <1>17, <3>1, Zenon
  <2>2. ASSUME NEW k \in declared
        PROVE  LET d == part(k)
               IN  /\ d.id = NoKey /\ d.physical = NoName /\ d.nullable
                   /\ Upper(d.name) = KeyOf(t, d.column)
                   /\ d.column \in ToSet(t.parts) <=> d.name \in ToSet(n.parts)
                   /\ d.column \notin ToSet(t.parts) => d.name = t.schema[d.column].physical
    BY <1>10, <1>13, <1>14, <1>17, Zenon
  <2>3. declared \subseteq Names(n)
    BY <1>2, <1>13 DEF Names
  <2> QED
    BY <1>2, <1>17, <2>1, <2>2, <2>3 DEF BoundPlain
<1> QED
  BY <1>16, <1>18, FormatsApart DEF BoundTo, n

\* Whatever is declared of a table is bound to it.
LEMMA DeclaresBound ==
  ASSUME NEW t, Consistent(t), declared_schema(t) # None
  PROVE  BoundTo(declared_schema(t)[1], t)
<1>1. CASE t.format = "iceberg"
  BY <1>1, IcebergDeclares DEF declared_schema, Some
<1>2. CASE t.format = "direct"
  BY <1>2, DirectoryDeclares DEF declared_schema
<1>3. CASE t.format \notin {"iceberg", "direct"}
  BY <1>3, CatalogDeclares DEF declared_schema, Some
<1> QED
  BY <1>1, <1>2, <1>3

\* A Glue table whose files are listed anew stays consistent, and its declared fields bound.
LEMMA RelistedGlue ==
  ASSUME NEW t, NEW s, Consistent(t), Consistent(s), t.format = "glue", s.format = "glue"
  PROVE  LET u == [t EXCEPT !.log = s.log]
         IN  /\ Consistent(u) /\ u.format = "glue"
             /\ \A n : BoundTo(n, t) => BoundTo(n, u)
<1> DEFINE u == [t EXCEPT !.log = s.log]
<1>1. /\ DOMAIN u = DOMAIN t /\ u.format = t.format /\ u.mode = t.mode /\ u.schema = t.schema
      /\ u.parts = t.parts /\ u.registered = t.registered /\ u.log = s.log
  BY DEF Consistent
<1> HIDE DEF u
<1>2. SchemaOK(u) /\ RegisteredOK(u)
  BY <1>1 DEF Consistent, SchemaOK, KeyOf, Plain, RegisteredOK
<1>3. \A f : FileOK(s, f) => FileOK(u, f)
  BY <1>1 DEF FileOK, Plain
<1>4. Consistent(u)
  BY <1>1, <1>2, <1>3 DEF Consistent
<1>5. \A n : BoundTo(n, t) => BoundTo(n, u)
  BY <1>1 DEF BoundTo, FieldsBound, BoundPlain, Plain, KeyOf
<1> QED
  BY <1>1, <1>4, <1>5 DEF u

\* Some is an option with one element.
LEMMA SomeIs ==
  ASSUME NEW x
  PROVE  Some(x) # None /\ Some(x)[1] = x
BY DEF Some, None

\* A source that is well formed and not yet declared meets the invariant.
LEMMA InitEstablishes == Init => IInv
<1> SUFFICES ASSUME Init PROVE IInv
  OBVIOUS
<1>1. WellFormed(source)
  BY SourcesAssumption DEF Init
<1> QED
  BY <1>1 DEF Init, IInv, NotesInv, LoadedInv, PlannedInv

\* Every action keeps the invariant.
LEMMA StepKeeps == IInv /\ [Next]_vars => IInv'
<1> SUFFICES ASSUME IInv, [Next]_vars PROVE IInv'
  OBVIOUS
<1>1. CASE Commit
  <2>1. WellFormed(source') /\ Evolves(source, source') /\ planned = None /\ UNCHANGED <<notes, loaded, planned>>
    BY <1>1 DEF Commit
  <2>2. Consistent(source) /\ Consistent(source')
    BY <2>1 DEF IInv, WellFormed
  <2>3. NotesInv'
    BY <2>1, <2>2, EvolutionKeepsBound DEF IInv, NotesInv
  <2>4. source'.format = source.format
    BY <2>1 DEF Evolves
  <2>5. LoadedInv'
    BY <2>1, <2>4 DEF IInv, LoadedInv
  <2>6. PlannedInv'
    BY <2>1 DEF PlannedInv
  <2> QED
    BY <2>1, <2>3, <2>5, <2>6 DEF IInv
<1>2. CASE Declare
  <2>1. loaded = None /\ planned = None /\ UNCHANGED <<source, loaded, planned>>
    BY <1>2 DEF Declare, IInv, PlannedInv
  <2>2. Consistent(source)
    BY DEF IInv, WellFormed
  <2>3. NotesInv'
    <3>1. CASE declared_schema(source) = None
      BY <1>2, <2>1, <3>1 DEF Declare, IInv, NotesInv
    <3>2. CASE declared_schema(source) # None
      BY <1>2, <2>1, <2>2, <3>2, DeclaresBound DEF Declare, NotesInv
    <3> QED
      BY <3>1, <3>2
  <2>4. LoadedInv' /\ PlannedInv'
    BY <2>1 DEF LoadedInv, PlannedInv
  <2> QED
    BY <2>1, <2>3, <2>4 DEF IInv
<1>3. CASE Open
  <2> DEFINE ready == ensure_scannable(notes[1]) /\ opens(source)
  <2>1. loaded' = Some([table |-> source, opened |-> ready]) /\ notes # None /\ loaded = None
        /\ UNCHANGED <<source, notes, planned>>
    BY <1>3 DEF Open
  <2>2. loaded'[1].table = source /\ loaded'[1].opened = ready
    <3> DEFINE r == [table |-> source, opened |-> ready]
    <3>1. loaded'[1] = r
      BY <2>1 DEF Some
    <3>2. r.table = source
      OBVIOUS
    <3>3. r.opened = ready
      BY Zenon
    <3> HIDE DEF r
    <3> QED
      BY <3>1, <3>2, <3>3, Zenon
  <2>3. LoadedInv'
    <3>1. /\ notes' # None
          /\ WellFormed(loaded'[1].table)
          /\ BoundTo(notes'[1], loaded'[1].table)
          /\ loaded'[1].table.format = source'.format
      BY <2>1, <2>2 DEF IInv, NotesInv
    <3>2. loaded'[1].opened <=> ensure_scannable(notes'[1]) /\ opens(loaded'[1].table)
      BY <2>1, <2>2, Zenon
    <3> QED
      BY <3>1, <3>2, Zenon DEF LoadedInv
  <2>4. NotesInv' /\ PlannedInv' /\ WellFormed(source')
    BY <2>1 DEF IInv, NotesInv, PlannedInv
  <2> QED
    BY <2>3, <2>4 DEF IInv
<1>4. CASE Prune
  <2> DEFINE old == loaded[1].table
             t == IF old.format = "glue" THEN [old EXCEPT !.log = source.log] ELSE old
  <2>1. /\ loaded # None /\ loaded[1].opened /\ UNCHANGED <<source, notes, loaded, commits>>
        /\ \E filter \in {None} \cup {Some(f) : f \in {g \in Filters : ColumnsOf(g) \subseteq Names(notes[1])}} :
             planned' = Some([table |-> t, filter |-> filter, files |-> prune(t, notes[1], filter)])
    BY <1>4 DEF Prune
  <2>2. /\ WellFormed(old) /\ BoundTo(notes[1], old) /\ old.format = source.format /\ notes # None
        /\ ensure_scannable(notes[1])
    BY <2>1 DEF IInv, LoadedInv
  <2>3. Consistent(t) /\ BoundTo(notes[1], t) /\ (t.format # "glue" => WellFormed(t))
    <3>1. CASE old.format = "glue"
      <4>1. Consistent(old) /\ Consistent(source) /\ source.format = "glue"
        BY <2>2, <3>1 DEF IInv, WellFormed
      <4> HIDE DEF old
      <4> QED
        BY <2>2, <3>1, <4>1, RelistedGlue
    <3>2. CASE old.format # "glue"
      BY <2>2, <3>2 DEF WellFormed
    <3> QED
      BY <3>1, <3>2
  <2> HIDE DEF t, old
  <2>4. PICK filter \in {None} \cup {Some(f) : f \in {g \in Filters : ColumnsOf(g) \subseteq Names(notes[1])}} :
          planned' = Some([table |-> t, filter |-> filter, files |-> prune(t, notes[1], filter)])
    BY <2>1
  <2>5. FilterOf(filter, notes[1])
    BY SomeIs DEF FilterOf
  <2>6. planned'[1].table = t /\ planned'[1].filter = filter /\ planned'[1].files = prune(t, notes[1], filter)
    BY <2>4, SomeIs
  <2>7. PlannedInv'
    BY <2>1, <2>2, <2>3, <2>5, <2>6 DEF PlannedInv, PrunedTable
  <2>8. WellFormed(source') /\ NotesInv' /\ LoadedInv'
    BY <2>1 DEF IInv, NotesInv, LoadedInv
  <2> QED
    BY <2>7, <2>8 DEF IInv
<1>5. CASE EndReference
  BY <1>5 DEF EndReference, IInv, NotesInv, LoadedInv, PlannedInv
<1>6. CASE EndStatement
  BY <1>6 DEF EndStatement, IInv, NotesInv, LoadedInv, PlannedInv
<1>7. CASE UNCHANGED vars
  BY <1>7 DEF vars, IInv, NotesInv, LoadedInv, PlannedInv, PrunedTable
<1> QED
  BY <1>1, <1>2, <1>3, <1>4, <1>5, <1>6, <1>7 DEF Next

\* The invariant holds in every reachable state.
LEMMA Invariance == Spec => []IInv
BY InitEstablishes, StepKeeps, PTL DEF Spec

-----------------------------------------------------------------------------
(* What a prune plans                                                      *)

\* The files a table consists of.
FilesOf(t) ==
    IF t.format = "glue"
    THEN {f \in Live(t.log) : f.kind \notin {"hidden", "empty"} /\ \E p \in t.registered : p.location = f.dir}
    ELSE IF t.format \in {"unity", "direct"} THEN Listed(t) ELSE Live(t.log)

\* The partition values that a prune gives a file of it.
RegisteredAs(t, f) == CHOOSE p \in t.registered : p.location = f.dir
RegisteredValues(t, n, f) == [x \in ToSet(n.parts) |-> RegisteredAs(t, f).value]
SegmentValues(n, f) == [x \in ToSet(n.parts) |-> SegmentValue(f, x)]
PartsOf(t, n, f) ==
    CASE t.format = "iceberg" -> identity_partition_values(t, f, n)
      [] t.format = "delta"   -> logged_values(t, n, f)
      [] t.format = "glue"    -> RegisteredValues(t, n, f)
      [] OTHER                -> SegmentValues(n, f)

\* The files that a filter leaves of it.
IcebergPredicate(t, n, filter) ==
    IF filter = None \/ t.log = <<>> THEN None ELSE to_iceberg_predicate(filter[1], iceberg_columns(t, n))
DeltaPredicate(t, n, filter) ==
    IF filter = None THEN None ELSE to_delta_predicate(filter[1], delta_columns(t, n))
Tasks(t, predicate) ==
    {f \in Live(t.log) :
        predicate = None \/ MightHold(predicate[1], [c \in DOMAIN t.schema |-> StatsOf(f, c)])}
DeclaredTypes(t, n) == IF t.format = "direct" THEN <<>> ELSE partition_column_types(n)
PickedFiles(t, n, filter) ==
    CASE t.format = "iceberg" -> Tasks(t, IcebergPredicate(t, n, filter))
      [] t.format = "delta"   -> Shown(t.log, DeltaPredicate(t, n, filter), t)
      [] t.format = "glue"    -> {f \in FilesOf(t) : keeps(filter, partition_column_types(n), RegisteredValues(t, n, f))}
      [] OTHER                -> {f \in Listed(t) : keeps(filter, DeclaredTypes(t, n), SegmentValues(n, f))}

EntryOf(t, n, f) == [path |-> f.path, deletes |-> f.deletes, parts |-> PartsOf(t, n, f)]

\* q lists the entries of the files of S, each once.
PlanOf(q, S, t, n) ==
    /\ DistinctPaths(q)
    /\ \A i \in DOMAIN q : \E f \in S : q[i] = EntryOf(t, n, f)
    /\ \A f \in S : \E i \in DOMAIN q : q[i] = EntryOf(t, n, f)

\* The entries of listed files.
LEMMA FilesPlanned ==
  ASSUME NEW s, DistinctPaths(s), NEW t, NEW n
  PROVE  PlanOf([i \in DOMAIN s |-> EntryOf(t, n, s[i])], ToSet(s), t, n)
<1> DEFINE q == [i \in DOMAIN s |-> EntryOf(t, n, s[i])]
<1>1. DOMAIN q = DOMAIN s /\ \A i \in DOMAIN s : q[i] = EntryOf(t, n, s[i]) /\ s[i] \in ToSet(s)
  BY DEF ToSet
<1>2. \A f \in ToSet(s) : \E i \in DOMAIN s : f = s[i]
  BY DEF ToSet
<1>3. \A f : EntryOf(t, n, f).path = f.path
  BY DEF EntryOf
<1> HIDE DEF q
<1>4. DistinctPaths(q)
  BY <1>1, <1>3 DEF DistinctPaths
<1> QED
  BY <1>1, <1>2, <1>4 DEF PlanOf, q

\* IcebergTable::prune: a plan that is not refused lists an entry for each chosen file.
LEMMA IcebergPlanned ==
  ASSUME NEW t, Consistent(t), t.format = "iceberg", NEW n, NEW filter, prune_iceberg(t, n, filter) # None
  PROVE  PlanOf(prune_iceberg(t, n, filter)[1], PickedFiles(t, n, filter), t, n)
<1> DEFINE S == PickedFiles(t, n, filter)
           tasks == ByPath(S)
           q == [i \in DOMAIN tasks |-> EntryOf(t, n, tasks[i])]
<1>1. S = Tasks(t, IcebergPredicate(t, n, filter)) /\ S \in SUBSET Live(t.log)
  BY DEF PickedFiles, Tasks
<1>2. plan_file_tasks(t, IcebergPredicate(t, n, filter)) = tasks
  BY <1>1 DEF plan_file_tasks, Tasks
<1>3. \A i : [path |-> tasks[i].path, deletes |-> tasks[i].deletes,
              parts |-> identity_partition_values(t, tasks[i], n)] = EntryOf(t, n, tasks[i])
  BY DEF EntryOf, PartsOf
<1>4. prune_iceberg(t, n, filter) \in {None, Some(q)}
  <2> HIDE DEF tasks
  <2> QED
    BY <1>2, <1>3 DEF prune_iceberg, IcebergPredicate
<1>5. DistinctPaths(tasks) /\ ToSet(tasks) = S
  BY <1>1, ConsistentLog, LiveByPath
<1> HIDE DEF S, tasks
<1>6. PlanOf(q, S, t, n)
  BY <1>5, FilesPlanned
<1> HIDE DEF q
<1> QED
  BY <1>4, <1>6, SomeIs DEF S

\* DeltaTable::prune: a plan that is not refused lists an entry for each chosen file.
LEMMA DeltaPlanned ==
  ASSUME NEW t, Consistent(t), t.format = "delta", NEW n, NEW filter, prune_delta(t, n, filter) # None
  PROVE  PlanOf(prune_delta(t, n, filter)[1], PickedFiles(t, n, filter), t, n)
<1> DEFINE S == PickedFiles(t, n, filter)
           files == ByPath(S)
           q == [i \in DOMAIN files |-> EntryOf(t, n, files[i])]
<1>1. S = Shown(t.log, DeltaPredicate(t, n, filter), t) /\ S \in SUBSET Live(t.log)
  BY DEF PickedFiles, Shown
<1>2. IsLog(t.log) /\ DeltaLogOK(t.log) /\ \A i \in DOMAIN t.log : t.log[i].op \in {"add", "remove"}
  <2>1. IsLog(t.log)
    BY ConsistentLog
  <2>2. DeltaLogOK(t.log)
    BY DEF Consistent
  <2>3. \A i \in DOMAIN t.log : t.log[i].op \in {"add", "remove"}
    <3> DEFINE F == {t.log[i].file : i \in DOMAIN t.log}
               K == {t.log[i].key : i \in DOMAIN t.log}
    <3>1. t.log \in Seq([op : {"add", "remove"}, file : F, key : K])
      BY DEF Consistent
    <3> HIDE DEF F, K
    <3> DEFINE R == [op : {"add", "remove"}, file : F, key : K]
    <3>2. \A r \in R : r.op \in {"add", "remove"}
      OBVIOUS
    <3>3. t.log \in Seq(R)
      BY <3>1
    <3> HIDE DEF R
    <3>4. \A i \in DOMAIN t.log : t.log[i] \in R
      BY <3>3
    <3> QED
      BY <3>2, <3>4
  <2> QED
    BY <2>1, <2>2, <2>3
<1>3. active_files(t, DeltaPredicate(t, n, filter)) = files
  BY <1>1, <1>2, ReplayShows
<1>4. \A i : [path |-> files[i].path, deletes |-> files[i].deletes,
              parts |-> logged_values(t, n, files[i])] = EntryOf(t, n, files[i])
  BY DEF EntryOf, PartsOf
<1>5. prune_delta(t, n, filter) \in {None, Some(q)}
  <2> HIDE DEF files
  <2> QED
    BY <1>3, <1>4 DEF prune_delta, DeltaPredicate
<1>6. DistinctPaths(files) /\ ToSet(files) = S
  BY <1>1, <1>2, LiveByPath
<1> HIDE DEF S, files
<1>7. PlanOf(q, S, t, n)
  BY <1>6, FilesPlanned
<1> HIDE DEF q
<1> QED
  BY <1>5, <1>7, SomeIs DEF S

\* A directory's files are the ones whose path's values the filter keeps.
LEMMA DirectoryPlanned ==
  ASSUME NEW t, Consistent(t), t.format \in {"unity", "direct"}, NEW n, NEW filter, prune_directory(t, n, filter) # None
  PROVE  PlanOf(prune_directory(t, n, filter)[1], PickedFiles(t, n, filter), t, n)
<1> DEFINE S == PickedFiles(t, n, filter)
           files == list_location_files(t.log, AnyDepth)
           kept == Selected(files, {f \in ToSet(files) : keeps(filter, DeclaredTypes(t, n), SegmentValues(n, f))})
           q == [i \in DOMAIN kept |-> EntryOf(t, n, kept[i])]
<1>1. files \in Seq(Listed(t)) /\ ToSet(files) = Listed(t) /\ DistinctPaths(files) /\ \A f \in Live(t.log) : FileOK(t, f)
  BY ConsistentLog, DirectoryListed, LocationFiles
<1>2. S = {f \in ToSet(files) : keeps(filter, DeclaredTypes(t, n), SegmentValues(n, f))} /\ S \subseteq Listed(t)
  BY <1>1 DEF PickedFiles
<1> HIDE DEF files
<1>3. DistinctPaths(kept) /\ kept \in Seq(Listed(t)) /\ ToSet(kept) = S
  <2>1. kept = Selected(files, S)
    BY <1>2
  <2>2. DistinctPaths(Selected(files, S))
    BY <1>1, SelectedDistinct
  <2> HIDE DEF S, kept
  <2>3. Selected(files, S) \in Seq(Listed(t)) /\ ToSet(Selected(files, S)) = ToSet(files) \cap S
    <3> DEFINE k == Selected(files, S)
    <3>1. /\ k \in Seq(Listed(t))
          /\ \A i \in DOMAIN k : k[i] \in S /\ \E j \in DOMAIN files : files[j] = k[i]
          /\ \A j \in DOMAIN files : files[j] \in S => \E i \in DOMAIN k : k[i] = files[j]
      BY <1>1, SelectedElements
    <3> HIDE DEF k
    <3>2. k \in Seq(Listed(t)) /\ ToSet(k) = ToSet(files) \cap S
      BY <3>1 DEF ToSet
    <3> QED
      BY <3>2 DEF k
  <2> QED
    BY <1>1, <1>2, <2>1, <2>2, <2>3
<1>4. prune_directory(t, n, filter) \in {None, Some([i \in DOMAIN kept |->
            [path |-> kept[i].path, deletes |-> {}, parts |-> SegmentValues(n, kept[i])]])}
  BY DEF prune_directory, kept_files, SegmentValues, DeclaredTypes, files
<1> HIDE DEF kept, S
<1>5. \A i \in DOMAIN kept :
        [path |-> kept[i].path, deletes |-> {}, parts |-> SegmentValues(n, kept[i])] = EntryOf(t, n, kept[i])
  <2>1. \A i \in DOMAIN kept : kept[i].deletes = {}
    <3>1. \A i \in DOMAIN kept : kept[i] \in Listed(t)
      BY <1>3
    <3>2. \A f \in Listed(t) : f \in Live(t.log)
      BY DEF Listed
    <3>3. \A f \in Live(t.log) : f.deletes = {}
      BY <1>1 DEF FileOK, Plain
    <3> QED
      BY <3>1, <3>2, <3>3
  <2> QED
    BY <2>1 DEF EntryOf, PartsOf
<1>6. prune_directory(t, n, filter) \in {None, Some(q)}
  BY <1>4, <1>5
<1>7. PlanOf(q, S, t, n)
  BY <1>3, FilesPlanned
<1> HIDE DEF q
<1> QED
  BY <1>6, <1>7, SomeIs DEF S

\* A location is registered once.
LEMMA RegisteredOnce ==
  ASSUME NEW t, Consistent(t), NEW f, NEW p \in t.registered, p.location = f.dir
  PROVE  RegisteredAs(t, f) = p
<1>1. \A x \in t.registered : x.location = f.dir <=> x = p
  BY DEF Consistent, RegisteredOK
<1> QED
  BY <1>1 DEF RegisteredAs

\* A Glue table's files are the ones of the partitions that the filter keeps.
LEMMA GluePlanned ==
  ASSUME NEW t, Consistent(t), t.format = "glue", NEW n, NEW filter, plan_glue_partitions(t, n, filter) # None
  PROVE  PlanOf(plan_glue_partitions(t, n, filter)[1], PickedFiles(t, n, filter), t, n)
<1> DEFINE S == PickedFiles(t, n, filter)
           values(p) == [x \in ToSet(n.parts) |-> p.value]
           kept == {p \in t.registered : keeps(filter, partition_column_types(n), values(p))}
           entries(p) == {[path |-> f.path, deletes |-> {}, parts |-> values(p)] :
                             f \in ToSet(list_location_files(t.log, p.location))}
           E == UNION {entries(p) : p \in kept}
           e == [f \in S |-> EntryOf(t, n, f)]
<1>1. plan_glue_partitions(t, n, filter) \in {None, Some(ByPath(E))}
  BY DEF plan_glue_partitions
<1>2. IsLog(t.log) /\ (\A f \in Live(t.log) : FileOK(t, f) /\ f.path \in Int /\ f.deletes = {}) /\ IsFiniteSet(Live(t.log))
      /\ \A f, g \in Live(t.log) : f.path = g.path => f = g
  <2>1. \A f \in Live(t.log) : FileOK(t, f)
    BY DirectoryListed
  <2> QED
    BY <2>1, ConsistentLog, LiveListed DEF FileOK, Plain
<1>3. ASSUME NEW p \in t.registered
      PROVE  ToSet(list_location_files(t.log, p.location))
             = {f \in Live(t.log) : f.kind \notin {"hidden", "empty"} /\ f.dir = p.location}
  <2>1. p.location # AnyDepth
    BY DEF Consistent, RegisteredOK
  <2> QED
    <3>1. ToSet(list_location_files(t.log, p.location)) = DataFiles(t.log, p.location)
      BY <1>2, LocationFiles
    <3> QED
      BY <2>1, <3>1 DEF DataFiles
<1>4. S = {f \in FilesOf(t) : keeps(filter, partition_column_types(n), RegisteredValues(t, n, f))}
  BY DEF PickedFiles
<1>5. ASSUME NEW f \in Live(t.log), NEW p \in t.registered, p.location = f.dir
      PROVE  RegisteredValues(t, n, f) = values(p) /\ EntryOf(t, n, f) = [path |-> f.path, deletes |-> {}, parts |-> values(p)]
  <2>1. RegisteredValues(t, n, f) = values(p)
    BY <1>5, RegisteredOnce DEF RegisteredValues
  <2>2. f.deletes = {}
    BY <1>2
  <2> HIDE DEF values
  <2> QED
    BY <2>1, <2>2 DEF EntryOf, PartsOf
<1> HIDE DEF values
<1>6. ASSUME NEW f \in S PROVE f \in Live(t.log) /\ EntryOf(t, n, f) \in E
  <2>1. f \in Live(t.log) /\ f.kind \notin {"hidden", "empty"} /\ keeps(filter, partition_column_types(n), RegisteredValues(t, n, f))
    BY <1>4 DEF FilesOf
  <2>2. PICK p \in t.registered : p.location = f.dir
    BY <1>4 DEF FilesOf
  <2>3. p \in kept
    BY <1>5, <2>1, <2>2
  <2>4. f \in ToSet(list_location_files(t.log, p.location))
    BY <1>3, <2>1, <2>2
  <2> QED
    BY <1>5, <2>1, <2>2, <2>3, <2>4
<1>7. ASSUME NEW x \in E PROVE \E f \in S : x = EntryOf(t, n, f)
  <2>1. PICK p \in kept : x \in entries(p)
    BY <1>7
  <2>2. PICK f \in ToSet(list_location_files(t.log, p.location)) :
          x = [path |-> f.path, deletes |-> {}, parts |-> values(p)]
    BY <2>1
  <2>3. f \in Live(t.log) /\ f.kind \notin {"hidden", "empty"} /\ f.dir = p.location
    BY <1>3
  <2>4. RegisteredValues(t, n, f) = values(p) /\ x = EntryOf(t, n, f)
    BY <1>5, <2>2, <2>3
  <2>5. f \in S
    BY <1>4, <2>3, <2>4 DEF FilesOf
  <2> QED
    BY <2>4, <2>5
<1> HIDE DEF S, E
<1>8. E = {e[f] : f \in S} /\ DOMAIN e = S
  BY <1>6, <1>7
<1>9. IsFiniteSet(E)
  <2>1. IsFiniteSet(S)
    BY <1>2, <1>6, FS_Subset
  <2> HIDE DEF e
  <2> QED
    BY <1>8, <2>1, FiniteImage
<1>10. \A f : EntryOf(t, n, f).path = f.path
  BY DEF EntryOf
<1>11. \A x \in E : x.path \in Int
  BY <1>2, <1>6, <1>7, <1>10
<1> DEFINE q == ByPath(E)
<1>12. q \in Seq(E) /\ IsInjective(q) /\ ToSet(q) = E
  BY <1>9, <1>11, ByPathLists
<1> HIDE DEF q
<1>13. DistinctPaths(q)
  <2>1. ASSUME NEW i \in DOMAIN q, NEW j \in DOMAIN q, q[i].path = q[j].path PROVE i = j
    <3>1. PICK f \in S : q[i] = EntryOf(t, n, f)
      BY <1>7, <1>12
    <3>2. PICK g \in S : q[j] = EntryOf(t, n, g)
      BY <1>7, <1>12
    <3>3. f = g
      BY <1>2, <1>6, <1>10, <2>1, <3>1, <3>2
    <3> QED
      BY <1>12, <3>1, <3>2, <3>3 DEF IsInjective
  <2> QED
    BY <2>1 DEF DistinctPaths
<1>14. PlanOf(q, S, t, n)
  <2>1. \A i \in DOMAIN q : q[i] \in E
    BY <1>12
  <2>2. \A x \in E : \E i \in DOMAIN q : q[i] = x
    BY <1>12 DEF ToSet
  <2> QED
    BY <1>6, <1>7, <1>13, <2>1, <2>2 DEF PlanOf
<1> QED
  BY <1>1, <1>14, SomeIs DEF S, q

\* An answered prune plans the chosen files, each once.
LEMMA PrunePlans ==
  ASSUME NEW t, Consistent(t), NEW n, NEW filter, prune(t, n, filter) # None
  PROVE  PlanOf(prune(t, n, filter)[1], PickedFiles(t, n, filter), t, n)
<1>1. CASE t.format = "iceberg"
  BY <1>1, IcebergPlanned DEF prune
<1>2. CASE t.format = "delta"
  BY <1>2, DeltaPlanned DEF prune
<1>3. CASE t.format = "glue"
  BY <1>3, GluePlanned DEF prune
<1>4. CASE t.format \in {"unity", "direct"}
  BY <1>4, DirectoryPlanned DEF prune
<1> QED
  BY <1>1, <1>2, <1>3, <1>4 DEF Consistent, Formats

\* What is planned is a plan of the chosen files.
LEMMA EntriesPlanned ==
  ASSUME IInv, Answered
  PROVE  /\ Consistent(PrunedTable) /\ BoundTo(notes[1], PrunedTable)
         /\ FilterOf(planned[1].filter, notes[1])
         /\ PlanOf(Entries, PickedFiles(PrunedTable, notes[1], planned[1].filter), PrunedTable, notes[1])
<1>1. /\ Consistent(PrunedTable) /\ BoundTo(notes[1], PrunedTable)
      /\ FilterOf(planned[1].filter, notes[1])
      /\ planned[1].files = prune(PrunedTable, notes[1], planned[1].filter)
  BY DEF IInv, PlannedInv, Answered
<1>2. PlanOf(planned[1].files[1], PickedFiles(PrunedTable, notes[1], planned[1].filter), PrunedTable, notes[1])
  BY <1>1, PrunePlans DEF Answered
<1> QED
  BY <1>1, <1>2 DEF Entries

\* No reference plans a file twice, whatever was added again, and wherever Glue's locations lie.
THEOREM PlansOnce == Spec => []EachFilePlannedOnce
<1>1. IInv => EachFilePlannedOnce
  <2> SUFFICES ASSUME IInv, Answered PROVE IsInjective([i \in DOMAIN Entries |-> Entries[i].path])
    BY DEF EachFilePlannedOnce
  <2>1. DistinctPaths(Entries)
    BY EntriesPlanned DEF PlanOf
  <2> QED
    BY <2>1 DEF DistinctPaths, IsInjective
<1> QED
  BY <1>1, Invariance, PTL

\* The refusals of a filtered prune are refusals of the unfiltered one, and the same ones where every
\* file is checked.
LEMMA FilterRefusesNothing ==
  ASSUME NEW t, Consistent(t), NEW n, NEW filter
  PROVE  /\ prune(t, n, None) # None => prune(t, n, filter) # None
         /\ t.format \notin {"iceberg", "glue"} /\ prune(t, n, filter) # None => prune(t, n, None) # None
<1>1. CASE t.format = "iceberg"
  <2> DEFINE all == plan_file_tasks(t, None)
             some == plan_file_tasks(t, IcebergPredicate(t, n, filter))
  <2>1. ToSet(all) = Live(t.log) /\ ToSet(some) \subseteq Live(t.log)
    <3>1. all = ByPath(Tasks(t, None)) /\ some = ByPath(Tasks(t, IcebergPredicate(t, n, filter)))
      BY DEF plan_file_tasks, Tasks
    <3>2. Tasks(t, None) = Live(t.log) /\ \A predicate : Tasks(t, predicate) \in SUBSET Live(t.log)
      BY DEF Tasks
    <3> HIDE DEF all, some
    <3> QED
      BY <3>1, <3>2, ConsistentLog, LiveByPath
  <2> HIDE DEF all, some
  <2>2. ASSUME NEW i \in DOMAIN some PROVE \E j \in DOMAIN all : all[j] = some[i]
    BY <2>1 DEF ToSet
  <2>3. prune(t, n, None) # None => ~refuse_relaxed_nullability(t, n) /\ \A i \in DOMAIN all : classify_planned_file(all[i])
    BY <1>1 DEF prune, prune_iceberg, all
  <2>4. ~refuse_relaxed_nullability(t, n) /\ (\A i \in DOMAIN some : classify_planned_file(some[i]))
          => prune(t, n, filter) # None
    BY <1>1 DEF prune, prune_iceberg, some, IcebergPredicate, Some, None
  <2> QED
    BY <1>1, <2>2, <2>3, <2>4
<1>2. CASE t.format = "glue"
  <2>1. prune(t, n, None) # None => \A p \in t.registered : p.parquet /\ p.own_bucket
    BY <1>2 DEF prune, plan_glue_partitions, keeps
  <2>2. (\A p \in t.registered : p.parquet /\ p.own_bucket) => prune(t, n, filter) # None
    BY <1>2 DEF prune, plan_glue_partitions, Some, None
  <2> QED
    BY <1>2, <2>1, <2>2
<1>3. CASE t.format = "delta"
  <2>1. \A x : prune(t, n, x) # None <=> /\ ensure_binding_keys_follow_mode(n, t.mode)
                                         /\ checked_partition_fields(t, n)
                                         /\ ensure_no_relaxed_nullability(t, n)
    BY <1>3 DEF prune, prune_delta, Some, None
  <2> QED
    BY <2>1
<1>4. CASE t.format \in {"unity", "direct"}
  <2>1. \A x : prune(t, n, x) # None
                 <=> ensure_one_spelling_per_declared_key(list_location_files(t.log, AnyDepth), ToSet(n.parts))
    BY <1>4 DEF prune, prune_directory, kept_files, Some, None
  <2> QED
    BY <2>1
<1> QED
  BY <1>1, <1>2, <1>3, <1>4 DEF Consistent, Formats

\* Whether a declaration is refused never depends on the filter.
THEOREM RefusesAlike == Spec => []RefusalIgnoresFilter
<1>1. IInv => RefusalIgnoresFilter
  <2> SUFFICES ASSUME IInv, planned # None
               PROVE  LET unfiltered == prune(PrunedTable, notes[1], None)
                      IN  IF PrunedTable.format \in {"iceberg", "glue"} THEN unfiltered # None => Answered
                          ELSE Answered <=> unfiltered # None
    BY DEF RefusalIgnoresFilter
  <2>1. Consistent(PrunedTable) /\ planned[1].files = prune(PrunedTable, notes[1], planned[1].filter)
    BY DEF IInv, PlannedInv
  <2> QED
    BY <2>1, FilterRefusesNothing DEF Answered
<1> QED
  BY <1>1, Invariance, PTL

-----------------------------------------------------------------------------
(* A declaration that is not stale is served                               *)

\* A Delta declaration whose keys follow the mode finds each field's own column.
LEMMA SnapshotColumn ==
  ASSUME NEW t, Consistent(t), t.format = "delta", NEW n, BoundTo(n, t),
         ensure_binding_keys_follow_mode(n, t.mode), NEW d \in n.fields
  PROVE  snapshot_field(t.schema, d) = {d.column} /\ d.column \in DOMAIN t.schema
<1> DEFINE S == DOMAIN t.schema
<1>1. d.column \in S /\ BoundDelta(n, t)
  BY DEF BoundTo, FieldsBound
<1>2. /\ d.id \in {NoKey, d.column}
      /\ d.physical \in {NoName, t.schema[d.column].physical}
      /\ d.id = NoKey /\ d.physical = NoName => d.name = t.schema[d.column].physical
  BY <1>1 DEF BoundDelta
<1>3. (d.id # NoKey) = (t.mode = "id") /\ (d.physical # NoName) = (t.mode = "name")
  BY DEF ensure_binding_keys_follow_mode
<1>4. /\ \A c, x \in S : c # x => Upper(t.schema[c].name) # Upper(t.schema[x].name)
      /\ \A c, x \in S : c # x => t.schema[c].physical # t.schema[x].physical
      /\ \A c \in S : t.mode = "none" => t.schema[c].physical = t.schema[c].name
      /\ t.mode \in {"none", "id", "name"}
  BY DEF Consistent, SchemaOK, KeyOf
<1>5. CASE t.mode = "id"
  BY <1>1, <1>2, <1>3, <1>5 DEF snapshot_field
<1>6. CASE t.mode = "name"
  BY <1>1, <1>2, <1>3, <1>4, <1>6 DEF snapshot_field
<1>7. CASE t.mode = "none"
  BY <1>1, <1>2, <1>3, <1>4, <1>7 DEF snapshot_field
<1> QED
  BY <1>1, <1>4, <1>5, <1>6, <1>7

\* What a declaration refuses of a table, and what this engine can read.
Refused(t, c) == IF t.format \in {"iceberg", "direct"} THEN t.schema[c].type = "variant"
                 ELSE walk_field(t.schema[c], t.mode) # "mapped"
Readable(t) ==
    /\ t.located /\ ensure_readable(t.protocol)
    /\ \A f \in Live(t.log) : f.kind # "orc" /\ \A d \in f.deletes : d.kind # "equality"
    /\ \A p \in t.registered : p.parquet /\ p.own_bucket
    /\ \A c \in DOMAIN t.schema : t.schema[c].was = {}
    /\ "P" \notin UNION {SegmentKeys(f) : f \in Live(t.log)}
    /\ IF t.format = "direct" THEN \A f \in Listed(t) : \E c \in DOMAIN f.rows[1] : ~Refused(t, c)
       ELSE \E c \in DOMAIN t.schema : ~Refused(t, c)
    /\ t.format \notin {"iceberg", "direct"} => \A c \in ToSet(t.parts) : ~Refused(t, c)

\* A fresh declaration of a readable Iceberg table is never refused.
LEMMA IcebergServed ==
  ASSUME NEW t, Consistent(t), t.format = "iceberg", Readable(t)
  PROVE  prune(t, iceberg_declaration(t), None) # None
<1> DEFINE n == iceberg_declaration(t)
           tasks == plan_file_tasks(t, None)
<1>1. ToSet(tasks) \subseteq Live(t.log)
  <2>1. tasks = ByPath(Tasks(t, None)) /\ Tasks(t, None) \in SUBSET Live(t.log)
    BY DEF plan_file_tasks, Tasks
  <2> QED
    BY <2>1, ConsistentLog, LiveByPath
<1>2. \A f \in Live(t.log) : classify_planned_file(f)
  <2>1. \A f \in Live(t.log) : FileOK(t, f)
    BY DirectoryListed
  <2> QED
    <3>1. ASSUME NEW f \in Live(t.log) PROVE classify_planned_file(f)
      <4>1. f.kind \in {"parquet", "orc"} /\ \A d \in f.deletes : d.kind \in {"positions", "vector", "equality"}
        BY <2>1 DEF FileOK
      <4>2. f.kind # "orc" /\ \A d \in f.deletes : d.kind # "equality"
        BY DEF Readable
      <4> QED
        BY <4>1, <4>2 DEF classify_planned_file
    <3> QED
      BY <3>1
<1>3. ~refuse_relaxed_nullability(t, n)
  <2>1. ASSUME NEW d \in n.fields PROVE d.id \in DOMAIN t.schema /\ d.nullable = t.schema[d.id].nullable
    <3>1. PICK c \in DOMAIN t.schema : d = Field(t.schema[c].name, c, NoName, c, t.schema[c].type, t.schema[c].nullable)
      BY DEF iceberg_declaration
    <3>2. d.id = c
      BY <3>1 DEF Field
    <3>3. d.nullable = t.schema[c].nullable
      BY <3>1, Zenon DEF Field
    <3> QED
      BY <3>2, <3>3, Zenon
  <2> HIDE DEF n
  <2> QED
    BY <2>1, Zenon DEF refuse_relaxed_nullability
<1> HIDE DEF tasks, n
<1>4. \A i \in DOMAIN tasks : classify_planned_file(tasks[i])
  BY <1>1, <1>2 DEF ToSet
<1>5. prune(t, n, None) # None
  BY <1>3, <1>4 DEF prune, prune_iceberg, tasks, Some, None
<1> QED
  BY <1>5 DEF n

\* A fresh declaration of a readable Delta table is never refused.
LEMMA DeltaServed ==
  ASSUME NEW t, Consistent(t), t.format = "delta", Readable(t)
  PROVE  prune(t, catalog_declaration(t), None) # None
<1> DEFINE n == catalog_declaration(t)
           S == DOMAIN t.schema
           key(c) == binding_key(c, t.schema[c], t.mode)
           of(c) == Field(t.schema[c].name, key(c).id, key(c).physical, c, t.schema[c].type,
                          t.schema[c].nullable \/ FALSE)
           mapped == {d \in S : walk_field(t.schema[d], t.mode) = "mapped"}
<1>1. n.fields = {of(c) : c \in mapped} /\ n.parts = [i \in DOMAIN t.parts |-> t.schema[t.parts[i]].name]
  BY DEF catalog_declaration, classify_spark_schema
<1>2. \A c : /\ of(c).name = t.schema[c].name /\ of(c).column = c
             /\ of(c).id = IF t.mode = "id" THEN c ELSE NoKey
             /\ of(c).physical = IF t.mode = "name" THEN t.schema[c].physical ELSE NoName
  BY DEF Field, binding_key
<1>3. \A c : of(c).nullable = (t.schema[c].nullable \/ FALSE)
  BY Zenon DEF Field
<1>4. t.parts \in Seq(S) /\ \A i \in DOMAIN t.parts : t.parts[i] \in mapped
  <2>1. t.parts \in Seq(S)
    BY DEF Consistent, SchemaOK
  <2> QED
    BY <2>1 DEF Readable, Refused, ToSet
<1>5. mapped \subseteq S
  OBVIOUS
<1> HIDE DEF of, mapped
<1>6. \A c \in S : c # NoKey /\ t.schema[c].physical # NoName
  BY DEF Consistent, SchemaOK
<1>7. ensure_binding_keys_follow_mode(n, t.mode)
  <2> HIDE DEF n
  <2> QED
    BY <1>1, <1>2, <1>5, <1>6 DEF ensure_binding_keys_follow_mode
<1>8. BoundTo(n, t)
  BY CatalogDeclares
<1> HIDE DEF n
<1>9. ASSUME NEW c \in mapped PROVE of(c) \in n.fields /\ snapshot_field(t.schema, of(c)) = {c}
  <2>1. of(c) \in n.fields
    BY <1>1
  <2>2. snapshot_field(t.schema, of(c)) = {of(c).column}
    BY <1>7, <1>8, <2>1, SnapshotColumn
  <2> QED
    BY <1>2, <2>1, <2>2
<1>10. \A c, x \in S : t.schema[c].name = t.schema[x].name => c = x
  BY DEF Consistent, SchemaOK, KeyOf
<1>11. checked_partition_fields(t, n)
  <2>1. DOMAIN n.parts = DOMAIN t.parts
    BY <1>1
  <2>2. ASSUME NEW i \in DOMAIN t.parts
        PROVE  UNION {snapshot_field(t.schema, d) : d \in {e \in n.fields : e.name = n.parts[i]}} = {t.parts[i]}
    <3> DEFINE c == t.parts[i]
    <3>1. c \in mapped /\ c \in S /\ n.parts[i] = t.schema[c].name
      BY <1>1, <1>4, <1>5
    <3> HIDE DEF c
    <3>2. {e \in n.fields : e.name = n.parts[i]} = {of(c)}
      BY <1>1, <1>2, <1>5, <1>10, <3>1
    <3>3. snapshot_field(t.schema, of(c)) = {c}
      BY <1>9, <3>1
    <3> QED
      BY <3>2, <3>3 DEF c
  <2> QED
    BY <2>1, <2>2 DEF checked_partition_fields
<1>12. ensure_no_relaxed_nullability(t, n)
  <2>1. ASSUME NEW c \in mapped PROVE of(c).nullable \/ \A x \in snapshot_field(t.schema, of(c)) : ~t.schema[x].nullable
    <3>1. CASE t.schema[c].nullable
      BY <1>3, <3>1, Zenon
    <3>2. CASE ~t.schema[c].nullable
      BY <1>9, <3>2
    <3> QED
      BY <3>1, <3>2
  <2> QED
    BY <1>1, <2>1, Zenon DEF ensure_no_relaxed_nullability
<1>13. prune(t, n, None) # None
  BY <1>7, <1>11, <1>12 DEF prune, prune_delta, Some, None
<1> QED
  BY <1>13 DEF n

\* A readable directory is never refused, whatever is declared of it.
LEMMA DirectoryServed ==
  ASSUME NEW t, Consistent(t), t.format \in {"unity", "direct"}, Readable(t), NEW n
  PROVE  prune(t, n, None) # None
<1> DEFINE files == list_location_files(t.log, AnyDepth)
<1>1. "P" \notin KeysOf(files)
  <2>1. \A i \in DOMAIN files : files[i] \in Live(t.log)
    <3>1. files \in Seq(Listed(t)) /\ Listed(t) \subseteq Live(t.log)
      BY DirectoryListed DEF Listed
    <3> HIDE DEF files
    <3> QED
      BY <3>1
  <2> HIDE DEF files
  <2> QED
    BY <2>1 DEF Readable, KeysOf
<1> HIDE DEF files
<1>2. ASSUME NEW d PROVE Cardinality({k \in KeysOf(files) : Upper(k) = Upper(d)}) <= 1
  <2> DEFINE K == {k \in KeysOf(files) : Upper(k) = Upper(d)}
  <2>1. \A k, l \in K : k = l
    BY <1>1 DEF Upper
  <2> HIDE DEF K
  <2>2. CASE K = {}
    BY <2>2, FS_EmptySet DEF K
  <2>3. CASE K # {}
    <3>1. PICK k : k \in K
      BY <2>3
    <3>2. K = {k}
      BY <2>1, <3>1
    <3> QED
      BY <3>2, FS_Singleton DEF K
  <2> QED
    BY <2>2, <2>3
<1>3. ensure_one_spelling_per_declared_key(files, ToSet(n.parts))
  BY <1>2 DEF ensure_one_spelling_per_declared_key, KeysOf
<1> QED
  BY <1>3 DEF prune, prune_directory, kept_files, Some, None, files

\* A directory of which every file stores a readable column has a field, and its keys are fields.
LEMMA DirectoryScannable ==
  ASSUME NEW t, Consistent(t), Readable(t), t.format = "direct", resolve_parquet_directory(t) # None
  PROVE  ensure_scannable(resolve_parquet_directory(t)[1])
<1> DEFINE n == resolve_parquet_directory(t)[1]
           S == DOMAIN t.schema
           files == list_location_files(t.log, AnyDepth)
           read == IF t.sampled THEN SubSeq(files, 1, 1) ELSE files
           declared == KeysOf(read)
           folded == SchemaFold(t, read, KeysOf(files))
           named(k) == CHOOSE c \in S : Upper(t.schema[c].name) = Upper(k)
           plain(c) == Field(t.schema[c].name, NoKey, NoName, c, t.schema[c].type, TRUE)
           part(k) == Field(k, NoKey, NoName, named(k), "text", TRUE)
           fields == {plain(c) : c \in {x \in folded[1] : t.schema[x].type # "variant"}}
                       \cup {part(k) : k \in declared}
           unread == {t.schema[c].name : c \in {x \in folded[1] : t.schema[x].type = "variant"}}
<1>1. files # <<>> /\ folded # None /\ n.fields = fields /\ n.refused = unread /\ n.parts = SetToSeq(declared)
  <2> DEFINE notes1 == [fields |-> fields, refused |-> unread, parts |-> SetToSeq(declared)]
             bad == files = <<>> \/ ~ensure_one_spelling_per_declared_key(files, declared) \/ folded = None
  <2>1. resolve_parquet_directory(t) = IF bad THEN None ELSE Some(notes1)
    BY DEF resolve_parquet_directory, KeysOf
  <2> HIDE DEF bad, notes1
  <2>2. ~bad /\ n = notes1
    BY <2>1 DEF Some
  <2> QED
    BY <2>2 DEF bad, notes1
<1> HIDE DEF n, files
<1>2. files \in Seq(Listed(t)) /\ SegmentsOf(files) /\ Len(files) >= 1
  BY <1>1, DirectoryListed DEF files
<1>3. /\ 1 \in DOMAIN read /\ read[1] \in Listed(t)
      /\ \A i \in DOMAIN read : \E j \in DOMAIN files : read[i] = files[j]
  <2>1. CASE t.sampled
    <3>1. read = SubSeq(files, 1, 1) /\ DOMAIN SubSeq(files, 1, 1) = 1 .. 1 /\ SubSeq(files, 1, 1)[1] = files[1]
      BY <1>2, <2>1
    <3>2. 1 \in DOMAIN files /\ 1 .. 1 = {1}
      BY <1>2
    <3> HIDE DEF read
    <3> QED
      BY <1>2, <3>1, <3>2
  <2>2. CASE ~t.sampled
    BY <1>2, <2>2
  <2> QED
    BY <2>1, <2>2
<1> HIDE DEF read
<1>4. declared \subseteq KeysOf(files) /\ IsFiniteSet(declared)
  <2>1. declared \subseteq KeysOf(files)
    BY <1>3 DEF KeysOf
  <2> QED
    BY <1>2, <2>1, KeysFinite, FS_Subset
<1> DEFINE among(c, keys) == \E k \in keys : Upper(k) = Upper(t.schema[c].name)
<1>5. /\ \A i \in DOMAIN read : \A c \in DOMAIN read[i].rows[1] :
           among(c, KeysOf(files)) => among(c, SegmentKeys(read[i]))
      /\ folded[1] = {c \in UNION {DOMAIN read[i].rows[1] : i \in DOMAIN read} : ~among(c, KeysOf(files))}
  BY <1>1 DEF SchemaFold, Some
<1>6. PICK c \in DOMAIN read[1].rows[1] : t.schema[c].type # "variant"
  BY <1>3 DEF Readable, Refused
<1>7. n.fields # {}
  <2> HIDE DEF plain, part, folded
  <2>1. CASE among(c, KeysOf(files))
    <3>1. PICK k \in SegmentKeys(read[1]) : TRUE
      BY <1>3, <1>5, <2>1
    <3>2. k \in declared
      BY <1>3, <3>1 DEF KeysOf
    <3> QED
      BY <1>1, <3>2
  <2>2. CASE ~among(c, KeysOf(files))
    <3>1. c \in folded[1]
      <4> HIDE DEF among
      <4> QED
        BY <1>3, <1>5, <2>2
    <3>2. plain(c) \in n.fields
      BY <1>1, <1>6, <3>1
    <3> QED
      BY <3>2
  <2> QED
    BY <2>1, <2>2
<1>8. ToSet(n.parts) = declared
  BY <1>1, <1>4, SetListed
<1>9. \A x \in folded[1] : t.schema[x].name \notin declared
  BY <1>4, <1>5
<1> QED
  BY <1>1, <1>7, <1>8, <1>9 DEF ensure_scannable, n

\* A readable table is not refused whole.
LEMMA ReadableScannable ==
  ASSUME NEW t, Consistent(t), Readable(t), declared_schema(t) # None
  PROVE  ensure_scannable(declared_schema(t)[1])
<1> DEFINE n == declared_schema(t)[1]
           S == DOMAIN t.schema
<1>1. CASE t.format = "iceberg"
  <2> DEFINE of(c) == Field(t.schema[c].name, c, NoName, c, t.schema[c].type, t.schema[c].nullable)
  <2>1. n = iceberg_declaration(t)
    BY <1>1, SomeIs DEF declared_schema
  <2>2. n.fields = {of(c) : c \in {d \in S : t.schema[d].type # "variant"}} /\ n.parts = <<>>
    BY <2>1 DEF iceberg_declaration
  <2>3. \E c \in S : t.schema[c].type # "variant"
    BY <1>1 DEF Readable, Refused
  <2> HIDE DEF n, of
  <2>4. n.fields # {} /\ ToSet(n.parts) = {}
    BY <2>2, <2>3 DEF ToSet
  <2> QED
    BY <2>4 DEF ensure_scannable, n
<1>2. CASE t.format = "direct"
  BY <1>2, DirectoryScannable DEF declared_schema
<1>3. CASE t.format \notin {"iceberg", "direct"}
  <2> DEFINE key(c) == binding_key(c, t.schema[c], t.mode)
             of(c) == Field(t.schema[c].name, key(c).id, key(c).physical, c, t.schema[c].type,
                            t.schema[c].nullable \/ t.format # "delta")
             mapped == {d \in S : walk_field(t.schema[d], t.mode) = "mapped"}
  <2>1. n = catalog_declaration(t)
    BY <1>3, SomeIs DEF declared_schema
  <2>2. /\ n.fields = {of(c) : c \in mapped} /\ n.parts = [i \in DOMAIN t.parts |-> t.schema[t.parts[i]].name]
        /\ n.refused = {t.schema[c].name : c \in S \ mapped}
    BY <2>1 DEF catalog_declaration, classify_spark_schema
  <2>3. (\E c \in S : c \in mapped) /\ \A c \in ToSet(t.parts) : c \in S => c \in mapped
    BY <1>3 DEF Readable, Refused
  <2>4. t.parts \in Seq(S) /\ mapped \subseteq S
    BY DEF Consistent, SchemaOK
  <2>5. \A c, x \in S : t.schema[c].name = t.schema[x].name => c = x
    BY DEF Consistent, SchemaOK, KeyOf
  <2> HIDE DEF n, of, mapped
  <2>6. n.fields # {}
    BY <2>2, <2>3
  <2>7. ASSUME NEW x \in ToSet(n.parts) PROVE x \notin n.refused
    <3>1. PICK i \in DOMAIN t.parts : x = t.schema[t.parts[i]].name
      BY <2>2 DEF ToSet
    <3>2. t.parts[i] \in mapped /\ t.parts[i] \in S
      BY <2>3, <2>4, <3>1 DEF ToSet
    <3> QED
      BY <2>2, <2>4, <2>5, <3>1, <3>2
  <2> QED
    BY <2>6, <2>7 DEF ensure_scannable, n
<1> QED
  BY <1>1, <1>2, <1>3

\* A table as it was declared, of which everything can be read, is planned.
LEMMA ReadableServed ==
  ASSUME NEW t, Consistent(t), Readable(t), declared_schema(t) # None, NEW filter
  PROVE  prune(t, declared_schema(t)[1], filter) # None
<1> DEFINE n == declared_schema(t)[1]
<1>1. CASE t.format = "iceberg"
  BY <1>1, IcebergServed, FilterRefusesNothing, SomeIs DEF declared_schema
<1>2. CASE t.format = "delta"
  BY <1>2, DeltaServed, FilterRefusesNothing, SomeIs DEF declared_schema
<1>3. CASE t.format \in {"unity", "direct"}
  <2>1. prune(t, n, None) # None
    BY <1>3, DirectoryServed
  <2> QED
    BY <2>1, FilterRefusesNothing
<1>4. CASE t.format = "glue"
  BY <1>4 DEF prune, plan_glue_partitions, Readable, Some, None
<1> QED
  BY <1>1, <1>2, <1>3, <1>4 DEF Consistent, Formats

\* A table that nobody changed since it was declared, that holds nothing this engine cannot read and
\* that has a readable column and no refused partition column, is opened and planned.
THEOREM FreshServed == Spec => []FreshDeclarationServed
<1>1. IInv => FreshDeclarationServed
  <2> DEFINE t == loaded[1].table
  <2> SUFFICES ASSUME IInv, loaded # None, notes = declared_schema(t), Readable(t)
               PROVE  loaded[1].opened /\ (planned # None /\ PrunedTable = t => Answered)
    BY DEF FreshDeclarationServed, Readable, Refused
  <2>1. Consistent(t) /\ (loaded[1].opened <=> ensure_scannable(notes[1]) /\ opens(t)) /\ notes # None
    BY DEF IInv, LoadedInv, WellFormed
  <2>2. opens(t)
    BY DEF opens, Readable, refuse_date_promotion
  <2>3. loaded[1].opened
    <3> HIDE DEF t
    <3>1. ensure_scannable(notes[1])
      BY <2>1, ReadableScannable
    <3> QED
      BY <2>1, <2>2, <3>1, Zenon
  <2>4. ASSUME planned # None, PrunedTable = t PROVE Answered
    <3>1. planned[1].files = prune(t, declared_schema(t)[1], planned[1].filter)
      BY <2>4 DEF IInv, PlannedInv
    <3> HIDE DEF t
    <3> QED
      BY <2>1, <2>4, <3>1, ReadableServed DEF Answered
  <2> QED
    BY <2>3, <2>4
<1> QED
  BY <1>1, Invariance, PTL

-----------------------------------------------------------------------------
(* What the scan reads                                                     *)

\* An answered Delta prune has passed its checks.
LEMMA DeltaChecked ==
  ASSUME NEW t, t.format = "delta", NEW n, NEW filter, prune(t, n, filter) # None
  PROVE  /\ ensure_binding_keys_follow_mode(n, t.mode)
         /\ checked_partition_fields(t, n)
         /\ ensure_no_relaxed_nullability(t, n)
BY DEF prune, prune_delta

\* The declared partition columns name the log's.
LEMMA PartitionNames ==
  ASSUME NEW t, Consistent(t), t.format = "delta", NEW n, BoundTo(n, t),
         ensure_binding_keys_follow_mode(n, t.mode), checked_partition_fields(t, n)
  PROVE  /\ DOMAIN n.parts = DOMAIN t.parts
         /\ \A i \in DOMAIN t.parts : \E d \in n.fields : d.name = n.parts[i] /\ d.column = t.parts[i]
         /\ \A i \in DOMAIN t.parts : \A d \in n.fields : d.name = n.parts[i] => d.column = t.parts[i]
<1> DEFINE named(i) == UNION {snapshot_field(t.schema, d) : d \in {e \in n.fields : e.name = n.parts[i]}}
<1>1. [i \in DOMAIN n.parts |-> named(i)] = [i \in DOMAIN t.parts |-> {t.parts[i]}]
  BY DEF checked_partition_fields
<1>2. DOMAIN n.parts = DOMAIN t.parts
  <2> DEFINE x == [i \in DOMAIN n.parts |-> named(i)]
             y == [i \in DOMAIN t.parts |-> {t.parts[i]}]
  <2>1. DOMAIN x = DOMAIN n.parts /\ DOMAIN y = DOMAIN t.parts /\ x = y
    BY <1>1
  <2> HIDE DEF x, y
  <2> QED
    BY <2>1
<1>3. \A i \in DOMAIN t.parts : named(i) = {t.parts[i]}
  <2> HIDE DEF named
  <2> QED
    BY <1>1, <1>2
<1>4. \A d \in n.fields : snapshot_field(t.schema, d) = {d.column}
  BY SnapshotColumn
<1>5. ASSUME NEW i \in DOMAIN t.parts, NEW d \in n.fields, d.name = n.parts[i] PROVE d.column = t.parts[i]
  <2>1. d.column \in named(i)
    BY <1>4, <1>5
  <2> HIDE DEF named
  <2> QED
    BY <1>3, <2>1
<1>6. ASSUME NEW i \in DOMAIN t.parts PROVE \E d \in n.fields : d.name = n.parts[i] /\ d.column = t.parts[i]
  <2>1. t.parts[i] \in named(i)
    <3> HIDE DEF named
    <3> QED
      BY <1>3
  <2> QED
    BY <1>4, <2>1
<1> QED
  BY <1>2, <1>5, <1>6

\* The value that a Delta file carries for a declared field is the log's for its column.
LEMMA LoggedFor ==
  ASSUME NEW t, Consistent(t), t.format = "delta", NEW n, BoundTo(n, t),
         ensure_binding_keys_follow_mode(n, t.mode), checked_partition_fields(t, n),
         NEW f, FileOK(t, f), NEW d \in n.fields
  PROVE  /\ d.name \in DOMAIN logged_values(t, n, f) <=> d.column \in ToSet(t.parts)
         /\ d.column \in ToSet(t.parts) => logged_values(t, n, f)[d.name] = f.parts[t.schema[d.column].physical]
<1>1. /\ DOMAIN n.parts = DOMAIN t.parts
      /\ \A i \in DOMAIN t.parts : \E x \in n.fields : x.name = n.parts[i] /\ x.column = t.parts[i]
      /\ \A i \in DOMAIN t.parts : \A x \in n.fields : x.name = n.parts[i] => x.column = t.parts[i]
  BY PartitionNames
<1>2. DOMAIN f.parts = {t.schema[c].physical : c \in ToSet(t.parts)}
  BY DEF FileOK
<1>3. \A i \in DOMAIN t.parts : t.parts[i] \in ToSet(t.parts) /\ t.parts[i] \in DOMAIN t.schema
  BY DEF Consistent, SchemaOK, ToSet
<1>4. \A i \in DOMAIN t.parts : logged_keys(t, i) = t.schema[t.parts[i]].physical
  BY <1>3 DEF Consistent, SchemaOK, logged_keys
<1>5. \A i \in DOMAIN t.parts : logged_keys(t, i) \in DOMAIN f.parts
  BY <1>2, <1>3, <1>4
<1>6. DOMAIN logged_values(t, n, f) = {n.parts[i] : i \in DOMAIN t.parts}
  BY <1>5 DEF logged_values
<1>7. \A x, y \in n.fields : x.name = y.name \/ x.column = y.column => x = y
  BY DEF BoundTo, FieldsBound
<1>8. d.name \in DOMAIN logged_values(t, n, f) <=> d.column \in ToSet(t.parts)
  BY <1>1, <1>3, <1>6, <1>7 DEF ToSet
<1>9. ASSUME d.column \in ToSet(t.parts) PROVE logged_values(t, n, f)[d.name] = f.parts[t.schema[d.column].physical]
  <2> DEFINE at == CHOOSE i \in DOMAIN t.parts : n.parts[i] = d.name
  <2>1. d.name \in DOMAIN logged_values(t, n, f) /\ \E i \in DOMAIN t.parts : n.parts[i] = d.name
    BY <1>6, <1>8, <1>9
  <2>2. logged_values(t, n, f)[d.name] = f.parts[logged_keys(t, at)]
    BY <1>6, <2>1, <1>5 DEF logged_values
  <2>3. at \in DOMAIN t.parts /\ n.parts[at] = d.name
    BY <2>1
  <2> HIDE DEF at
  <2>4. t.parts[at] = d.column
    BY <1>1, <2>3
  <2> QED
    BY <1>4, <2>2, <2>3, <2>4
<1> QED
  BY <1>8, <1>9

\* The value that an Iceberg file carries for a declared field is the one that its rows have.
LEMMA IdentityFor ==
  ASSUME NEW t, Consistent(t), t.format = "iceberg", NEW n, BoundTo(n, t),
         NEW f, FileOK(t, f), NEW d \in n.fields,
         d.name \in DOMAIN identity_partition_values(t, f, n)
  PROVE  \A i \in DOMAIN f.rows : d.column \in DOMAIN f.rows[i]
                                  /\ identity_partition_values(t, f, n)[d.name] = f.rows[i][d.column]
<1> DEFINE of(x) == x.id \in DOMAIN f.parts
           named == CHOOSE x \in n.fields : x.name = d.name /\ of(x)
<1>1. \A x, y \in n.fields : x.name = y.name => x = y
  BY DEF BoundTo, FieldsBound
<1>2. d.id = d.column
  BY DEF BoundTo, BoundIceberg
<1>3. \E x \in n.fields : x.name = d.name /\ of(x)
  BY DEF identity_partition_values
<1>4. identity_partition_values(t, f, n)[d.name] = f.parts[named.id]
  BY <1>3 DEF identity_partition_values
<1>5. named = d /\ d.id \in DOMAIN f.parts
  BY <1>1, <1>3
<1> HIDE DEF named
<1> QED
  BY <1>2, <1>4, <1>5 DEF FileOK

\* A live file is found by its path.
LEMMA FileFound ==
  ASSUME Consistent(PrunedTable), NEW f \in Live(PrunedTable.log)
  PROVE  FileAt(f.path) = f
<1>1. \A g \in Live(PrunedTable.log) : g.path = f.path <=> g = f
  BY ConsistentLog, LiveListed
<1> QED
  BY <1>1 DEF FileAt

\* The key of a declared field names its column, and no other, in the files of a table.
Finds(t, d) ==
    /\ d.column \in DOMAIN t.schema
    /\ IF d.id # NoKey THEN d.id = d.column
       ELSE /\ t.format # "iceberg"
            /\ t.schema[d.column].physical = IF d.physical # NoName THEN d.physical ELSE d.name

\* A column that the entry gives no partition value for is read as the file stores it.
LEMMA ReadStored ==
  ASSUME Consistent(PrunedTable), NEW f \in Live(PrunedTable.log), NEW e, e.path = f.path, NEW i,
         NEW d, Finds(PrunedTable, d), d.name \notin DOMAIN e.parts
  PROVE  ReadValue(e, i, d) = IF d.column \in DOMAIN f.rows[i] THEN f.rows[i][d.column] ELSE Null
<1> DEFINE t == PrunedTable
           stored == {c \in DOMAIN f.rows[i] \cap DOMAIN t.schema :
                        IF d.id # NoKey THEN c = d.id
                        ELSE t.schema[c].physical = IF d.physical # NoName THEN d.physical ELSE d.name}
           chosen == CHOOSE c \in stored : TRUE
<1>1. FileAt(e.path) = f
  BY FileFound
<1>2. ReadValue(e, i, d) = IF stored = {} THEN Null ELSE f.rows[i][chosen]
  BY <1>1 DEF ReadValue
<1>3. t.format # "iceberg" => \A c, x \in DOMAIN t.schema : c # x => t.schema[c].physical # t.schema[x].physical
  BY DEF Consistent, SchemaOK
<1>4. \A c : c \in stored <=> c = d.column /\ d.column \in DOMAIN f.rows[i]
  BY <1>3 DEF Finds
<1> HIDE DEF stored
<1>5. CASE d.column \in DOMAIN f.rows[i]
  <2>1. stored = {d.column}
    BY <1>4, <1>5
  <2>2. chosen = d.column
    BY <2>1
  <2> HIDE DEF chosen
  <2> QED
    BY <1>2, <1>5, <2>1, <2>2
<1>6. CASE d.column \notin DOMAIN f.rows[i]
  <2>1. stored = {}
    BY <1>4, <1>6
  <2> HIDE DEF chosen
  <2> QED
    BY <1>2, <1>6, <2>1
<1> QED
  BY <1>5, <1>6

\* A value that the plan carries is read as it is.
LEMMA ReadCarried ==
  ASSUME NEW e, NEW i, NEW d, d.name \in DOMAIN e.parts
  PROVE  ReadValue(e, i, d) = e.parts[d.name]
BY DEF ReadValue

\* Every planned file is a live one.
LEMMA FilesLive ==
  ASSUME NEW t, Consistent(t), NEW f \in FilesOf(t)
  PROVE  f \in Live(t.log) /\ FileOK(t, f)
<1>1. f \in Live(t.log)
  BY DEF FilesOf, Listed
<1> QED
  BY <1>1, DirectoryListed

\* The table's files, as the properties name them.
LEMMA TableFilesAre == TableFiles = FilesOf(PrunedTable)
<1> DEFINE t == PrunedTable
<1>1. CASE t.format = "glue"
  BY <1>1 DEF TableFiles, FilesOf
<1>2. CASE t.format \in {"unity", "direct"}
  BY <1>2 DEF TableFiles, FilesOf, Listed
<1>3. CASE t.format \notin {"glue", "unity", "direct"}
  BY <1>3 DEF TableFiles, FilesOf
<1> QED
  BY <1>1, <1>2, <1>3

\* A field of an Iceberg declaration reads the value its column has in the snapshot.
LEMMA ReadsIceberg ==
  ASSUME Consistent(PrunedTable), BoundTo(notes[1], PrunedTable), PrunedTable.format = "iceberg",
         NEW f \in FilesOf(PrunedTable), NEW i \in DOMAIN f.rows, NEW d \in notes[1].fields
  PROVE  ReadValue(EntryOf(PrunedTable, notes[1], f), i, d) = TrueValue(f, i, d.column)
<1> DEFINE t == PrunedTable
           n == notes[1]
           e == EntryOf(t, n, f)
<1>1. f \in Live(t.log) /\ FileOK(t, f)
  BY FilesLive
<1>2. e.path = f.path /\ e.parts = identity_partition_values(t, f, n)
  BY DEF EntryOf, PartsOf
<1>3. TrueValue(f, i, d.column) = IF d.column \in DOMAIN f.rows[i] THEN f.rows[i][d.column] ELSE Null
  BY DEF TrueValue
<1>4. Finds(t, d)
  <2>1. d.column \in DOMAIN t.schema /\ d.id = d.column
    BY DEF BoundTo, FieldsBound, BoundIceberg
  <2>2. d.column # NoKey
    BY <2>1 DEF Consistent, SchemaOK
  <2> QED
    BY <2>1, <2>2 DEF Finds
<1> HIDE DEF e
<1>5. ASSUME d.name \in DOMAIN e.parts PROVE ReadValue(e, i, d) = TrueValue(f, i, d.column)
  BY <1>1, <1>2, <1>3, <1>5, IdentityFor, ReadCarried
<1>6. ASSUME d.name \notin DOMAIN e.parts PROVE ReadValue(e, i, d) = TrueValue(f, i, d.column)
  BY <1>1, <1>2, <1>3, <1>4, <1>6, ReadStored
<1> QED
  BY <1>5, <1>6 DEF e

\* A field of a Delta declaration whose keys follow the mode reads its column's value.
LEMMA ReadsDelta ==
  ASSUME Consistent(PrunedTable), BoundTo(notes[1], PrunedTable), PrunedTable.format = "delta",
         ensure_binding_keys_follow_mode(notes[1], PrunedTable.mode), checked_partition_fields(PrunedTable, notes[1]),
         NEW f \in FilesOf(PrunedTable), NEW i \in DOMAIN f.rows, NEW d \in notes[1].fields
  PROVE  ReadValue(EntryOf(PrunedTable, notes[1], f), i, d) = TrueValue(f, i, d.column)
<1> DEFINE t == PrunedTable
           n == notes[1]
           e == EntryOf(t, n, f)
<1>1. f \in Live(t.log) /\ FileOK(t, f)
  BY FilesLive
<1>2. e.path = f.path /\ e.parts = logged_values(t, n, f)
  BY DEF EntryOf, PartsOf
<1>3. TrueValue(f, i, d.column) = IF d.column \in ToSet(t.parts) THEN f.parts[t.schema[d.column].physical]
                                  ELSE IF d.column \in DOMAIN f.rows[i] THEN f.rows[i][d.column] ELSE Null
  BY DEF TrueValue
<1>4. Finds(t, d)
  BY DEF BoundTo, FieldsBound, BoundDelta, Finds
<1>5. /\ d.name \in DOMAIN e.parts <=> d.column \in ToSet(t.parts)
      /\ d.column \in ToSet(t.parts) => e.parts[d.name] = f.parts[t.schema[d.column].physical]
  BY <1>1, <1>2, LoggedFor
<1> HIDE DEF e
<1>6. ASSUME d.name \in DOMAIN e.parts PROVE ReadValue(e, i, d) = TrueValue(f, i, d.column)
  BY <1>3, <1>5, <1>6, ReadCarried
<1>7. ASSUME d.name \notin DOMAIN e.parts PROVE ReadValue(e, i, d) = TrueValue(f, i, d.column)
  BY <1>1, <1>2, <1>3, <1>4, <1>5, <1>7, ReadStored
<1> QED
  BY <1>6, <1>7 DEF e

\* A field of a directory declaration reads its column's value.
LEMMA ReadsPlain ==
  ASSUME Consistent(PrunedTable), BoundTo(notes[1], PrunedTable), Plain(PrunedTable),
         NEW f \in FilesOf(PrunedTable), NEW i \in DOMAIN f.rows, NEW d \in notes[1].fields
  PROVE  ReadValue(EntryOf(PrunedTable, notes[1], f), i, d) = TrueValue(f, i, d.column)
<1> DEFINE t == PrunedTable
           n == notes[1]
           e == EntryOf(t, n, f)
           carried == IF t.format = "glue" THEN RegisteredAs(t, f).value ELSE SegmentValue(f, t.schema[d.column].name)
<1>1. f \in Live(t.log) /\ FileOK(t, f)
  BY FilesLive
<1>2. e.path = f.path /\ e.parts = IF t.format = "glue" THEN RegisteredValues(t, n, f) ELSE SegmentValues(n, f)
  <2>1. PartsOf(t, n, f) = IF t.format = "glue" THEN RegisteredValues(t, n, f) ELSE SegmentValues(n, f)
    BY FormatsApart DEF PartsOf
  <2> QED
    BY <2>1 DEF EntryOf
<1>3. TrueValue(f, i, d.column) = IF d.column \in ToSet(t.parts) THEN carried
                                  ELSE IF d.column \in DOMAIN f.rows[i] THEN f.rows[i][d.column] ELSE Null
  BY FormatsApart DEF TrueValue, RegisteredAs, Plain
<1>4. /\ d.id = NoKey /\ d.physical = NoName
      /\ Upper(d.name) = Upper(t.schema[d.column].name)
      /\ d.column \in ToSet(t.parts) <=> d.name \in ToSet(n.parts)
      /\ d.column \notin ToSet(t.parts) => d.name = t.schema[d.column].physical
      /\ d.column \in DOMAIN t.schema
  BY DEF BoundTo, FieldsBound, BoundPlain, KeyOf
<1>5. DOMAIN e.parts = ToSet(n.parts)
  BY <1>2 DEF RegisteredValues, SegmentValues
<1> HIDE DEF e
<1>6. ASSUME d.name \in DOMAIN e.parts PROVE ReadValue(e, i, d) = TrueValue(f, i, d.column)
  <2>1. e.parts[d.name] = IF t.format = "glue" THEN RegisteredAs(t, f).value ELSE SegmentValue(f, d.name)
    BY <1>2, <1>5, <1>6 DEF RegisteredValues, SegmentValues
  <2>2. SegmentValue(f, d.name) = SegmentValue(f, t.schema[d.column].name)
    BY <1>4 DEF SegmentValue
  <2> QED
    BY <1>3, <1>4, <1>5, <1>6, <2>1, <2>2, ReadCarried
<1>7. ASSUME d.name \notin DOMAIN e.parts PROVE ReadValue(e, i, d) = TrueValue(f, i, d.column)
  <2>1. Finds(t, d)
    BY <1>4, <1>5, <1>7, FormatsApart DEF Finds
  <2> QED
    BY <1>1, <1>2, <1>3, <1>4, <1>5, <1>7, <2>1, ReadStored
<1> QED
  BY <1>6, <1>7 DEF e

\* A chosen file is one of the table's.
LEMMA ChosenFiles ==
  ASSUME NEW t, Consistent(t), NEW n, NEW filter, NEW f \in PickedFiles(t, n, filter)
  PROVE  f \in FilesOf(t)
<1>1. CASE t.format = "iceberg"
  BY <1>1 DEF PickedFiles, Tasks, FilesOf
<1>2. CASE t.format = "delta"
  BY <1>2 DEF PickedFiles, Shown, FilesOf
<1>3. CASE t.format = "glue"
  BY <1>3 DEF PickedFiles
<1>4. CASE t.format \in {"unity", "direct"}
  BY <1>4 DEF PickedFiles, FilesOf
<1> QED
  BY <1>1, <1>2, <1>3, <1>4 DEF Consistent, Formats

\* An answered prune has passed its format's checks.
LEMMA AnsweredChecked ==
  ASSUME IInv, Answered
  PROVE  /\ PrunedTable.format = "delta" =>
              /\ ensure_binding_keys_follow_mode(notes[1], PrunedTable.mode)
              /\ checked_partition_fields(PrunedTable, notes[1])
              /\ ensure_no_relaxed_nullability(PrunedTable, notes[1])
         /\ PrunedTable.format = "iceberg" => ~refuse_relaxed_nullability(PrunedTable, notes[1])
<1>1. prune(PrunedTable, notes[1], planned[1].filter) # None
  BY DEF IInv, PlannedInv, Answered
<1>2. PrunedTable.format = "iceberg" => ~refuse_relaxed_nullability(PrunedTable, notes[1])
  BY <1>1 DEF prune, prune_iceberg
<1> QED
  BY <1>1, <1>2, DeltaChecked

\* The scan reads from a planned file what the table holds in it.
LEMMA ReadsTrue ==
  ASSUME IInv, Answered, NEW f \in FilesOf(PrunedTable), NEW i \in DOMAIN f.rows, NEW d \in notes[1].fields
  PROVE  ReadValue(EntryOf(PrunedTable, notes[1], f), i, d) = TrueValue(f, i, d.column)
<1>1. Consistent(PrunedTable) /\ BoundTo(notes[1], PrunedTable)
  BY EntriesPlanned
<1>2. CASE PrunedTable.format = "iceberg"
  BY <1>1, <1>2, ReadsIceberg
<1>3. CASE PrunedTable.format = "delta"
  BY <1>1, <1>3, AnsweredChecked, ReadsDelta
<1>4. CASE Plain(PrunedTable)
  BY <1>1, <1>4, ReadsPlain
<1> QED
  BY <1>1, <1>2, <1>3, <1>4 DEF Consistent, Formats, Plain

\* The rows of a file all have its columns.
LEMMA RowColumns ==
  ASSUME NEW t, NEW f, FileOK(t, f), NEW i \in DOMAIN f.rows
  PROVE  DOMAIN f.rows[i] = DOMAIN f.rows[1] /\ \A c \in DOMAIN f.rows[1] : f.rows[i][c] \in Values
<1> DEFINE D == DOMAIN f.rows[1]
<1>1. f.rows \in Seq([D -> Values])
  BY DEF FileOK
<1> HIDE DEF D
<1>2. f.rows[i] \in [D -> Values]
  BY <1>1
<1> QED
  BY <1>2 DEF D

\* A required column of a well-formed table is never NULL.
LEMMA RequiredHolds ==
  ASSUME Consistent(PrunedTable), WellFormed(PrunedTable), PrunedTable.format \in {"iceberg", "delta"},
         NEW f \in FilesOf(PrunedTable), NEW i \in DOMAIN f.rows,
         NEW c \in DOMAIN PrunedTable.schema, ~PrunedTable.schema[c].nullable
  PROVE  TrueValue(f, i, c) # Null
<1>1. f \in Live(PrunedTable.log) /\ FileOK(PrunedTable, f)
  BY FilesLive
<1>2. RequiredOK(PrunedTable, f)
  BY <1>1 DEF WellFormed
<1>3. DOMAIN f.rows[i] = DOMAIN f.rows[1]
  BY <1>1, RowColumns
<1> QED
  BY <1>2, <1>3 DEF RequiredOK, TrueValue

\* A column planned as NOT NULL holds no NULL in a planned file.
THEOREM NeverNull == Spec => []RequiredNeverNull
<1>1. IInv => RequiredNeverNull
  <2> SUFFICES ASSUME IInv, Answered, NEW e \in ToSet(Entries), NEW d \in notes[1].fields, ~d.nullable,
                      NEW i \in DOMAIN FileAt(e.path).rows
               PROVE  ReadValue(e, i, d) # Null
    BY DEF RequiredNeverNull
  <2> DEFINE t == PrunedTable
             n == notes[1]
  <2>1. Consistent(t) /\ BoundTo(n, t) /\ (t.format # "glue" => WellFormed(t))
    BY EntriesPlanned DEF IInv, PlannedInv, Answered
  <2>2. PICK f \in PickedFiles(t, n, planned[1].filter) : e = EntryOf(t, n, f)
    BY EntriesPlanned DEF PlanOf, ToSet
  <2>3. f \in FilesOf(t) /\ f \in Live(t.log)
    BY <2>1, <2>2, ChosenFiles, FilesLive
  <2>4. e.path = f.path
    BY <2>2 DEF EntryOf
  <2>5. i \in DOMAIN f.rows
    BY <2>1, <2>3, <2>4, FileFound
  <2>6. ReadValue(e, i, d) = TrueValue(f, i, d.column)
    BY <2>2, <2>3, <2>5, ReadsTrue
  <2>7. d.column \in DOMAIN t.schema
    BY <2>1 DEF BoundTo, FieldsBound
  <2>8. ~Plain(t)
    BY <2>1 DEF BoundTo, BoundPlain
  <2>9. ~t.schema[d.column].nullable
    <3>1. CASE t.format = "iceberg"
      BY <2>1, <2>7, <3>1, AnsweredChecked DEF BoundTo, BoundIceberg, refuse_relaxed_nullability
    <3>2. CASE t.format = "delta"
      <4>1. snapshot_field(t.schema, d) = {d.column}
        BY <2>1, <3>2, AnsweredChecked, SnapshotColumn
      <4> QED
        BY <3>2, <4>1, AnsweredChecked DEF ensure_no_relaxed_nullability
    <3> QED
      BY <2>1, <2>8, <3>1, <3>2 DEF Consistent, Formats, Plain
  <2>10. t.format \in {"iceberg", "delta"}
    BY <2>1, <2>8 DEF Consistent, Formats, Plain
  <2> QED
    BY <2>1, <2>3, <2>5, <2>6, <2>7, <2>9, <2>10, RequiredHolds
<1> QED
  BY <1>1, Invariance, PTL

-----------------------------------------------------------------------------
(* The answer                                                              *)

\* A finite set of integers that is not empty has a least and a greatest one.
LEMMA Extremes ==
  ASSUME NEW S, IsFiniteSet(S), S \subseteq Int, NEW v \in S
  PROVE  Min(S) \in S /\ Max(S) \in S /\ Min(S) <= v /\ v <= Max(S)
<1>1. PICK x : IsGreatest(x, [y \in S |-> y], S)
  <2> DEFINE w == [y \in S |-> y]
  <2>1. w \in [S -> Int] /\ S # {}
    OBVIOUS
  <2> HIDE DEF w
  <2>2. \E x : IsGreatest(x, w, S)
    BY <2>1, FiniteGreatest
  <2> QED
    BY <2>2 DEF w
<1>2. x \in S /\ \A y \in S : x >= y
  BY <1>1 DEF IsGreatest
<1>3. PICK z : IsGreatest(z, [y \in S |-> 0 - y], S)
  <2> DEFINE w == [y \in S |-> 0 - y]
  <2>1. w \in [S -> Int] /\ S # {}
    OBVIOUS
  <2> HIDE DEF w
  <2>2. \E z : IsGreatest(z, w, S)
    BY <2>1, FiniteGreatest
  <2> QED
    BY <2>2 DEF w
<1>4. z \in S /\ \A y \in S : z <= y
  BY <1>3 DEF IsGreatest
<1>5. Max(S) \in S /\ \A y \in S : Max(S) >= y
  BY <1>2, MaxIs
<1>6. Min(S) \in S /\ \A y \in S : Min(S) <= y
  BY <1>4, MinIs
<1> HIDE DEF Max, Min
<1>7. Max(S) >= v /\ Max(S) \in Int /\ Min(S) <= v /\ Min(S) \in Int /\ v \in Int
  BY <1>5, <1>6
<1> QED
  BY <1>5, <1>6, <1>7

StoredValue(f, j, c) == IF c \in DOMAIN f.rows[j] THEN f.rows[j][c] ELSE Null

\* What is recorded of a file's column covers what is stored in it.
LEMMA StatsCover ==
  ASSUME NEW t, NEW f, FileOK(t, f), NEW j \in DOMAIN f.rows, NEW c
  PROVE  CoveredBy(StatsOf(f, c), StoredValue(f, j, c))
<1> DEFINE values == {f.rows[i][c] : i \in DOMAIN f.rows}
           known == values \ {Null}
           v == f.rows[j][c]
           s == [low |-> IF known = {} THEN Null ELSE Min(known),
                 high |-> IF known = {} THEN Null ELSE Max(known), nulls |-> Null \in values]
<1>1. CASE ~f.stats \/ c \notin DOMAIN f.rows[1]
  BY <1>1 DEF StatsOf, CoveredBy
<1>2. CASE f.stats /\ c \in DOMAIN f.rows[1]
  <2>1. StatsOf(f, c) = Some(s)
    BY <1>2 DEF StatsOf
  <2>2. \A i \in DOMAIN f.rows : c \in DOMAIN f.rows[i] /\ f.rows[i][c] \in Values
    BY <1>2, RowColumns
  <2>3. StoredValue(f, j, c) = v /\ v \in values
    BY <2>2 DEF StoredValue
  <2>4. CASE v = Null
    <3>1. s.nulls = (Null \in values)
      BY Zenon
    <3>2. s.nulls
      BY <2>3, <2>4, <3>1, Zenon
    <3> HIDE DEF s, v
    <3> QED
      BY <2>1, <2>3, <2>4, <3>2, SomeIs, Zenon DEF CoveredBy
  <2>5. CASE v # Null
    <3>1. v \in known /\ known \subseteq Int
      <4>1. Values \subseteq Int
        BY DEF Values, Null
      <4> QED
        BY <2>2, <2>3, <2>5, <4>1
    <3>2. IsFiniteSet(known)
      <4> DEFINE e == [i \in DOMAIN f.rows |-> f.rows[i][c]]
      <4>1. IsFiniteSet(DOMAIN f.rows)
        <5>1. DOMAIN f.rows = 1 .. Len(f.rows) /\ Len(f.rows) \in Nat
          BY DEF FileOK
        <5> QED
          BY <5>1, FS_Interval
      <4>2. values = {e[i] : i \in DOMAIN f.rows} /\ DOMAIN e = DOMAIN f.rows
        OBVIOUS
      <4> HIDE DEF e, values
      <4>3. IsFiniteSet(values)
        BY <4>1, <4>2, FiniteImage
      <4> QED
        BY <4>3, FS_Subset
    <3> HIDE DEF known
    <3>3. s.low = Min(known) /\ s.high = Max(known)
      BY <3>1
    <3>4. Min(known) \in known /\ Max(known) \in known /\ Min(known) <= v /\ v <= Max(known)
      BY <3>1, <3>2, Extremes
    <3>5. Min(known) # Null
      BY <3>4 DEF known
    <3>6. s.low # Null /\ v \in s.low .. s.high
      <4> DEFINE low == Min(known)
                 high == Max(known)
      <4>1. low \in Int /\ high \in Int /\ v \in Int /\ low <= v /\ v <= high /\ s.low = low /\ s.high = high
        BY <3>1, <3>3, <3>4
      <4> HIDE DEF low, high, s, v
      <4>2. v \in s.low .. s.high
        BY <4>1
      <4> QED
        BY <3>3, <3>5, <4>2
    <3> HIDE DEF s, v
    <3> QED
      BY <2>1, <2>3, <2>5, <3>6, SomeIs DEF CoveredBy
  <2> QED
    BY <2>4, <2>5
<1> QED
  BY <1>1, <1>2

\* The value that a path's segments give is a partition value.
LEMMA SegmentTyped ==
  ASSUME NEW f, f.segments \in Seq([key : STRING, value : Values \cup {Junk}]), NEW key
  PROVE  SegmentValue(f, key) \in Int
<1> DEFINE s == f.segments
           at == {i \in DOMAIN s : Upper(s[i].key) = Upper(key)}
           R == [key : STRING, value : Values \cup {Junk}]
<1>0. Values \cup {Junk} \subseteq Int /\ Null \in Int
  BY DEF Values, Null, Junk
<1>1. CASE at = {}
  BY <1>0, <1>1 DEF SegmentValue
<1>2. CASE at # {}
  <2>1. SegmentValue(f, key) = s[Max(at)].value
    BY <1>2 DEF SegmentValue
  <2>2. s \in Seq(R) /\ at \in SUBSET (DOMAIN s)
    OBVIOUS
  <2>3. \A r \in R : r.value \in Values \cup {Junk}
    OBVIOUS
  <2> HIDE DEF s, at, R
  <2>4. Max(at) \in DOMAIN s
    BY <1>2, <2>2, LastPosition
  <2>5. s[Max(at)] \in R
    BY <2>2, <2>4
  <2> QED
    BY <1>0, <2>1, <2>3, <2>5
<1> QED
  BY <1>1, <1>2

\* The value of a column in a row is a number, NULL or junk.
LEMMA ValuesTyped ==
  ASSUME Consistent(PrunedTable), NEW f \in FilesOf(PrunedTable), NEW j \in DOMAIN f.rows,
         NEW c \in DOMAIN PrunedTable.schema
  PROVE  TrueValue(f, j, c) \in Int
<1> DEFINE t == PrunedTable
<1>1. f \in Live(t.log) /\ FileOK(t, f)
  BY FilesLive
<1>2. Values \cup {Junk} \subseteq Int /\ Null \in Int
  BY DEF Values, Null, Junk
<1>3. StoredValue(f, j, c) \in Int
  BY <1>1, <1>2, RowColumns DEF StoredValue
<1>4. CASE t.format \in {"unity", "direct"}
  <2>1. \A key : SegmentValue(f, key) \in Int
    BY <1>1, SegmentTyped DEF FileOK
  <2> QED
    BY <1>3, <1>4, <2>1 DEF TrueValue, StoredValue
<1>5. CASE t.format = "glue"
  <2>1. PICK p \in t.registered : p.location = f.dir
    BY <1>5 DEF FilesOf
  <2>2. RegisteredAs(t, f) = p
    BY <2>1, RegisteredOnce
  <2>3. p.value \in Values \cup {Junk}
    BY DEF Consistent, RegisteredOK
  <2> QED
    BY <1>2, <1>3, <1>5, <2>2, <2>3 DEF TrueValue, StoredValue, RegisteredAs
<1>6. CASE t.format = "delta"
  <2>1. c \in ToSet(t.parts) => f.parts[t.schema[c].physical] \in Values
    BY <1>1, <1>6 DEF FileOK
  <2> QED
    BY <1>2, <1>3, <1>6, <2>1 DEF TrueValue, StoredValue
<1>7. CASE t.format = "iceberg"
  BY <1>3, <1>7 DEF TrueValue, StoredValue
<1> QED
  BY <1>4, <1>5, <1>6, <1>7 DEF Consistent, Formats

\* A row of a file, under the declared names.
TrueRow(f, j) == [x \in Names(notes[1]) |-> TrueValue(f, j, DeclaredField(x).column)]

\* A declared name names a declared field.
LEMMA DeclaredFields ==
  ASSUME NEW x \in Names(notes[1])
  PROVE  DeclaredField(x) \in notes[1].fields /\ DeclaredField(x).name = x
<1>1. \E d \in notes[1].fields : d.name = x
  BY DEF Names
<1> QED
  BY <1>1 DEF DeclaredField

\* The true row of a live file gives every declared name an integer or Null.
LEMMA RowTyped ==
  ASSUME Consistent(PrunedTable), BoundTo(notes[1], PrunedTable), NEW f \in FilesOf(PrunedTable),
         NEW j \in DOMAIN f.rows, NEW x \in Names(notes[1])
  PROVE  TrueRow(f, j)[x] = TrueValue(f, j, DeclaredField(x).column) /\ TrueRow(f, j)[x] \in Int
<1>1. DeclaredField(x) \in notes[1].fields
  BY DeclaredFields
<1>2. DeclaredField(x).column \in DOMAIN PrunedTable.schema
  BY <1>1 DEF BoundTo, FieldsBound
<1> QED
  BY <1>2, ValuesTyped DEF TrueRow

\* The translated columns of an Iceberg table are the declared fields'.
LEMMA IcebergColumns ==
  ASSUME Consistent(PrunedTable), BoundTo(notes[1], PrunedTable), PrunedTable.format = "iceberg",
         NEW x \in DOMAIN iceberg_columns(PrunedTable, notes[1])
  PROVE  x \in Names(notes[1]) /\ iceberg_columns(PrunedTable, notes[1])[x].id = DeclaredField(x).column
<1> DEFINE t == PrunedTable
           n == notes[1]
<1>1. x \in {d.name : d \in {e \in n.fields : e.id \in DOMAIN t.schema}}
  BY DEF iceberg_columns
<1>2. x \in Names(n)
  BY <1>1 DEF Names
<1>3. iceberg_columns(t, n)[x] = [id |-> DeclaredField(x).id, type |-> t.schema[DeclaredField(x).id].type]
  BY <1>1 DEF iceberg_columns, DeclaredField
<1>4. DeclaredField(x).id = DeclaredField(x).column
  BY <1>2, DeclaredFields DEF BoundTo, BoundIceberg
<1> QED
  BY <1>2, <1>3, <1>4

\* So are a Delta table's, once its checks have passed.
LEMMA DeltaColumns ==
  ASSUME Consistent(PrunedTable), BoundTo(notes[1], PrunedTable), PrunedTable.format = "delta",
         ensure_binding_keys_follow_mode(notes[1], PrunedTable.mode),
         NEW x \in DOMAIN delta_columns(PrunedTable, notes[1])
  PROVE  x \in Names(notes[1]) /\ delta_columns(PrunedTable, notes[1])[x].id = DeclaredField(x).column
<1> DEFINE t == PrunedTable
           n == notes[1]
           current(d) == snapshot_field(t.schema, d)
           bound == {d \in n.fields : current(d) # {}}
           named == CHOOSE d \in bound : d.name = x
           column == CHOOSE c \in current(named) : TRUE
<1>1. x \in {d.name : d \in bound}
  BY DEF delta_columns
<1>2. delta_columns(t, n)[x] = [id |-> column, type |-> t.schema[column].type]
  BY <1>1 DEF delta_columns
<1>3. x \in Names(n)
  BY <1>1 DEF Names
<1>4. \A d \in n.fields : current(d) = {d.column}
  BY SnapshotColumn
<1>5. named \in n.fields /\ named.name = x
  BY <1>1
<1>6. named = DeclaredField(x)
  BY <1>3, <1>5, DeclaredFields DEF BoundTo, FieldsBound
<1> HIDE DEF named, current
<1>7. column = DeclaredField(x).column
  BY <1>4, <1>5, <1>6
<1> HIDE DEF column
<1> QED
  BY <1>2, <1>3, <1>7

\* A filter of a reference is a tree, and a predicate made of it a translation.
LEMMA TranslatedFilter ==
  ASSUME NEW filter, NEW n, FilterOf(filter, n), filter # None
  PROVE  /\ filter[1] \in Trees /\ ColumnsOf(filter[1]) \subseteq Names(n) /\ filter = Some(filter[1])
         /\ \A columns, format : Pruning(filter[1], columns, format) # None =>
              /\ translate(filter[1], columns, format) # None
              /\ Pruning(filter[1], columns, format)[1] = translate(filter[1], columns, format)[1].predicate
<1>1. filter[1] \in Trees /\ ColumnsOf(filter[1]) \subseteq Names(n) /\ filter = Some(filter[1])
  BY FiltersAssumption DEF FilterOf
<1>2. \A columns, format : Pruning(filter[1], columns, format) # None =>
              /\ translate(filter[1], columns, format) # None
              /\ Pruning(filter[1], columns, format)[1] = translate(filter[1], columns, format)[1].predicate
  BY SomeIs DEF Pruning
<1> QED
  BY <1>1, <1>2

\* An Iceberg file with a matching row is planned, unless f32 lost a number.
LEMMA IcebergKeeps ==
  ASSUME Consistent(PrunedTable), BoundTo(notes[1], PrunedTable), PrunedTable.format = "iceberg", planned # None,
         FilterOf(planned[1].filter, notes[1]), NarrowsNothing,
         NEW f \in FilesOf(PrunedTable), NEW j \in DOMAIN f.rows, Matches(TrueRow(f, j))
  PROVE  f \in PickedFiles(PrunedTable, notes[1], planned[1].filter)
<1> DEFINE t == PrunedTable
           n == notes[1]
           filter == planned[1].filter
           predicate == IcebergPredicate(t, n, filter)
           columns == iceberg_columns(t, n)
           stats == [c \in DOMAIN t.schema |-> StatsOf(f, c)]
           row == TrueRow(f, j)
<1>1. f \in Live(t.log) /\ FileOK(t, f)
  BY FilesLive
<1>2. f \in PickedFiles(t, n, filter) <=> predicate = None \/ MightHold(predicate[1], stats)
  BY <1>1 DEF PickedFiles, Tasks
<1>3. SUFFICES ASSUME predicate # None PROVE MightHold(predicate[1], stats)
  BY <1>2
<1>4. filter # None /\ predicate = Pruning(filter[1], columns, "iceberg")
  BY <1>3 DEF IcebergPredicate, to_iceberg_predicate
<1>5. /\ filter[1] \in Trees
      /\ translate(filter[1], columns, "iceberg") # None
      /\ predicate[1] = translate(filter[1], columns, "iceberg")[1].predicate
  BY <1>3, <1>4, TranslatedFilter
<1>6. FloatsExact(filter[1], columns)
  BY <1>4 DEF NarrowsNothing
<1>7. Truth(filter[1], row) = "T"
  BY <1>4 DEF Matches
<1> HIDE DEF predicate, columns, row, filter
<1>8. ASSUME NEW x \in DOMAIN columns
      PROVE  columns[x].id \in Int /\ row[x] \in Int /\ CoveredBy(stats[columns[x].id], row[x])
  <2> DEFINE c == DeclaredField(x).column
  <2>1. x \in Names(n) /\ columns[x].id = c
    BY IcebergColumns DEF columns
  <2>2. c \in DOMAIN t.schema
    BY <2>1, DeclaredFields DEF BoundTo, FieldsBound
  <2>3. c \in Int
    BY <2>2 DEF Consistent, SchemaOK
  <2>4. row[x] = TrueValue(f, j, c) /\ row[x] \in Int
    BY <2>1, RowTyped DEF row
  <2>5. TrueValue(f, j, c) = StoredValue(f, j, c)
    BY DEF TrueValue, StoredValue
  <2>6. CoveredBy(StatsOf(f, c), StoredValue(f, j, c))
    BY <1>1, StatsCover
  <2> HIDE DEF c
  <2> QED
    BY <2>1, <2>2, <2>3, <2>4, <2>5, <2>6
<1>9. ColumnsOK(columns) /\ Covered(stats, columns, row) /\ \A x \in DOMAIN columns : row[x] \in Int
  BY <1>8 DEF ColumnsOK, Covered
<1> HIDE DEF stats
<1>10. MightHold(translate(filter[1], columns, "iceberg")[1].predicate, stats)
  BY <1>5, <1>6, <1>7, <1>9, TranslateSound
<1> QED
  BY <1>5, <1>10

\* A Delta file with a matching row is planned.
LEMMA DeltaKeeps ==
  ASSUME Consistent(PrunedTable), BoundTo(notes[1], PrunedTable), PrunedTable.format = "delta", planned # None,
         ensure_binding_keys_follow_mode(notes[1], PrunedTable.mode),
         FilterOf(planned[1].filter, notes[1]),
         NEW f \in FilesOf(PrunedTable), NEW j \in DOMAIN f.rows, Matches(TrueRow(f, j))
  PROVE  f \in PickedFiles(PrunedTable, notes[1], planned[1].filter)
<1> DEFINE t == PrunedTable
           n == notes[1]
           filter == planned[1].filter
           predicate == DeltaPredicate(t, n, filter)
           columns == delta_columns(t, n)
           stats == [c \in DOMAIN t.schema |-> KernelStats(t, f, c)]
           row == TrueRow(f, j)
<1>1. f \in Live(t.log) /\ FileOK(t, f)
  BY FilesLive
<1>2. f \in PickedFiles(t, n, filter) <=> predicate = None \/ MightHold(predicate[1], stats)
  BY <1>1 DEF PickedFiles, Shown
<1>3. SUFFICES ASSUME predicate # None PROVE MightHold(predicate[1], stats)
  BY <1>2
<1>4. filter # None /\ predicate = Pruning(filter[1], columns, "delta")
  BY <1>3 DEF DeltaPredicate, to_delta_predicate
<1>5. /\ filter[1] \in Trees
      /\ translate(filter[1], columns, "delta") # None
      /\ predicate[1] = translate(filter[1], columns, "delta")[1].predicate
  BY <1>3, <1>4, TranslatedFilter
<1>6. Truth(filter[1], row) = "T"
  BY <1>4 DEF Matches
<1> HIDE DEF predicate, columns, row, filter
<1>7. ASSUME NEW x \in DOMAIN columns
      PROVE  columns[x].id \in Int /\ row[x] \in Int /\ CoveredBy(stats[columns[x].id], row[x])
  <2> DEFINE c == DeclaredField(x).column
  <2>1. x \in Names(n) /\ columns[x].id = c
    BY DeltaColumns DEF columns
  <2>2. c \in DOMAIN t.schema
    BY <2>1, DeclaredFields DEF BoundTo, FieldsBound
  <2>3. c \in Int
    BY <2>2 DEF Consistent, SchemaOK
  <2>4. row[x] = TrueValue(f, j, c) /\ row[x] \in Int
    BY <2>1, RowTyped DEF row
  <2>5. TrueValue(f, j, c) = IF c \in ToSet(t.parts) THEN f.parts[t.schema[c].physical] ELSE StoredValue(f, j, c)
    BY DEF TrueValue, StoredValue
  <2>6. CoveredBy(StatsOf(f, c), StoredValue(f, j, c))
    BY <1>1, StatsCover
  <2> HIDE DEF c
  <2>7. t.schema[c].physical \in DOMAIN f.parts <=> c \in ToSet(t.parts)
    <3>1. DOMAIN f.parts = {t.schema[y].physical : y \in ToSet(t.parts)}
      BY <1>1 DEF FileOK
    <3>2. ToSet(t.parts) \subseteq DOMAIN t.schema
      BY DEF Consistent, SchemaOK, ToSet
    <3>3. \A y, z \in DOMAIN t.schema : y # z => t.schema[y].physical # t.schema[z].physical
      BY DEF Consistent, SchemaOK
    <3> QED
      BY <2>2, <3>1, <3>2, <3>3
  <2>8. CoveredBy(KernelStats(t, f, c), row[x])
    <3>1. CASE c \in ToSet(t.parts)
      <4> DEFINE v == f.parts[t.schema[c].physical]
                 s == [low |-> v, high |-> v, nulls |-> v = Null]
      <4>1. KernelStats(t, f, c) = Some(s) /\ row[x] = v
        BY <2>4, <2>5, <2>7, <3>1 DEF KernelStats
      <4>2. v \in Int
        BY <2>4, <4>1
      <4> HIDE DEF v
      <4>3. s.low = v /\ s.high = v
        OBVIOUS
      <4>4. s.nulls = (v = Null)
        BY Zenon
      <4>5. v # Null => s.low # Null /\ v \in s.low .. s.high
        BY <4>2, <4>3
      <4>6. v = Null => s.nulls
        BY <4>4, Zenon
      <4> HIDE DEF s
      <4> QED
        BY <4>1, <4>5, <4>6, SomeIs, Zenon DEF CoveredBy
    <3>2. CASE c \notin ToSet(t.parts)
      BY <2>4, <2>5, <2>6, <2>7, <3>2 DEF KernelStats
    <3> QED
      BY <3>1, <3>2
  <2> QED
    BY <2>1, <2>2, <2>3, <2>4, <2>8
<1>8. ColumnsOK(columns) /\ Covered(stats, columns, row) /\ \A x \in DOMAIN columns : row[x] \in Int
  BY <1>7 DEF ColumnsOK, Covered
<1> HIDE DEF stats
<1>9. MightHold(translate(filter[1], columns, "delta")[1].predicate, stats)
  BY <1>5, <1>6, <1>8, TranslateSound
<1> QED
  BY <1>5, <1>9

\* A directory's or a Glue table's file with a matching row is planned.
LEMMA PlainKeeps ==
  ASSUME Consistent(PrunedTable), BoundTo(notes[1], PrunedTable), Plain(PrunedTable), planned # None,
         FilterOf(planned[1].filter, notes[1]), ensure_scannable(notes[1]),
         NEW f \in FilesOf(PrunedTable), NEW j \in DOMAIN f.rows, Matches(TrueRow(f, j))
  PROVE  f \in PickedFiles(PrunedTable, notes[1], planned[1].filter)
<1> DEFINE t == PrunedTable
           n == notes[1]
           filter == planned[1].filter
           values == IF t.format = "glue" THEN RegisteredValues(t, n, f) ELSE SegmentValues(n, f)
           row == TrueRow(f, j)
<1>1. (\A types : keeps(filter, types, values)) => f \in PickedFiles(t, n, filter)
  BY FormatsApart DEF PickedFiles, FilesOf, Plain
<1>2. SUFFICES ASSUME NEW types PROVE keeps(filter, types, values)
  BY <1>1
<1>3. CASE filter = None
  BY <1>3 DEF keeps
<1>4. CASE filter # None
  <2>1. filter[1] \in Trees /\ ColumnsOf(filter[1]) \subseteq Names(n) /\ filter = Some(filter[1])
    BY <1>4, TranslatedFilter
  <2>2. Truth(filter[1], row) = "T"
    BY <1>4 DEF Matches
  <2>3. \A x \in Names(n) : row[x] \in Int /\ row[x] = TrueValue(f, j, DeclaredField(x).column)
    BY RowTyped
  <2>4. ASSUME NEW x \in DOMAIN values PROVE row[x] = values[x]
    <3> DEFINE d == DeclaredField(x)
    <3>1. x \in ToSet(n.parts) /\ x \in Names(n)
      BY DEF RegisteredValues, SegmentValues, BoundTo, BoundPlain, ensure_scannable
    <3>2. d \in n.fields /\ d.name = x
      BY <3>1, DeclaredFields
    <3> HIDE DEF d
    <3>3. d.column \in ToSet(t.parts) /\ Upper(x) = Upper(t.schema[d.column].name)
      BY <3>1, <3>2 DEF BoundTo, BoundPlain, KeyOf
    <3>4. SegmentValue(f, x) = SegmentValue(f, t.schema[d.column].name)
      BY <3>3 DEF SegmentValue
    <3>5. TrueValue(f, j, d.column) = IF t.format = "glue" THEN RegisteredAs(t, f).value
                                      ELSE SegmentValue(f, t.schema[d.column].name)
      BY <3>3, FormatsApart DEF TrueValue, RegisteredAs, Plain
    <3>6. values[x] = IF t.format = "glue" THEN RegisteredAs(t, f).value ELSE SegmentValue(f, x)
      BY <3>1 DEF RegisteredValues, SegmentValues
    <3>7. row[x] = TrueValue(f, j, d.column)
      BY <2>3, <3>1 DEF d
    <3> QED
      BY <3>4, <3>5, <3>6, <3>7
  <2> HIDE DEF values, row
  <2>5. Agrees(values, row)
    BY <2>4 DEF Agrees
  <2>6. keeps(Some(filter[1]), types, values)
    BY <2>1, <2>2, <2>3, <2>5, KeepsSound
  <2> QED
    BY <2>1, <2>6
<1> QED
  BY <1>3, <1>4

\* A file with a matching row is planned.
LEMMA MatchingChosen ==
  ASSUME IInv, Answered, NarrowsNothing,
         NEW f \in FilesOf(PrunedTable), NEW j \in DOMAIN f.rows, Matches(TrueRow(f, j))
  PROVE  f \in PickedFiles(PrunedTable, notes[1], planned[1].filter)
<1>1. /\ Consistent(PrunedTable) /\ BoundTo(notes[1], PrunedTable)
      /\ FilterOf(planned[1].filter, notes[1]) /\ planned # None
  BY EntriesPlanned DEF Answered
<1>2. CASE PrunedTable.format = "iceberg"
  BY <1>1, <1>2, IcebergKeeps
<1>3. CASE PrunedTable.format = "delta"
  BY <1>1, <1>3, AnsweredChecked, DeltaKeeps
<1>4. CASE Plain(PrunedTable)
  BY <1>1, <1>4, PlainKeeps DEF IInv, PlannedInv, Answered
<1> QED
  BY <1>1, <1>2, <1>3, <1>4 DEF Consistent, Formats, Plain

\* A plan's rows are the table's.
LEMMA AnswerRows ==
  ASSUME IInv, Answered, NarrowsNothing
  PROVE  AnswerIsSnapshot
<1> DEFINE t == PrunedTable
           n == notes[1]
           S == PickedFiles(t, n, planned[1].filter)
           readrow(e, j) == [x \in Names(n) |-> ReadValue(e, j, DeclaredField(x))]
           read(e) == {<<e.path, i>> : i \in {j \in DOMAIN FileAt(e.path).rows \ Deleted(e.deletes) :
                         Matches(readrow(e, j))}}
           held(f) == {<<f.path, i>> : i \in {j \in LivePositions(f) : Matches(TrueRow(f, j))}}
<1>1. /\ Consistent(t) /\ BoundTo(n, t)
      /\ \A i \in DOMAIN Entries : \E f \in S : Entries[i] = EntryOf(t, n, f)
      /\ \A f \in S : \E i \in DOMAIN Entries : Entries[i] = EntryOf(t, n, f)
  BY EntriesPlanned DEF PlanOf
<1>2. AnswerIsSnapshot <=> UNION {read(e) : e \in ToSet(Entries)} = UNION {held(f) : f \in FilesOf(t)}
  BY TableFilesAre DEF AnswerIsSnapshot, TrueRow
<1>3. ASSUME NEW f \in FilesOf(t) PROVE read(EntryOf(t, n, f)) = held(f)
  <2> DEFINE e == EntryOf(t, n, f)
  <2>1. e.path = f.path /\ e.deletes = f.deletes
    BY DEF EntryOf
  <2>2. FileAt(e.path) = f
    BY <1>1, <2>1, FilesLive, FileFound
  <2>3. DOMAIN FileAt(e.path).rows \ Deleted(e.deletes) = LivePositions(f) /\ LivePositions(f) \subseteq DOMAIN f.rows
    BY <2>1, <2>2 DEF LivePositions
  <2>4. ASSUME NEW j \in LivePositions(f) PROVE readrow(e, j) = TrueRow(f, j)
    <3>1. \A x \in Names(n) : ReadValue(e, j, DeclaredField(x)) = TrueValue(f, j, DeclaredField(x).column)
      BY <2>3, ReadsTrue, DeclaredFields
    <3> QED
      BY <3>1 DEF TrueRow
  <2> HIDE DEF e, readrow
  <2>5. read(e) = held(f)
    BY <2>1, <2>3, <2>4
  <2> QED
    BY <2>5 DEF e
<1>4. ASSUME NEW e \in ToSet(Entries) PROVE \E f \in FilesOf(t) : read(e) = held(f)
  <2>1. PICK f \in S : e = EntryOf(t, n, f)
    BY <1>1 DEF ToSet
  <2>2. f \in FilesOf(t)
    BY <1>1, ChosenFiles
  <2> HIDE DEF read, held
  <2> QED
    BY <1>3, <2>1, <2>2
<1>5. ASSUME NEW f \in FilesOf(t), held(f) # {} PROVE \E e \in ToSet(Entries) : read(e) = held(f)
  <2>1. PICK j \in LivePositions(f) : Matches(TrueRow(f, j))
    BY <1>5
  <2>2. j \in DOMAIN f.rows
    BY DEF LivePositions
  <2>3. f \in S
    BY <2>1, <2>2, MatchingChosen
  <2>4. PICK i \in DOMAIN Entries : Entries[i] = EntryOf(t, n, f)
    BY <1>1, <2>3
  <2> HIDE DEF read, held
  <2> QED
    BY <1>3, <2>4 DEF ToSet
<1> HIDE DEF read, held
<1>6. UNION {read(e) : e \in ToSet(Entries)} = UNION {held(f) : f \in FilesOf(t)}
  <2>1. \A x : x \in UNION {read(e) : e \in ToSet(Entries)} => x \in UNION {held(f) : f \in FilesOf(t)}
    BY <1>4
  <2>2. \A x : x \in UNION {held(f) : f \in FilesOf(t)} => x \in UNION {read(e) : e \in ToSet(Entries)}
    BY <1>5
  <2> QED
    BY <2>1, <2>2
<1> QED
  BY <1>2, <1>6

\* The rows of the planned files that pass the filter are exactly the rows of the opened table that
\* pass it, whatever its writers did since the CREATE, as long as f32 holds the numbers that an
\* Iceberg filter compares with float columns.
THEOREM AnswersTheSnapshot == Spec => [](NarrowsNothing => AnswerIsSnapshot)
<1>1. IInv => (NarrowsNothing => AnswerIsSnapshot)
  <2>1. ~Answered => AnswerIsSnapshot
    BY DEF AnswerIsSnapshot
  <2> QED
    BY <2>1, AnswerRows
<1> QED
  BY <1>1, Invariance, PTL
=============================================================================
