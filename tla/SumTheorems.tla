---------------------------- MODULE SumTheorems ----------------------------
(***************************************************************************)
(* Finite sums: what SumFunctionOnSet of the community modules computes.   *)
(* The fold takes its set apart in an order of CHOOSE's making, so the     *)
(* first thing to show is that the order does not matter.  Induction is    *)
(* over sets of subsets and sets of numbers.  At the end, quotients.       *)
(***************************************************************************)
EXTENDS Functions, FiniteSetTheorems, TLAPS

-----------------------------------------------------------------------------
(***************************************************************************)
(* Induction.                                                              *)
(***************************************************************************)
\* A set of numbers that contains 0 and every successor contains them all.
LEMMA NatSetInduction ==
  ASSUME NEW Q, 0 \in Q, \A n \in Nat : n \in Q => n + 1 \in Q
  PROVE  Nat \subseteq Q
<1> DEFINE R == OpToRel(<, Nat)
           T == Nat \ Q
<1>1. IsWellFoundedOn(R, Nat)
  BY NatLessThanWellFounded
<1>2. \A m, n \in Nat : m < n => <<m, n>> \in R
  BY DEF OpToRel
<1> SUFFICES ASSUME T # {} PROVE FALSE
  OBVIOUS
<1>3. PICK x \in T : \A y \in T : ~(<<y, x>> \in R)
  <2> HIDE DEF R
  <2> QED
    BY <1>1, WFMin
<1>4. x \in Nat \ {0} /\ x - 1 \in Nat /\ x - 1 < x
  BY DEF T
<1>5. x - 1 \in Q
  BY <1>2, <1>3, <1>4
<1>6. x = (x - 1) + 1
  BY <1>4
<1> QED
  BY <1>4, <1>5, <1>6

\* A set of numbers that contains every number whose predecessors it contains
\* contains them all.
LEMMA StrongInduction ==
  ASSUME NEW Q, \A m \in Nat : (\A k \in Nat : k < m => k \in Q) => m \in Q
  PROVE  Nat \subseteq Q
<1> DEFINE P == {m \in Nat : \A k \in Nat : k < m => k \in Q}
<1>1. 0 \in P
  OBVIOUS
<1>2. ASSUME NEW m \in Nat, m \in P
      PROVE  m + 1 \in P
  <2>1. m \in Q
    BY <1>2
  <2>2. \A k \in Nat : k < m + 1 => k < m \/ k = m
    OBVIOUS
  <2> QED
    BY <1>2, <2>1, <2>2
<1>3. Nat \subseteq P
  <2> HIDE DEF P
  <2> QED
    BY <1>1, <1>2, NatSetInduction
<1>4. \A m \in Nat : m \in Q
  BY <1>3
<1> QED
  BY <1>4

\* A set of subsets of S that contains a subset whenever it contains the smaller
\* ones contains all of them.
LEMMA SubsetInduction ==
  ASSUME NEW S, IsFiniteSet(S), NEW Q,
         \A T \in SUBSET S : (\A U \in SUBSET T : U # T => U \in Q) => T \in Q
  PROVE  SUBSET S \subseteq Q
<1> DEFINE R == StrictSubsetOrdering(S)
           Bad == (SUBSET S) \ Q
<1>1. IsWellFoundedOn(R, SUBSET S)
  BY FS_StrictSubsetOrderingWellFounded, FS_FiniteSubsetsOfFinite
<1>2. \A T, U \in SUBSET S : U \subseteq T /\ U # T => <<U, T>> \in R
  BY DEF StrictSubsetOrdering
<1> SUFFICES ASSUME Bad # {} PROVE FALSE
  OBVIOUS
<1>3. Bad \subseteq SUBSET S
  OBVIOUS
<1> HIDE DEF R, Bad
<1>4. PICK T \in Bad : \A U \in Bad : ~(<<U, T>> \in R)
  BY <1>1, <1>3, WFMin
<1>5. \A U \in SUBSET T : U # T => U \notin Bad /\ U \in SUBSET S
  BY <1>2, <1>3, <1>4
<1>6. \A U \in SUBSET T : U # T => U \in Q
  BY <1>5 DEF Bad
<1> QED
  BY <1>3, <1>4, <1>6 DEF Bad

\* A set of subsets of S that contains {} and grows by any element of S contains S.
LEMMA FiniteInduction ==
  ASSUME NEW S, IsFiniteSet(S), NEW Q, {} \in Q,
         \A T \in SUBSET S, x \in S : T \in Q /\ x \notin T => T \cup {x} \in Q
  PROVE  S \in Q
<1>1. ASSUME NEW T \in SUBSET S, \A U \in SUBSET T : U # T => U \in Q
      PROVE  T \in Q
  <2>1. CASE T = {}
    BY <2>1
  <2>2. CASE T # {}
    <3>1. PICK x \in T : TRUE
      BY <2>2
    <3>2. T \ {x} \in SUBSET S /\ x \in S /\ x \notin T \ {x} /\ T \ {x} \in Q
      BY <1>1, <3>1
    <3>3. (T \ {x}) \cup {x} = T
      BY <3>1
    <3> QED
      BY <3>2, <3>3
  <2> QED
    BY <2>1, <2>2
<1>2. SUBSET S \subseteq Q
  BY <1>1, SubsetInduction
<1> QED
  BY <1>2

-----------------------------------------------------------------------------
(***************************************************************************)
(* The fold.                                                               *)
(***************************************************************************)
One(s) == CHOOSE x \in s : TRUE
Turn(f, g, s) == IF s = {} THEN 0 ELSE f[One(s)] + g[s \ {One(s)}]
Iter(f, g, S) == g = [s \in SUBSET S |-> Turn(f, g, s)]

\* The recursion has a solution: one for the subsets of at most n elements, for
\* every n.
LEMMA IterExists ==
  ASSUME NEW f, NEW S, IsFiniteSet(S)
  PROVE  \E g : Iter(f, g, S)
<1> DEFINE D(n) == {s \in SUBSET S : Cardinality(s) =< n}
           Q == {n \in Nat : \E g : g = [s \in D(n) |-> Turn(f, g, s)]}
<1>1. \A s \in SUBSET S : IsFiniteSet(s) /\ Cardinality(s) \in Nat
  BY FS_Subset, FS_CardinalityType
<1>2. ASSUME NEW n \in Nat, NEW s \in D(n + 1), s # {}
      PROVE  s \ {One(s)} \in D(n)
  <2>1. One(s) \in s
    BY <1>2 DEF One
  <2>2. IsFiniteSet(s) /\ Cardinality(s) \in Nat /\ Cardinality(s) =< n + 1
    BY <1>1
  <2>3. Cardinality(s \ {One(s)}) = Cardinality(s) - 1
    BY <2>1, <2>2, FS_RemoveElement
  <2> QED
    BY <2>2, <2>3
<1>3. 0 \in Q
  <2>1. D(0) = {{}}
    <3>1. \A s \in D(0) : s = {}
      BY <1>1, FS_EmptySet
    <3>2. {} \in D(0)
      BY FS_EmptySet
    <3> QED
      BY <3>1, <3>2
  <2> DEFINE g == [s \in D(0) |-> 0]
  <2>2. g = [s \in D(0) |-> Turn(f, g, s)]
    BY <2>1 DEF Turn
  <2> QED
    BY <2>2
<1>4. ASSUME NEW n \in Nat, n \in Q
      PROVE  n + 1 \in Q
  <2>1. PICK g : g = [s \in D(n) |-> Turn(f, g, s)]
    BY <1>4
  <2> DEFINE h == [s \in D(n + 1) |-> Turn(f, g, s)]
  <2>2. ASSUME NEW s \in D(n + 1)
        PROVE  Turn(f, g, s) = Turn(f, h, s)
    <3>1. CASE s = {}
      BY <3>1 DEF Turn
    <3>2. CASE s # {}
      <4> DEFINE u == s \ {One(s)}
      <4>1. u \in D(n)
        BY <1>2, <3>2
      <4>2. u \in D(n + 1)
        BY <1>1, <4>1
      <4>3. g[u] = Turn(f, g, u) /\ h[u] = Turn(f, g, u)
        <5> HIDE DEF u, D
        <5>1. g[u] = Turn(f, g, u)
          BY <2>1, <4>1
        <5>2. h[u] = Turn(f, g, u)
          BY <4>2
        <5> QED
          BY <5>1, <5>2
      <4> QED
        BY <3>2, <4>3 DEF Turn
    <3> QED
      BY <3>1, <3>2
  <2>3. h = [s \in D(n + 1) |-> Turn(f, h, s)]
    <3> HIDE DEF D
    <3> QED
      BY <2>2
  <2> HIDE DEF D, h
  <2>4. \E k : k = [s \in D(n + 1) |-> Turn(f, k, s)]
    BY <2>3
  <2> QED
    BY <2>4
<1>5. Cardinality(S) \in Q
  <2> HIDE DEF Q
  <2> QED
    BY <1>3, <1>4, NatSetInduction, FS_CardinalityType
<1>6. D(Cardinality(S)) = SUBSET S
  BY FS_Subset
<1> QED
  BY <1>5, <1>6 DEF Iter

\* Two solutions agree where both are defined.
LEMMA IterUnique ==
  ASSUME NEW f, NEW S, IsFiniteSet(S), NEW T \in SUBSET S, NEW g, NEW h,
         Iter(f, g, S), Iter(f, h, T)
  PROVE  g[T] = h[T]
<1> DEFINE Q == {U \in SUBSET T : g[U] = h[U]}
<1>1. ASSUME NEW U \in SUBSET T, \A V \in SUBSET U : V # U => V \in Q
      PROVE  U \in Q
  <2>1. g[U] = Turn(f, g, U) /\ h[U] = Turn(f, h, U)
    <3>1. U \in SUBSET S
      OBVIOUS
    <3> QED
      BY <3>1 DEF Iter
  <2>2. CASE U = {}
    BY <2>1, <2>2 DEF Turn
  <2>3. CASE U # {}
    <3>1. One(U) \in U
      BY <2>3 DEF One
    <3>2. U \ {One(U)} \in Q
      BY <1>1, <3>1
    <3>3. g[U \ {One(U)}] = h[U \ {One(U)}]
      BY <3>2
    <3> QED
      BY <2>1, <2>3, <3>3 DEF Turn
  <2> QED
    BY <2>2, <2>3
<1>2. IsFiniteSet(T)
  BY FS_Subset
<1>3. SUBSET T \subseteq Q
  <2> HIDE DEF Q
  <2> QED
    BY <1>1, <1>2, SubsetInduction
<1> QED
  BY <1>3

\* The sum is what a solution gives.
LEMMA SumIter ==
  ASSUME NEW f, NEW S, IsFiniteSet(S)
  PROVE  \E g : Iter(f, g, S) /\ \A T \in SUBSET S : SumFunctionOnSet(f, T) = g[T]
<1>1. \A T : SumFunctionOnSet(f, T) = (CHOOSE h : Iter(f, h, T))[T]
  BY DEF SumFunctionOnSet, FoldFunctionOnSet, MapThenFoldSet, Iter, Turn, One
<1>2. PICK g : Iter(f, g, S)
  BY IterExists
<1>3. ASSUME NEW T \in SUBSET S
      PROVE  SumFunctionOnSet(f, T) = g[T]
  <2>1. IsFiniteSet(T)
    BY FS_Subset
  <2>2. Iter(f, CHOOSE h : Iter(f, h, T), T)
    BY <2>1, IterExists
  <2> QED
    BY <1>1, <1>2, <2>2, IterUnique
<1> QED
  BY <1>2, <1>3

-----------------------------------------------------------------------------
(***************************************************************************)
(* Sums.                                                                   *)
(***************************************************************************)
\* The empty sum.
LEMMA SumEmpty ==
  ASSUME NEW f
  PROVE  SumFunctionOnSet(f, {}) = 0
<1>1. IsFiniteSet({})
  BY FS_EmptySet
<1>2. PICK g : Iter(f, g, {}) /\ \A T \in SUBSET {} : SumFunctionOnSet(f, T) = g[T]
  BY <1>1, SumIter
<1>3. g[{}] = 0
  BY <1>2 DEF Iter, Turn
<1> QED
  BY <1>2, <1>3

\* One turn of the fold.
LEMMA SumTurn ==
  ASSUME NEW f, NEW S, IsFiniteSet(S), NEW T \in SUBSET S, T # {}
  PROVE  /\ One(T) \in T
         /\ SumFunctionOnSet(f, T) = f[One(T)] + SumFunctionOnSet(f, T \ {One(T)})
<1>1. PICK g : Iter(f, g, S) /\ \A U \in SUBSET S : SumFunctionOnSet(f, U) = g[U]
  BY SumIter
<1>2. One(T) \in T
  BY DEF One
<1>3. g[T] = f[One(T)] + g[T \ {One(T)}]
  BY <1>1 DEF Iter, Turn
<1>4. T \ {One(T)} \in SUBSET S
  OBVIOUS
<1> QED
  BY <1>1, <1>2, <1>3, <1>4

\* The sum of integers is an integer, and any element may be taken out of it.
LEMMA SumOut ==
  ASSUME NEW f, NEW S, IsFiniteSet(S), \A x \in S : f[x] \in Int
  PROVE  \A T \in SUBSET S :
           /\ SumFunctionOnSet(f, T) \in Int
           /\ \A x \in T : SumFunctionOnSet(f, T) = f[x] + SumFunctionOnSet(f, T \ {x})
<1> DEFINE Sum(T) == SumFunctionOnSet(f, T)
           Q == {T \in SUBSET S : Sum(T) \in Int /\ \A x \in T : Sum(T) = f[x] + Sum(T \ {x})}
<1>1. ASSUME NEW T \in SUBSET S, \A U \in SUBSET T : U # T => U \in Q
      PROVE  T \in Q
  <2>1. CASE T = {}
    BY <2>1, SumEmpty
  <2>2. CASE T # {}
    <3> DEFINE y == One(T)
    <3>1. y \in T /\ Sum(T) = f[y] + Sum(T \ {y})
      BY <2>2, SumTurn
    <3> HIDE DEF y, Sum
    <3>2. \A x \in T : T \ {x} \in Q /\ f[x] \in Int
      BY <1>1
    <3>3. \A x \in T : Sum(T \ {x}) \in Int
      BY <3>2
    <3>4. Sum(T) \in Int
      BY <3>1, <3>2, <3>3
    <3>5. ASSUME NEW x \in T, x # y
          PROVE  Sum(T) = f[x] + Sum(T \ {x})
      <4> DEFINE u == (T \ {y}) \ {x}
      <4>1. x \in T \ {y} /\ y \in T \ {x} /\ (T \ {x}) \ {y} = u
        BY <3>1, <3>5
      <4>2. Sum(T \ {y}) = f[x] + Sum(u) /\ Sum(T \ {x}) = f[y] + Sum(u)
        BY <3>1, <3>2, <4>1
      <4>3. u \in SUBSET T /\ u # T
        BY <4>1
      <4>4. Sum(u) \in Int
        BY <1>1, <4>3
      <4> QED
        BY <3>1, <3>2, <4>2, <4>4
    <3> QED
      BY <3>1, <3>4, <3>5
  <2> QED
    BY <2>1, <2>2
<1>2. SUBSET S \subseteq Q
  <2> HIDE DEF Q
  <2> QED
    BY <1>1, SubsetInduction
<1> QED
  BY <1>2

\* A sum of integers is an integer.
THEOREM SumType ==
  ASSUME NEW f, NEW S, IsFiniteSet(S), \A x \in S : f[x] \in Int
  PROVE  SumFunctionOnSet(f, S) \in Int
BY SumOut

\* The order of a sum does not matter: any element may come first.
THEOREM SumAdd ==
  ASSUME NEW f, NEW S, IsFiniteSet(S), \A x \in S : f[x] \in Int,
         NEW y, y \notin S, f[y] \in Int
  PROVE  SumFunctionOnSet(f, S \cup {y}) = SumFunctionOnSet(f, S) + f[y]
<1> DEFINE U == S \cup {y}
<1>1. IsFiniteSet(U) /\ \A x \in U : f[x] \in Int
  BY FS_AddElement
<1>2. U \ {y} = S /\ y \in U
  OBVIOUS
<1> HIDE DEF U
<1>3. SumFunctionOnSet(f, U) = f[y] + SumFunctionOnSet(f, U \ {y})
  BY <1>1, <1>2, SumOut
<1>4. SumFunctionOnSet(f, S) \in Int
  BY SumType
<1>5. SumFunctionOnSet(f, U) = f[y] + SumFunctionOnSet(f, S)
  BY <1>2, <1>3
<1> QED
  BY <1>4, <1>5 DEF U

\* A sum depends on its terms only.
LEMMA SumSame ==
  ASSUME NEW f, NEW g, NEW S, IsFiniteSet(S),
         \A x \in S : f[x] \in Int /\ g[x] = f[x]
  PROVE  SumFunctionOnSet(g, S) = SumFunctionOnSet(f, S)
<1> DEFINE Q == {T \in SUBSET S : SumFunctionOnSet(g, T) = SumFunctionOnSet(f, T)}
<1>1. {} \in Q
  BY SumEmpty
<1>2. ASSUME NEW T \in SUBSET S, NEW x \in S, T \in Q, x \notin T
      PROVE  T \cup {x} \in Q
  <2>1. IsFiniteSet(T) /\ T \cup {x} \in SUBSET S
    BY FS_Subset
  <2>2. /\ SumFunctionOnSet(f, T \cup {x}) = SumFunctionOnSet(f, T) + f[x]
        /\ SumFunctionOnSet(g, T \cup {x}) = SumFunctionOnSet(g, T) + g[x]
    BY <1>2, <2>1, SumAdd
  <2> QED
    BY <1>2, <2>1, <2>2
<1> HIDE DEF Q
<1>3. S \in Q
  BY <1>1, <1>2, FiniteInduction
<1> QED
  BY <1>3 DEF Q

\* Sums are compared term by term.
THEOREM SumAtMost ==
  ASSUME NEW f, NEW g, NEW S, IsFiniteSet(S),
         \A x \in S : f[x] \in Int /\ g[x] \in Int /\ f[x] =< g[x]
  PROVE  SumFunctionOnSet(f, S) =< SumFunctionOnSet(g, S)
<1> DEFINE Q == {T \in SUBSET S : SumFunctionOnSet(f, T) =< SumFunctionOnSet(g, T)}
<1>1. {} \in Q
  BY SumEmpty
<1>2. ASSUME NEW T \in SUBSET S, NEW x \in S, T \in Q, x \notin T
      PROVE  T \cup {x} \in Q
  <2>1. IsFiniteSet(T) /\ T \cup {x} \in SUBSET S
    BY FS_Subset
  <2>2. /\ SumFunctionOnSet(f, T \cup {x}) = SumFunctionOnSet(f, T) + f[x]
        /\ SumFunctionOnSet(g, T \cup {x}) = SumFunctionOnSet(g, T) + g[x]
        /\ SumFunctionOnSet(f, T) \in Int /\ SumFunctionOnSet(g, T) \in Int
    BY <1>2, <2>1, SumAdd, SumType
  <2> QED
    BY <1>2, <2>1, <2>2
<1> HIDE DEF Q
<1>3. S \in Q
  BY <1>1, <1>2, FiniteInduction
<1> QED
  BY <1>3 DEF Q

\* A sum of two functions is the sum of their sums.
THEOREM SumPlus ==
  ASSUME NEW f, NEW g, NEW h, NEW S, IsFiniteSet(S),
         \A x \in S : f[x] \in Int /\ g[x] \in Int /\ h[x] = f[x] + g[x]
  PROVE  SumFunctionOnSet(h, S) = SumFunctionOnSet(f, S) + SumFunctionOnSet(g, S)
<1> DEFINE Q == {T \in SUBSET S :
             SumFunctionOnSet(h, T) = SumFunctionOnSet(f, T) + SumFunctionOnSet(g, T)}
<1>1. {} \in Q
  BY SumEmpty
<1>2. ASSUME NEW T \in SUBSET S, NEW x \in S, T \in Q, x \notin T
      PROVE  T \cup {x} \in Q
  <2>1. IsFiniteSet(T) /\ T \cup {x} \in SUBSET S /\ \A y \in S : h[y] \in Int
    BY FS_Subset
  <2>2. /\ SumFunctionOnSet(f, T \cup {x}) = SumFunctionOnSet(f, T) + f[x]
        /\ SumFunctionOnSet(g, T \cup {x}) = SumFunctionOnSet(g, T) + g[x]
        /\ SumFunctionOnSet(h, T \cup {x}) = SumFunctionOnSet(h, T) + h[x]
        /\ SumFunctionOnSet(f, T) \in Int /\ SumFunctionOnSet(g, T) \in Int
    BY <1>2, <2>1, SumAdd, SumType
  <2> QED
    BY <1>2, <2>1, <2>2
<1> HIDE DEF Q
<1>3. S \in Q
  BY <1>1, <1>2, FiniteInduction
<1> QED
  BY <1>3 DEF Q

\* A common factor is taken out of a sum.
THEOREM SumTimes ==
  ASSUME NEW k \in Int, NEW f, NEW g, NEW S, IsFiniteSet(S),
         \A x \in S : f[x] \in Int /\ g[x] = k * f[x]
  PROVE  SumFunctionOnSet(g, S) = k * SumFunctionOnSet(f, S)
<1> DEFINE Q == {T \in SUBSET S : SumFunctionOnSet(g, T) = k * SumFunctionOnSet(f, T)}
<1>1. {} \in Q
  BY SumEmpty
<1>2. ASSUME NEW T \in SUBSET S, NEW x \in S, T \in Q, x \notin T
      PROVE  T \cup {x} \in Q
  <2>1. IsFiniteSet(T) /\ T \cup {x} \in SUBSET S /\ \A y \in S : g[y] \in Int
    BY FS_Subset
  <2>2. /\ SumFunctionOnSet(f, T \cup {x}) = SumFunctionOnSet(f, T) + f[x]
        /\ SumFunctionOnSet(g, T \cup {x}) = SumFunctionOnSet(g, T) + g[x]
        /\ SumFunctionOnSet(f, T) \in Int
    BY <1>2, <2>1, SumAdd, SumType
  <2>3. \A a, b \in Int : k * (a + b) = k * a + k * b
    OBVIOUS
  <2> QED
    BY <1>2, <2>1, <2>2, <2>3
<1> HIDE DEF Q
<1>3. S \in Q
  BY <1>1, <1>2, FiniteInduction
<1> QED
  BY <1>3 DEF Q

\* Two parts.
THEOREM SumUnion ==
  ASSUME NEW f, NEW S, IsFiniteSet(S), NEW T, IsFiniteSet(T), S \cap T = {},
         \A x \in S \cup T : f[x] \in Int
  PROVE  SumFunctionOnSet(f, S \cup T) = SumFunctionOnSet(f, S) + SumFunctionOnSet(f, T)
<1> DEFINE Q == {U \in SUBSET T :
             SumFunctionOnSet(f, S \cup U) = SumFunctionOnSet(f, S) + SumFunctionOnSet(f, U)}
<1>1. {} \in Q
  <2>1. S \cup {} = S
    OBVIOUS
  <2> QED
    BY <2>1, SumEmpty, SumType
<1>2. ASSUME NEW U \in SUBSET T, NEW x \in T, U \in Q, x \notin U
      PROVE  U \cup {x} \in Q
  <2>1. IsFiniteSet(U) /\ IsFiniteSet(S \cup U) /\ x \notin S \cup U
    BY <1>2, FS_Subset, FS_Union
  <2>2. S \cup (U \cup {x}) = (S \cup U) \cup {x}
    OBVIOUS
  <2>3. /\ SumFunctionOnSet(f, U \cup {x}) = SumFunctionOnSet(f, U) + f[x]
        /\ SumFunctionOnSet(f, (S \cup U) \cup {x}) = SumFunctionOnSet(f, S \cup U) + f[x]
        /\ SumFunctionOnSet(f, U) \in Int /\ SumFunctionOnSet(f, S) \in Int
    BY <1>2, <2>1, SumAdd, SumType
  <2>4. SumFunctionOnSet(f, S \cup U) = SumFunctionOnSet(f, S) + SumFunctionOnSet(f, U)
    BY <1>2
  <2> DEFINE V == U \cup {x}
  <2>5. SumFunctionOnSet(f, S \cup V) = SumFunctionOnSet(f, S) + SumFunctionOnSet(f, V)
    <3>1. f[x] \in Int
      OBVIOUS
    <3>2. S \cup V = (S \cup U) \cup {x}
      BY <2>2
    <3>3. SumFunctionOnSet(f, S \cup V) = SumFunctionOnSet(f, S) + SumFunctionOnSet(f, U) + f[x]
      BY <2>3, <2>4, <3>2
    <3>4. SumFunctionOnSet(f, V) = SumFunctionOnSet(f, U) + f[x]
      BY <2>3
    <3> HIDE DEF V
    <3> QED
      BY <2>3, <3>1, <3>3, <3>4
  <2>6. V \in SUBSET T
    OBVIOUS
  <2> HIDE DEF V
  <2>7. V \in Q
    BY <2>5, <2>6
  <2> QED
    BY <2>7 DEF V
<1> HIDE DEF Q
<1>3. T \in Q
  BY <1>1, <1>2, FiniteInduction
<1> QED
  BY <1>3 DEF Q

\* The same terms under other names.
THEOREM SumRename ==
  ASSUME NEW f, NEW g, NEW S, IsFiniteSet(S), NEW b, NEW T,
         \A x \in S : b[x] \in T /\ f[x] \in Int /\ g[b[x]] = f[x],
         \A x, y \in S : b[x] = b[y] => x = y,
         \A t \in T : \E x \in S : b[x] = t
  PROVE  SumFunctionOnSet(g, T) = SumFunctionOnSet(f, S)
<1> DEFINE Im(U) == {b[x] : x \in U}
           Q == {U \in SUBSET S :
                   /\ IsFiniteSet(Im(U))
                   /\ SumFunctionOnSet(g, Im(U)) = SumFunctionOnSet(f, U)}
<1>1. {} \in Q
  <2>1. Im({}) = {}
    OBVIOUS
  <2> QED
    BY <2>1, SumEmpty, FS_EmptySet
<1>2. ASSUME NEW U \in SUBSET S, NEW x \in S, U \in Q, x \notin U
      PROVE  U \cup {x} \in Q
  <2>1. Im(U \cup {x}) = Im(U) \cup {b[x]} /\ b[x] \notin Im(U)
    BY <1>2
  <2>2. IsFiniteSet(Im(U) \cup {b[x]})
    BY <1>2, FS_AddElement
  <2>3. \A t \in Im(U) : g[t] \in Int
    OBVIOUS
  <2>4. SumFunctionOnSet(g, Im(U) \cup {b[x]}) = SumFunctionOnSet(g, Im(U)) + g[b[x]]
    <3> HIDE DEF Im
    <3> QED
      BY <1>2, <2>1, <2>3, SumAdd
  <2>5. SumFunctionOnSet(f, U \cup {x}) = SumFunctionOnSet(f, U) + f[x]
    BY <1>2, FS_Subset, SumAdd
  <2> QED
    BY <1>2, <2>1, <2>2, <2>4, <2>5
<1>3. S \in Q
  <2> HIDE DEF Q
  <2> QED
    BY <1>1, <1>2, FiniteInduction
<1>4. Im(S) = T
  OBVIOUS
<1> QED
  BY <1>3, <1>4

\* A sum of zeros.
LEMMA SumZero ==
  ASSUME NEW f, NEW S, IsFiniteSet(S), \A x \in S : f[x] = 0
  PROVE  SumFunctionOnSet(f, S) = 0
<1>1. SumFunctionOnSet(f, S) = 0 * SumFunctionOnSet(f, S)
  BY SumTimes
<1>2. SumFunctionOnSet(f, S) \in Int
  BY SumType
<1> QED
  BY <1>1, <1>2

\* Zeros may be left out.
THEOREM SumWhere ==
  ASSUME NEW f, NEW S, IsFiniteSet(S), NEW P, P \subseteq S, NEW h,
         \A x \in P : f[x] \in Int /\ h[x] = f[x],
         \A x \in S : x \notin P => h[x] = 0
  PROVE  SumFunctionOnSet(h, S) = SumFunctionOnSet(f, P)
<1>1. IsFiniteSet(P) /\ IsFiniteSet(S \ P)
  BY FS_Subset
<1>2. SumFunctionOnSet(h, S \ P) = 0
  BY <1>1, SumZero
<1>3. SumFunctionOnSet(h, P) = SumFunctionOnSet(f, P)
  BY <1>1, SumSame
<1>4. S = P \cup (S \ P) /\ P \cap (S \ P) = {} /\ \A x \in S : h[x] \in Int
  OBVIOUS
<1>5. SumFunctionOnSet(h, P \cup (S \ P)) = SumFunctionOnSet(h, P) + SumFunctionOnSet(h, S \ P)
  BY <1>1, <1>4, SumUnion
<1>6. SumFunctionOnSet(f, P) \in Int
  BY <1>1, SumType
<1>7. SumFunctionOnSet(h, S) = SumFunctionOnSet(h, P) + SumFunctionOnSet(h, S \ P)
  BY <1>4, <1>5
<1> QED
  BY <1>2, <1>3, <1>6, <1>7

\* What f counts in x, for every x of P, g counts with the other sign in b[x], and
\* b pairs P with M.
Opposite(f, P, g, M, b) ==
  /\ \A x \in P : b[x] \in M /\ g[b[x]] = -f[x]
  /\ \A x, y \in P : b[x] = b[y] => x = y
  /\ \A m \in M : \E x \in P : b[x] = m

\* h is f with the terms of P set to zero.
Without(h, f, S, P) ==
  P \subseteq S /\ \A x \in S : (x \in P => h[x] = 0) /\ (x \notin P => h[x] = f[x])

\* Opposite terms cancel.
THEOREM SumOpposite ==
  ASSUME NEW f, NEW g, NEW P, IsFiniteSet(P), NEW M, NEW b,
         \A x \in P : f[x] \in Int, Opposite(f, P, g, M, b)
  PROVE  SumFunctionOnSet(g, M) = -SumFunctionOnSet(f, P)
<1> USE DEF Opposite
<1> DEFINE n == [x \in P |-> -f[x]]
<1>1. SumFunctionOnSet(g, M) = SumFunctionOnSet(n, P)
  <2>1. \A x \in P : b[x] \in M /\ n[x] \in Int /\ g[b[x]] = n[x]
    OBVIOUS
  <2> HIDE DEF n
  <2> QED
    BY <2>1, SumRename
<1>2. SumFunctionOnSet(n, P) = (-1) * SumFunctionOnSet(f, P)
  <2>1. \A x \in P : f[x] \in Int /\ n[x] = (-1) * f[x]
    OBVIOUS
  <2> HIDE DEF n
  <2> QED
    BY <2>1, SumTimes
<1>3. SumFunctionOnSet(f, P) \in Int
  BY SumType
<1> HIDE DEF n
<1> QED
  BY <1>1, <1>2, <1>3

\* Of two sums, the terms that have an opposite in the other may be set to zero.
THEOREM SumFaces ==
  ASSUME NEW f, NEW g, NEW S, IsFiniteSet(S),
         \A x \in S : f[x] \in Int /\ g[x] \in Int,
         NEW P, NEW M, NEW b, Opposite(f, P, g, M, b),
         NEW h, Without(h, f, S, P), NEW k, Without(k, g, S, M)
  PROVE  SumFunctionOnSet(f, S) + SumFunctionOnSet(g, S)
           = SumFunctionOnSet(h, S) + SumFunctionOnSet(k, S)
<1> DEFINE fp == [x \in S |-> IF x \in P THEN f[x] ELSE 0]
           gm == [x \in S |-> IF x \in M THEN g[x] ELSE 0]
<1>1. \A x \in S : /\ h[x] \in Int /\ fp[x] \in Int /\ f[x] = h[x] + fp[x]
                   /\ k[x] \in Int /\ gm[x] \in Int /\ g[x] = k[x] + gm[x]
  BY DEF Without
<1>2. /\ \A x \in P : f[x] \in Int /\ fp[x] = f[x]
      /\ \A x \in M : g[x] \in Int /\ gm[x] = g[x]
      /\ \A x \in S : x \notin P => fp[x] = 0
      /\ \A x \in S : x \notin M => gm[x] = 0
  BY DEF Without
<1>3. IsFiniteSet(P) /\ P \subseteq S /\ M \subseteq S
  BY FS_Subset DEF Without
<1> HIDE DEF fp, gm
<1>4. /\ SumFunctionOnSet(f, S) = SumFunctionOnSet(h, S) + SumFunctionOnSet(fp, S)
      /\ SumFunctionOnSet(g, S) = SumFunctionOnSet(k, S) + SumFunctionOnSet(gm, S)
  BY ONLY IsFiniteSet(S), <1>1, SumPlus
<1>5. /\ SumFunctionOnSet(h, S) \in Int /\ SumFunctionOnSet(fp, S) \in Int
      /\ SumFunctionOnSet(k, S) \in Int /\ SumFunctionOnSet(gm, S) \in Int
  BY ONLY IsFiniteSet(S), <1>1, SumType
<1>6. SumFunctionOnSet(fp, S) = SumFunctionOnSet(f, P)
  BY ONLY IsFiniteSet(S), <1>2, <1>3, SumWhere
<1>7. SumFunctionOnSet(gm, S) = SumFunctionOnSet(g, M)
  BY ONLY IsFiniteSet(S), <1>2, <1>3, SumWhere
<1>8. SumFunctionOnSet(g, M) = -SumFunctionOnSet(f, P)
  BY <1>2, <1>3, SumOpposite
<1> QED
  BY ONLY <1>4, <1>5, <1>6, <1>7, <1>8

-----------------------------------------------------------------------------
(***************************************************************************)
(* Quotients.                                                              *)
(***************************************************************************)
\* The quotient is the only number whose multiples enclose the dividend.
LEMMA DivUnique ==
  ASSUME NEW x \in Nat, NEW d \in Nat \ {0}, NEW q \in Nat, d * q =< x, x < d * (q + 1)
  PROVE  x \div d = q
  OBVIOUS

\* The quotient's multiples enclose the dividend.
LEMMA DivBounds ==
  ASSUME NEW x \in Nat, NEW d \in Nat \ {0}
  PROVE  x \div d \in Nat /\ d * (x \div d) =< x /\ x < d * ((x \div d) + 1)
  OBVIOUS

\* A common factor cancels in a quotient.
LEMMA DivCancel ==
  ASSUME NEW x \in Nat, NEW n \in Nat \ {0}, NEW c \in Nat \ {0}
  PROVE  (x * n) \div (n * c) = x \div c
  <1> DEFINE q == x \div c
  <1>1. q \in Nat /\ c * q =< x /\ x < c * (q + 1)
    BY DivBounds
  <1> HIDE DEF q
  <1>2. x * n \in Nat /\ n * c \in Nat \ {0}
    OBVIOUS
  <1>3. c * q \in Nat /\ c * (q + 1) \in Nat
    BY <1>1
  <1>4. n * (c * q) =< n * x /\ n * x < n * (c * (q + 1))
    BY <1>1, <1>3
  <1>5. n * (c * q) = (n * c) * q /\ n * (c * (q + 1)) = (n * c) * (q + 1) /\ n * x = x * n
    BY <1>1
  <1>6. (n * c) * q =< x * n /\ x * n < (n * c) * (q + 1)
    BY <1>4, <1>5
  <1>7. (x * n) \div (n * c) = q
    BY <1>1, <1>2, <1>6, DivUnique
  <1> QED
    BY <1>7 DEF q

=============================================================================
