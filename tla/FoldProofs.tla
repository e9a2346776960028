----------------------------- MODULE FoldProofs -----------------------------
(***************************************************************************)
(* What the folds and sums of the community modules compute, for every     *)
(* finite set: a recursion over the subsets of a finite set has a solution *)
(* and only one, and a sum does not depend on the order of its terms.      *)
(*                                                                         *)
(* The provers cannot instantiate an induction rule that takes a property  *)
(* as an operator.  Here the property is a set, the counterexamples are    *)
(* another one, and a minimal counterexample exists because the subset     *)
(* relation on finite sets and the order of Nat are well founded.          *)
(***************************************************************************)
EXTENDS Integers, SequencesExt, FiniteSetTheorems, TLAPS

\* A set of naturals with 0 and with the successor of each of its members
\* has them all: induction, with the property given as a set.
LEMMA NatSetInduction ==
    ASSUME NEW C \in SUBSET Nat, 0 \in C, \A n \in C : n + 1 \in C
    PROVE  \A n \in Nat : n \in C
<1>1. SUFFICES ASSUME Nat \ C # {} PROVE FALSE
  OBVIOUS
<1>2. PICK n \in Nat \ C : \A m \in Nat \ C : ~(<<m, n>> \in OpToRel(<, Nat))
  <2>1. IsWellFoundedOn(OpToRel(<, Nat), Nat)
    BY NatLessThanWellFounded
  <2>2. Nat \ C \subseteq Nat
    OBVIOUS
  <2> HIDE DEF OpToRel
  <2> QED
    BY <1>1, <2>1, <2>2, WFMin, Zenon
<1>3. n \in Nat /\ n # 0
  OBVIOUS
<1>4. PICK m \in Nat : n = m + 1
  <2>1. n - 1 \in Nat /\ n = (n - 1) + 1
    BY <1>3
  <2> QED
    BY <2>1
<1>5. m \in C
  <2>1. <<m, n>> \in {ss \in Nat \X Nat : ss[1] < ss[2]}
    BY <1>3, <1>4
  <2>2. <<m, n>> \in OpToRel(<, Nat)
    BY <2>1, Zenon DEF OpToRel
  <2> QED
    BY <1>2, <2>2, Zenon
<1> QED
  BY <1>4, <1>5

\* Induction over the subsets of a finite set, with the property given as a
\* set: one that holds of a set whenever it holds of its proper subsets holds
\* of all of them.
LEMMA SubsetInduction ==
    ASSUME NEW D, IsFiniteSet(D), NEW C,
           \A T \in SUBSET D : (\A U \in SUBSET T : U # T => U \in C) => T \in C
    PROVE  \A T \in SUBSET D : T \in C
<1> DEFINE Rest == (SUBSET D) \ C
<1>1. SUFFICES ASSUME Rest # {} PROVE FALSE
  OBVIOUS
<1>2. IsWellFoundedOn(StrictSubsetOrdering(D), FiniteSubsetsOf(D))
  BY FS_StrictSubsetOrderingWellFounded
<1>3. FiniteSubsetsOf(D) = SUBSET D
  BY FS_FiniteSubsetsOfFinite
<1>4. PICK T \in Rest : \A U \in Rest : ~(<<U, T>> \in StrictSubsetOrdering(D))
  <2>1. Rest \subseteq SUBSET D
    OBVIOUS
  <2> HIDE DEF Rest
  <2> QED
    BY <1>1, <1>2, <1>3, <2>1, WFMin
<1>5. ASSUME NEW U \in SUBSET T, U # T PROVE U \in C
  BY <1>4, <1>5 DEF StrictSubsetOrdering
<1> QED
  BY <1>5

\* g solves the recursion over the subsets of D that takes the element c[s] out
\* of a set s and combines it by G with the result for the rest.
FoldsBy(g, D, V, base, c, G) ==
    /\ g \in [SUBSET D -> V]
    /\ \A s \in SUBSET D : g[s] = IF s = {} THEN base ELSE G[c[s]][g[s \ {c[s]}]]

\* Over the subsets of a finite set such a recursion has a solution.
LEMMA FoldExists ==
    ASSUME NEW D, IsFiniteSet(D), NEW V, NEW base \in V,
           NEW c, \A s \in SUBSET D : s # {} => c[s] \in s,
           NEW G, \A x \in D, v \in V : G[x][v] \in V
    PROVE  \E g : FoldsBy(g, D, V, base, c, G)
<1> DEFINE Small(n) == {s \in SUBSET D : Cardinality(s) <= n}
           Solves(g, n) == /\ g \in [Small(n) -> V]
                           /\ \A s \in Small(n) :
                                g[s] = IF s = {} THEN base ELSE G[c[s]][g[s \ {c[s]}]]
           C == {n \in Nat : \E g : Solves(g, n)}
<1>1. ASSUME NEW s \in SUBSET D
      PROVE  /\ IsFiniteSet(s)
             /\ Cardinality(s) \in Nat
             /\ Cardinality(s) = 0 <=> s = {}
             /\ \A x \in s : Cardinality(s \ {x}) = Cardinality(s) - 1
  <2>1. IsFiniteSet(s)
    BY FS_Subset
  <2>2. Cardinality(s) \in Nat
    BY <2>1, FS_CardinalityType
  <2>3. Cardinality(s) = 0 <=> s = {}
    BY <2>1, FS_EmptySet
  <2>4. ASSUME NEW x \in s PROVE Cardinality(s \ {x}) = Cardinality(s) - 1
    BY <2>1, FS_RemoveElement
  <2> QED
    BY <2>1, <2>2, <2>3, <2>4
<1>2. 0 \in C
  <2>1. \A s \in Small(0) : s = {}
    BY <1>1
  <2>2. Solves([s \in Small(0) |-> base], 0)
    BY <2>1
  <2> QED
    BY <2>2
<1>3. ASSUME NEW n \in C PROVE n + 1 \in C
  <2>1. n \in Nat /\ n + 1 \in Nat
    OBVIOUS
  <2>2. PICK g : Solves(g, n)
    OBVIOUS
  <2> DEFINE h == [s \in Small(n + 1) |-> IF s = {} THEN base ELSE G[c[s]][g[s \ {c[s]}]]]
  <2>3. ASSUME NEW s \in Small(n + 1), s # {}
        PROVE  c[s] \in s /\ c[s] \in D /\ s \ {c[s]} \in Small(n)
    BY <1>1, <2>1, <2>3
  <2>4. ASSUME NEW s \in Small(n) PROVE s \in Small(n + 1) /\ h[s] = g[s]
    <3>1. s \in Small(n + 1)
      BY <1>1, <2>1
    <3>2. g[s] = IF s = {} THEN base ELSE G[c[s]][g[s \ {c[s]}]]
      BY <2>2
    <3> QED
      BY <3>1, <3>2
  <2>5. h \in [Small(n + 1) -> V]
    <3>1. ASSUME NEW s \in Small(n + 1) PROVE h[s] \in V
      <4>1. CASE s = {}
        BY <4>1
      <4>2. CASE s # {}
        <5>1. s \ {c[s]} \in Small(n) /\ c[s] \in D
          BY <2>3, <4>2
        <5>2. g[s \ {c[s]}] \in V
          BY <5>1, <2>2
        <5>3. h[s] = G[c[s]][g[s \ {c[s]}]]
          BY <4>2
        <5> QED
          BY <5>1, <5>2, <5>3
      <4> QED
        BY <4>1, <4>2
    <3> QED
      BY <3>1
  <2>6. ASSUME NEW s \in Small(n + 1)
        PROVE  h[s] = IF s = {} THEN base ELSE G[c[s]][h[s \ {c[s]}]]
    <3>1. CASE s = {}
      BY <3>1
    <3>2. CASE s # {}
      <4>1. h[s \ {c[s]}] = g[s \ {c[s]}]
        BY <2>3, <2>4, <3>2
      <4> QED
        BY <4>1, <3>2
    <3> QED
      BY <3>1, <3>2
  <2>7. Solves(h, n + 1)
    BY <2>5, <2>6
  <2> HIDE DEF h, Solves
  <2> QED
    BY <2>1, <2>7
<1>4. Cardinality(D) \in C
  <2>1. C \in SUBSET Nat
    OBVIOUS
  <2>2. Cardinality(D) \in Nat
    BY <1>1
  <2> HIDE DEF C
  <2> QED
    BY <1>2, <1>3, <2>1, <2>2, NatSetInduction
<1>5. Small(Cardinality(D)) = SUBSET D
  BY FS_Subset
<1> QED
  BY <1>4, <1>5 DEF FoldsBy

-----------------------------------------------------------------------------
\* The element that a fold without an order takes out of a set.
Some(s) == CHOOSE x \in s : TRUE

\* g sums f over the subsets of S, one element after the other.
SumsBy(g, f, S) ==
    /\ g \in [SUBSET S -> Int]
    /\ g[{}] = 0
    /\ \A s \in SUBSET S : s # {} => g[s] = f[Some(s)] + g[s \ {Some(s)}]

LEMMA SumsByExists ==
    ASSUME NEW S, IsFiniteSet(S), NEW f, \A x \in S : f[x] \in Int
    PROVE  \E g : SumsBy(g, f, S) /\ SumFunctionOnSet(f, S) = g[S]
<1> DEFINE Step(h) == [s \in SUBSET S |-> IF s = {} THEN 0
                                          ELSE f[Some(s)] + h[s \ {Some(s)}]]
           iter == CHOOSE h : h = Step(h)
<1>1. \A s \in SUBSET S : s # {} => Some(s) \in s
  BY DEF Some
<1>2. PICK g \in [SUBSET S -> Int] : g = Step(g)
  <2> DEFINE c == [s \in SUBSET S |-> Some(s)]
             G == [x \in S |-> [v \in Int |-> f[x] + v]]
  <2>1. \A s \in SUBSET S : s # {} => c[s] \in s
    BY <1>1
  <2>2. \A x \in S, v \in Int : G[x][v] \in Int
    OBVIOUS
  <2>3. PICK g : FoldsBy(g, S, Int, 0, c, G)
    <3>1. 0 \in Int
      OBVIOUS
    <3> HIDE DEF c, G
    <3> QED
      BY <2>1, <2>2, <3>1, FoldExists, Zenon
  <2>4. g \in [SUBSET S -> Int] /\ \A s \in SUBSET S :
           g[s] = IF s = {} THEN 0 ELSE G[c[s]][g[s \ {c[s]}]]
    <3> HIDE DEF c, G
    <3> QED
      BY <2>3 DEF FoldsBy
  <2>5. ASSUME NEW s \in SUBSET S PROVE g[s] = Step(g)[s]
    <3>1. CASE s = {}
      BY <3>1, <2>4
    <3>2. CASE s # {}
      <4>1. Some(s) \in S /\ s \ {Some(s)} \in SUBSET S
        BY <1>1, <3>2
      <4>2. g[s \ {Some(s)}] \in Int
        BY <2>4, <4>1
      <4>3. g[s] = G[Some(s)][g[s \ {Some(s)}]]
        BY <2>4, <3>2
      <4>4. G[Some(s)][g[s \ {Some(s)}]] = f[Some(s)] + g[s \ {Some(s)}]
        BY <4>1, <4>2
      <4> QED
        BY <4>3, <4>4, <3>2
    <3> QED
      BY <3>1, <3>2
  <2>6. g = Step(g)
    BY <2>4, <2>5
  <2> QED
    BY <2>4, <2>6
<1>3. iter = Step(iter)
  BY <1>2
<1>4. SumFunctionOnSet(f, S) = iter[S]
  BY DEF SumFunctionOnSet, FoldFunctionOnSet, MapThenFoldSet, Some
<1>5. ASSUME NEW s \in SUBSET S
      PROVE  iter[s] = IF s = {} THEN 0 ELSE f[Some(s)] + iter[s \ {Some(s)}]
  BY <1>3
<1> HIDE DEF iter
<1>6. \A s \in SUBSET S : iter[s] \in Int
  <2> DEFINE C == {s \in SUBSET S : iter[s] \in Int}
  <2>1. ASSUME NEW T \in SUBSET S, \A U \in SUBSET T : U # T => U \in C
        PROVE  T \in C
    <3>1. CASE T = {}
      <4>1. iter[T] = 0
        BY <1>5, <3>1
      <4> QED
        BY <4>1
    <3>2. CASE T # {}
      <4>1. Some(T) \in T /\ T \ {Some(T)} \in SUBSET T /\ T \ {Some(T)} # T
        BY <1>1, <3>2
      <4>2. iter[T \ {Some(T)}] \in Int
        BY <2>1, <4>1
      <4>3. iter[T] = f[Some(T)] + iter[T \ {Some(T)}]
        BY <1>5, <3>2
      <4> QED
        BY <4>1, <4>2, <4>3
    <3> QED
      BY <3>1, <3>2
  <2>2. \A T \in SUBSET S : T \in C
    <3> HIDE DEF C
    <3> QED
      BY <2>1, SubsetInduction
  <2> QED
    BY <2>2
<1>7. DOMAIN iter = SUBSET S /\ iter = [s \in DOMAIN iter |-> iter[s]]
  BY <1>3
<1>8. SumsBy(iter, f, S)
  BY <1>5, <1>6, <1>7 DEF SumsBy
<1> QED
  BY <1>4, <1>8

\* Two such functions agree on a set that both cover and where the summands
\* are the same.
LEMMA SumsByAgree ==
    ASSUME NEW S, IsFiniteSet(S), NEW f, NEW g, SumsBy(g, f, S),
           NEW R, NEW e, NEW h, SumsBy(h, e, R),
           NEW T, T \subseteq S, T \subseteq R, \A x \in T : f[x] = e[x]
    PROVE  g[T] = h[T]
<1> DEFINE C == {U \in SUBSET T : g[U] = h[U]}
<1>1. IsFiniteSet(T)
  BY FS_Subset
<1>2. ASSUME NEW U \in SUBSET T, \A W \in SUBSET U : W # U => W \in C
      PROVE  U \in C
  <2>1. CASE U = {}
    BY <2>1 DEF SumsBy
  <2>2. CASE U # {}
    <3>1. Some(U) \in U /\ U \ {Some(U)} \in SUBSET U /\ U \ {Some(U)} # U
      BY <2>2 DEF Some
    <3>2. g[U \ {Some(U)}] = h[U \ {Some(U)}]
      BY <1>2, <3>1
    <3>3. g[U] = f[Some(U)] + g[U \ {Some(U)}]
      BY <2>2 DEF SumsBy
    <3>4. h[U] = e[Some(U)] + h[U \ {Some(U)}]
      BY <2>2 DEF SumsBy
    <3> QED
      BY <3>1, <3>2, <3>3, <3>4
  <2> QED
    BY <2>1, <2>2
<1>3. \A U \in SUBSET T : U \in C
  <2> HIDE DEF C
  <2> QED
    BY <1>1, <1>2, SubsetInduction
<1> QED
  BY <1>3

\* Sums over a finite set do not depend on the order: any element may be
\* taken out first.
LEMMA SumsByAny ==
    ASSUME NEW S, IsFiniteSet(S), NEW f, \A x \in S : f[x] \in Int,
           NEW g, SumsBy(g, f, S)
    PROVE  \A T \in SUBSET S : \A x \in T : g[T] = f[x] + g[T \ {x}]
<1> DEFINE C == {T \in SUBSET S : \A x \in T : g[T] = f[x] + g[T \ {x}]}
<1>1. ASSUME NEW T \in SUBSET S, \A U \in SUBSET T : U # T => U \in C
      PROVE  T \in C
  <2>1. SUFFICES ASSUME NEW x \in T PROVE g[T] = f[x] + g[T \ {x}]
    OBVIOUS
  <2>2. Some(T) \in T
    BY DEF Some
  <2>3. PICK y \in T : y = Some(T)
    BY <2>2
  <2>4. g[T] = f[y] + g[T \ {y}]
    BY <2>3 DEF SumsBy
  <2>5. CASE x = y
    BY <2>4, <2>5
  <2>6. CASE x # y
    <3>1. g[T \ {y}] = f[x] + g[(T \ {y}) \ {x}]
      <4>1. T \ {y} \in SUBSET T /\ T \ {y} # T /\ x \in T \ {y}
        BY <2>6
      <4> QED
        BY <1>1, <4>1
    <3>2. g[T \ {x}] = f[y] + g[(T \ {x}) \ {y}]
      <4>1. T \ {x} \in SUBSET T /\ T \ {x} # T /\ y \in T \ {x}
        BY <2>6
      <4> QED
        BY <1>1, <4>1
    <3>3. (T \ {x}) \ {y} = (T \ {y}) \ {x}
      OBVIOUS
    <3>4. PICK z \in Int : z = g[(T \ {y}) \ {x}]
      <4>1. (T \ {y}) \ {x} \in SUBSET S
        OBVIOUS
      <4> QED
        BY <4>1 DEF SumsBy
    <3>5. f[x] \in Int /\ f[y] \in Int
      OBVIOUS
    <3>6. g[T] = f[y] + (f[x] + z) /\ g[T \ {x}] = f[y] + z
      BY <2>4, <3>1, <3>2, <3>3, <3>4
    <3> QED
      BY <3>4, <3>5, <3>6
  <2> QED
    BY <2>5, <2>6
<1>2. \A T \in SUBSET S : T \in C
  <2> HIDE DEF C
  <2> QED
    BY <1>1, SubsetInduction
<1> QED
  BY <1>2

\* The sum over no elements.
LEMMA SumEmpty ==
    ASSUME NEW f
    PROVE  SumFunctionOnSet(f, {}) = 0
<1>1. IsFiniteSet({})
  BY FS_EmptySet
<1>2. \A x \in {} : f[x] \in Int
  OBVIOUS
<1>3. PICK g : SumsBy(g, f, {}) /\ SumFunctionOnSet(f, {}) = g[{}]
  BY <1>1, <1>2, SumsByExists
<1> QED
  BY <1>3 DEF SumsBy

\* A sum of integers is an integer.
LEMMA SumInt ==
    ASSUME NEW S, IsFiniteSet(S), NEW f, \A x \in S : f[x] \in Int
    PROVE  SumFunctionOnSet(f, S) \in Int
<1>1. PICK g : SumsBy(g, f, S) /\ SumFunctionOnSet(f, S) = g[S]
  BY SumsByExists
<1> QED
  BY <1>1 DEF SumsBy

\* Any element can be taken out of a sum.
LEMMA SumOut ==
    ASSUME NEW S, IsFiniteSet(S), NEW f, \A y \in S : f[y] \in Int, NEW x \in S
    PROVE  SumFunctionOnSet(f, S) = f[x] + SumFunctionOnSet(f, S \ {x})
<1>1. PICK g : SumsBy(g, f, S) /\ SumFunctionOnSet(f, S) = g[S]
  BY SumsByExists
<1>2. IsFiniteSet(S \ {x})
  BY FS_RemoveElement
<1>3. \A y \in S \ {x} : f[y] \in Int
  OBVIOUS
<1>4. PICK h : SumsBy(h, f, S \ {x}) /\ SumFunctionOnSet(f, S \ {x}) = h[S \ {x}]
  BY <1>2, <1>3, SumsByExists
<1>5. g[S \ {x}] = h[S \ {x}]
  <2>1. S \ {x} \subseteq S
    OBVIOUS
  <2> QED
    BY <1>1, <1>4, <2>1, SumsByAgree
<1>6. g[S] = f[x] + g[S \ {x}]
  BY <1>1, SumsByAny
<1> QED
  BY <1>1, <1>4, <1>5, <1>6

\* The sum depends on the summands only.
LEMMA SumSame ==
    ASSUME NEW S, IsFiniteSet(S), NEW f, \A x \in S : f[x] \in Int,
           NEW e, \A x \in S : e[x] = f[x]
    PROVE  SumFunctionOnSet(e, S) = SumFunctionOnSet(f, S)
<1>1. PICK g : SumsBy(g, f, S) /\ SumFunctionOnSet(f, S) = g[S]
  BY SumsByExists
<1>2. \A x \in S : e[x] \in Int
  OBVIOUS
<1>3. PICK h : SumsBy(h, e, S) /\ SumFunctionOnSet(e, S) = h[S]
  BY <1>2, SumsByExists
<1>4. h[S] = g[S]
  BY <1>1, <1>3, SumsByAgree
<1> QED
  BY <1>1, <1>3, <1>4

\* A sum after one summand has changed.
LEMMA SumChange ==
    ASSUME NEW S, IsFiniteSet(S), NEW f, \A y \in S : f[y] \in Int,
           NEW e, NEW x \in S, e[x] \in Int, \A y \in S \ {x} : e[y] = f[y]
    PROVE  SumFunctionOnSet(e, S) = (SumFunctionOnSet(f, S) - f[x]) + e[x]
<1>1. SumFunctionOnSet(f, S) = f[x] + SumFunctionOnSet(f, S \ {x})
  BY SumOut
<1>2. SumFunctionOnSet(e, S) = e[x] + SumFunctionOnSet(e, S \ {x})
  <2>1. \A y \in S : e[y] \in Int
    OBVIOUS
  <2> QED
    BY <2>1, SumOut
<1>3. IsFiniteSet(S \ {x})
  BY FS_RemoveElement
<1>4. \A y \in S \ {x} : f[y] \in Int
  OBVIOUS
<1>5. SumFunctionOnSet(e, S \ {x}) = SumFunctionOnSet(f, S \ {x})
  BY <1>3, <1>4, SumSame
<1>6. SumFunctionOnSet(f, S \ {x}) \in Int
  BY <1>3, <1>4, SumInt
<1>7. PICK z \in Int : z = SumFunctionOnSet(f, S \ {x})
  BY <1>6
<1>8. SumFunctionOnSet(f, S) = f[x] + z /\ SumFunctionOnSet(e, S) = e[x] + z
  BY <1>1, <1>2, <1>5, <1>7
<1>9. f[x] \in Int
  OBVIOUS
<1> QED
  BY <1>8, <1>9

\* Two such recursions that take out the same elements of the subsets of T and
\* treat them alike have the same result for T.
LEMMA FoldsByAgree ==
    ASSUME NEW T, IsFiniteSet(T), NEW V, NEW base,
           NEW D, NEW g, NEW c, NEW G, FoldsBy(g, D, V, base, c, G), T \subseteq D,
           NEW E, NEW h, NEW d, NEW H, FoldsBy(h, E, V, base, d, H), T \subseteq E,
           \A s \in SUBSET T : s # {} => c[s] \in s /\ d[s] = c[s],
           \A x \in T, v \in V : G[x][v] = H[x][v]
    PROVE  g[T] = h[T]
<1> DEFINE C == {U \in SUBSET T : g[U] = h[U]}
<1>1. ASSUME NEW U \in SUBSET T, \A W \in SUBSET U : W # U => W \in C
      PROVE  U \in C
  <2>1. U \in SUBSET D /\ U \in SUBSET E
    OBVIOUS
  <2>2. CASE U = {}
    <3>1. g[U] = base /\ h[U] = base
      BY <2>1, <2>2 DEF FoldsBy
    <3> QED
      BY <3>1
  <2>3. CASE U # {}
    <3>1. c[U] \in U /\ d[U] = c[U]
      BY <2>3
    <3>2. PICK W : W = U \ {c[U]}
      OBVIOUS
    <3>3. W \in SUBSET U /\ W # U /\ W \in SUBSET D
      BY <3>1, <3>2
    <3>4. g[W] = h[W] /\ g[W] \in V
      BY <1>1, <3>3 DEF FoldsBy
    <3>5. g[U] = G[c[U]][g[W]]
      BY <2>1, <2>3, <3>2 DEF FoldsBy
    <3>6. h[U] = H[c[U]][h[W]]
      BY <2>1, <2>3, <3>1, <3>2 DEF FoldsBy
    <3>7. G[c[U]][g[W]] = H[c[U]][g[W]]
      BY <3>1, <3>4
    <3>8. g[U] = h[U]
      BY <3>4, <3>5, <3>6, <3>7
    <3> QED
      BY <3>8
  <2> QED
    BY <2>2, <2>3
<1>2. \A U \in SUBSET T : U \in C
  <2> HIDE DEF C
  <2> QED
    BY <1>1, SubsetInduction
<1> QED
  BY <1>2

\* A set of numbers up to n that is not empty has a largest one.
LEMMA MaxIsLargest ==
    ASSUME NEW n \in Nat, NEW T \in SUBSET (1..n), T # {}
    PROVE  Max(T) \in T /\ \A y \in T : y <= Max(T)
<1> DEFINE Has(U) == \E x \in U : \A y \in U : x >= y
           C == {m \in Nat : \A U \in SUBSET (1..m) : U # {} => Has(U)}
<1>1. 0 \in C
  <2>1. 1..0 = {}
    OBVIOUS
  <2> QED
    BY <2>1
<1>2. ASSUME NEW m \in C PROVE m + 1 \in C
  <2>1. m \in Nat /\ m + 1 \in Nat
    OBVIOUS
  <2>2. ASSUME NEW U \in SUBSET (1..(m + 1)), U # {} PROVE Has(U)
    <3>1. CASE m + 1 \in U
      <4>1. \A y \in U : m + 1 >= y
        BY <2>1
      <4> QED
        BY <3>1, <4>1
    <3>2. CASE m + 1 \notin U
      <4>1. U \in SUBSET (1..m)
        BY <2>1, <3>2
      <4> QED
        BY <2>2, <4>1
    <3> QED
      BY <3>1, <3>2
  <2> HIDE DEF Has
  <2> QED
    BY <2>1, <2>2
<1>3. n \in C
  <2>1. C \in SUBSET Nat
    OBVIOUS
  <2> HIDE DEF C
  <2> QED
    BY <1>1, <1>2, <2>1, NatSetInduction
<1>4. PICK x \in T : \A y \in T : x >= y
  BY <1>3
<1>5. Max(T) \in T /\ \A y \in T : Max(T) >= y
  BY <1>4 DEF Max
<1>6. \A y \in T : y \in Int
  OBVIOUS
<1> QED
  BY <1>5, <1>6

\* A set of naturals that is not empty has a smallest one.
LEMMA NatLeast ==
    ASSUME NEW S \in SUBSET Nat, S # {}
    PROVE  \E x \in S : \A y \in S : x <= y
<1>1. PICK n \in S : \A m \in S : ~(<<m, n>> \in OpToRel(<, Nat))
  <2>1. IsWellFoundedOn(OpToRel(<, Nat), Nat)
    BY NatLessThanWellFounded
  <2> HIDE DEF OpToRel
  <2> QED
    BY <2>1, WFMin, Zenon
<1>2. ASSUME NEW m \in S PROVE n <= m
  <2>1. CASE m < n
    <3>1. <<m, n>> \in {ss \in Nat \X Nat : ss[1] < ss[2]}
      BY <2>1
    <3>2. <<m, n>> \in OpToRel(<, Nat)
      BY <3>1, Zenon DEF OpToRel
    <3> QED
      BY <1>1, <3>2, Zenon
  <2> QED
    BY <2>1
<1> QED
  BY <1>2

\* A sum over a finite set is the sum over a part and over the rest.
LEMMA SumSplit ==
    ASSUME NEW S, IsFiniteSet(S), NEW f, \A x \in S : f[x] \in Int,
           NEW T, T \subseteq S
    PROVE  SumFunctionOnSet(f, S) = SumFunctionOnSet(f, T) + SumFunctionOnSet(f, S \ T)
<1> DEFINE Splits(U) == SumFunctionOnSet(f, S) = SumFunctionOnSet(f, U) + SumFunctionOnSet(f, S \ U)
           C == {U \in SUBSET T : Splits(U)}
<1>1. IsFiniteSet(T)
  BY FS_Subset
<1>2. ASSUME NEW U \in SUBSET T, \A W \in SUBSET U : W # U => W \in C
      PROVE  U \in C
  <2>1. CASE U = {}
    <3>1. S \ U = S /\ SumFunctionOnSet(f, S) \in Int
      BY <2>1, SumInt
    <3>2. SumFunctionOnSet(f, U) = 0
      BY <2>1, SumEmpty
    <3>3. SumFunctionOnSet(f, S \ U) = SumFunctionOnSet(f, S)
      BY <3>1, Zenon
    <3>4. Splits(U)
      BY <3>1, <3>2, <3>3
    <3> QED
      BY <3>4
  <2>2. CASE U # {}
    <3>1. PICK x : x \in U
      BY <2>2
    <3>2. PICK W : W = U \ {x}
      OBVIOUS
    <3>3. W \in SUBSET U /\ W # U /\ W \subseteq S
      BY <3>1, <3>2
    <3>4. Splits(W)
      BY <1>2, <3>3
    <3>5. IsFiniteSet(U) /\ \A y \in U : f[y] \in Int
      BY <1>1, FS_Subset
    <3>6. SumFunctionOnSet(f, U) = f[x] + SumFunctionOnSet(f, W)
      BY <3>1, <3>2, <3>5, SumOut
    <3>7. PICK R : R = S \ W
      OBVIOUS
    <3>8. IsFiniteSet(R) /\ \A y \in R : f[y] \in Int
      BY <3>7, FS_Subset
    <3>9. x \in R /\ R \ {x} = S \ U
      BY <3>1, <3>2, <3>7
    <3>10. SumFunctionOnSet(f, R) = f[x] + SumFunctionOnSet(f, S \ U)
      BY <3>8, <3>9, SumOut
    <3>11. IsFiniteSet(W) /\ IsFiniteSet(S \ U)
      BY <3>3, FS_Subset
    <3>12. \A y \in W : f[y] \in Int
      BY <3>3
    <3>13. \A y \in S \ U : f[y] \in Int
      OBVIOUS
    <3>14. SumFunctionOnSet(f, W) \in Int /\ SumFunctionOnSet(f, S \ U) \in Int
      BY <3>11, <3>12, <3>13, SumInt
    <3>15. f[x] \in Int
      BY <3>1
    <3>16. Splits(U)
      BY <3>4, <3>6, <3>7, <3>10, <3>14, <3>15
    <3> QED
      BY <3>16
  <2> QED
    BY <2>1, <2>2
<1>3. \A U \in SUBSET T : U \in C
  <2> HIDE DEF C
  <2> QED
    BY <1>1, <1>2, SubsetInduction
<1> QED
  BY <1>3

=============================================================================
