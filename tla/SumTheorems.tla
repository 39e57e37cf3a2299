----------------------------- MODULE SumTheorems -----------------------------
(***************************************************************************)
(* Facts about SumFunction, the sum of a function's values, for functions  *)
(* whose domain is finite.  The induction they need is over the subsets of *)
(* a finite set: a set of counterexamples has a smallest one.              *)
(***************************************************************************)
EXTENDS Integers, FiniteSets, Functions, FiniteSetTheorems, WellFoundedInduction, TLAPS

Pick(s) == CHOOSE x \in s : TRUE

\* g sums f over every subset of S, the way a fold does.
IsSum(g, f, S) ==
  g = [s \in SUBSET S |-> IF s = {} THEN 0 ELSE f[Pick(s)] + g[s \ {Pick(s)}]]

\* A set of subsets of a finite set has a smallest one.
LEMMA SmallestSubset ==
  ASSUME NEW S, IsFiniteSet(S), NEW T, T \subseteq SUBSET S, T # {}
  PROVE  \E s \in T : \A u \in T : u \subseteq s => u = s
<1>1. FiniteSubsetsOf(S) = SUBSET S
  BY FS_FiniteSubsetsOfFinite
<1>2. IsWellFoundedOn(StrictSubsetOrdering(S), SUBSET S)
  BY <1>1, FS_StrictSubsetOrderingWellFounded
<1>3. PICK s \in T : \A u \in T : ~ (<<u, s>> \in StrictSubsetOrdering(S))
  BY <1>2, WFMin
<1>4. ASSUME NEW u \in T, u \subseteq s
      PROVE  u = s
  <2>1. u \in SUBSET S /\ s \in SUBSET S
    OBVIOUS
  <2> QED BY <1>3, <1>4, <2>1 DEF StrictSubsetOrdering
<1> QED BY <1>4

\* What is picked is there.
LEMMA PickThere ==
  ASSUME NEW s, s # {}
  PROVE  Pick(s) \in s
BY DEF Pick

\* A sum of part of a function agrees with the sum of the whole.
LEMMA SumsAgree ==
  ASSUME NEW S, IsFiniteSet(S), NEW V \in SUBSET S, NEW f, NEW e, \A x \in V : e[x] = f[x],
         NEW g, IsSum(g, f, S), NEW h, IsSum(h, e, V)
  PROVE  \A s \in SUBSET V : g[s] = h[s]
<1> DEFINE T == {s \in SUBSET V : g[s] # h[s]}
<1> SUFFICES ASSUME T # {} PROVE FALSE
  OBVIOUS
<1>1. PICK s \in T : \A u \in T : u \subseteq s => u = s
  <2>1. T \subseteq SUBSET S
    OBVIOUS
  <2> HIDE DEF T
  <2> QED BY <2>1, SmallestSubset
<1>2. g[s] = IF s = {} THEN 0 ELSE f[Pick(s)] + g[s \ {Pick(s)}]
  BY DEF IsSum
<1>3. h[s] = IF s = {} THEN 0 ELSE e[Pick(s)] + h[s \ {Pick(s)}]
  BY DEF IsSum
<1>4. s # {}
  BY <1>2, <1>3
<1>5. Pick(s) \in s
  BY <1>4, PickThere
<1>6. s \ {Pick(s)} \notin T
  BY <1>1, <1>5
<1>7. g[s \ {Pick(s)}] = h[s \ {Pick(s)}]
  BY <1>6
<1> QED BY <1>2, <1>3, <1>4, <1>5, <1>7

\* There is a sum over a finite set.
LEMMA SumExists ==
  ASSUME NEW S, IsFiniteSet(S), NEW f
  PROVE  \E g : IsSum(g, f, S)
<1> DEFINE T == {s \in SUBSET S : ~ \E g : IsSum(g, f, s)}
<1> SUFFICES ASSUME T # {} PROVE FALSE
  OBVIOUS
<1>1. PICK U \in T : \A u \in T : u \subseteq U => u = U
  <2>1. T \subseteq SUBSET S
    OBVIOUS
  <2> HIDE DEF T
  <2> QED BY <2>1, SmallestSubset
<1> DEFINE of(v)  == CHOOSE g : IsSum(g, f, v)
           sum(v) == IF v = {} THEN 0 ELSE of(v)[v]
           all    == [s \in SUBSET U |-> IF s = {} THEN 0 ELSE f[Pick(s)] + sum(s \ {Pick(s)})]
<1>2. ASSUME NEW v \in SUBSET U, v # U
      PROVE  IsSum(of(v), f, v) /\ IsFiniteSet(v)
  <2>1. v \in SUBSET S /\ v \notin T
    BY <1>1, <1>2
  <2>2. \E g : IsSum(g, f, v)
    BY <2>1
  <2>3. IsFiniteSet(v)
    BY <2>1, FS_Subset
  <2> HIDE DEF T
  <2> QED BY <2>2, <2>3
<1>3. ASSUME NEW v \in SUBSET U, v # U
      PROVE  all[v] = sum(v)
  <2>1. CASE v = {}
    BY <2>1
  <2>2. CASE v # {}
    <3> DEFINE w == v \ {Pick(v)}
    <3>1. Pick(v) \in v
      BY <2>2, PickThere
    <3>2. w \in SUBSET v /\ w \in SUBSET U /\ w # U
      BY <3>1
    <3>3. IsSum(of(v), f, v) /\ IsFiniteSet(v)
      BY <1>2, <1>3
    <3>4. of(v)[v] = f[Pick(v)] + of(v)[w]
      BY <2>2, <3>3 DEF IsSum
    <3>5. of(v)[w] = sum(w)
      <4>1. CASE w = {}
        <5>1. of(v)[{}] = 0
          BY <3>3 DEF IsSum
        <5> QED BY <4>1, <5>1
      <4>2. CASE w # {}
        <5>1. IsSum(of(w), f, w)
          BY <1>2, <3>2
        <5> HIDE DEF of, w
        <5>2. \A s \in SUBSET w : of(v)[s] = of(w)[s]
          BY <3>2, <3>3, <5>1, SumsAgree
        <5> QED BY <4>2, <5>2
      <4> QED BY <4>1, <4>2
    <3> QED BY <2>2, <3>4, <3>5
  <2> QED BY <2>1, <2>2
<1>4. ASSUME NEW s \in SUBSET U, s # {}
      PROVE  all[s \ {Pick(s)}] = sum(s \ {Pick(s)})
  <2>1. Pick(s) \in s
    BY <1>4, PickThere
  <2>2. s \ {Pick(s)} \in SUBSET U /\ s \ {Pick(s)} # U
    BY <2>1
  <2> HIDE DEF all, sum
  <2> QED BY <2>2, <1>3
<1>5. IsSum(all, f, U)
  <2>1. \A s \in SUBSET U : (IF s = {} THEN 0 ELSE f[Pick(s)] + sum(s \ {Pick(s)}))
                            = (IF s = {} THEN 0 ELSE f[Pick(s)] + all[s \ {Pick(s)}])
    <3> HIDE DEF all, sum
    <3> QED BY <1>4
  <2>2. all = [s \in SUBSET U |-> IF s = {} THEN 0 ELSE f[Pick(s)] + sum(s \ {Pick(s)})]
    OBVIOUS
  <2> HIDE DEF all, sum
  <2> QED BY <2>1, <2>2 DEF IsSum
<1> HIDE DEF all
<1> QED BY <1>1, <1>5

\* SumFunction is such a sum.
LEMMA SumIs ==
  ASSUME NEW f, IsFiniteSet(DOMAIN f)
  PROVE  \E g : IsSum(g, f, DOMAIN f) /\ SumFunction(f) = g[DOMAIN f]
<1>1. PICK g : IsSum(g, f, DOMAIN f)
  BY SumExists
<1> QED
  BY <1>1 DEF SumFunction, SumFunctionOnSet, FoldFunctionOnSet, MapThenFoldSet, IsSum, Pick

\* A sum of naturals is one, and so is that over each subset.
LEMMA SumsTyped ==
  ASSUME NEW S, IsFiniteSet(S), NEW f \in [S -> Int], NEW g, IsSum(g, f, S)
  PROVE  \A s \in SUBSET S : g[s] \in Int /\ (f \in [S -> Nat] => g[s] >= 0)
<1> DEFINE T == {s \in SUBSET S : ~(g[s] \in Int /\ (f \in [S -> Nat] => g[s] >= 0))}
<1> SUFFICES ASSUME T # {} PROVE FALSE
  OBVIOUS
<1>1. PICK s \in T : \A u \in T : u \subseteq s => u = s
  <2>1. T \subseteq SUBSET S
    OBVIOUS
  <2> HIDE DEF T
  <2> QED BY <2>1, SmallestSubset
<1>2. g[s] = IF s = {} THEN 0 ELSE f[Pick(s)] + g[s \ {Pick(s)}]
  BY DEF IsSum
<1>3. s # {}
  BY <1>2
<1>5. Pick(s) \in s
  BY <1>3, PickThere
<1>6. s \ {Pick(s)} \notin T
  BY <1>1, <1>5
<1>7. g[s \ {Pick(s)}] \in Int /\ (f \in [S -> Nat] => g[s \ {Pick(s)}] >= 0)
  BY <1>6
<1>8. f[Pick(s)] \in Int /\ (f \in [S -> Nat] => f[Pick(s)] >= 0)
  BY <1>5
<1> QED BY <1>2, <1>3, <1>7, <1>8

\* Any element of a set may be summed first.
LEMMA AnyFirst ==
  ASSUME NEW S, IsFiniteSet(S), NEW f \in [S -> Int], NEW g, IsSum(g, f, S)
  PROVE  \A s \in SUBSET S : \A x \in s : g[s] = f[x] + g[s \ {x}]
<1> DEFINE T == {s \in SUBSET S : \E x \in s : g[s] # f[x] + g[s \ {x}]}
<1> SUFFICES ASSUME T # {} PROVE FALSE
  OBVIOUS
<1>1. PICK s \in T : \A u \in T : u \subseteq s => u = s
  <2>1. T \subseteq SUBSET S
    OBVIOUS
  <2> HIDE DEF T
  <2> QED BY <2>1, SmallestSubset
<1>2. PICK x \in s : g[s] # f[x] + g[s \ {x}]
  OBVIOUS
<1> DEFINE c == Pick(s)
<1>3. c \in s
  BY <1>2, PickThere
<1>4. g[s] = f[c] + g[s \ {c}]
  BY <1>2 DEF IsSum
<1>5. x # c
  BY <1>2, <1>4
<1>6. g[s \ {c}] = f[x] + g[(s \ {c}) \ {x}]
  <2>1. s \ {c} \notin T
    BY <1>1, <1>3
  <2> QED BY <1>2, <1>5, <2>1
<1>7. g[s \ {x}] = f[c] + g[(s \ {c}) \ {x}]
  <2>1. s \ {x} \notin T
    BY <1>1, <1>2
  <2>2. g[s \ {x}] = f[c] + g[(s \ {x}) \ {c}]
    BY <1>3, <1>5, <2>1
  <2>3. (s \ {x}) \ {c} = (s \ {c}) \ {x}
    OBVIOUS
  <2> QED BY <2>2, <2>3
<1>8. f[x] \in Int /\ f[c] \in Int /\ g[(s \ {c}) \ {x}] \in Int
  <2>1. (s \ {c}) \ {x} \in SUBSET S
    OBVIOUS
  <2> QED BY <1>3, <2>1, SumsTyped
<1> DEFINE rest == g[(s \ {c}) \ {x}]
<1>9. g[s] = f[c] + (f[x] + rest) /\ g[s \ {x}] = f[c] + rest
  BY <1>4, <1>6, <1>7
<1>10. f[x] \in Int /\ f[c] \in Int /\ rest \in Int
  BY <1>8
<1> HIDE DEF c, T, rest
<1>11. g[s] = f[x] + g[s \ {x}]
  BY <1>9, <1>10
<1> QED BY <1>2, <1>11

-----------------------------------------------------------------------------
\* The sum of integers is one, and of naturals a natural.
THEOREM SumType ==
  ASSUME NEW S, IsFiniteSet(S), NEW f \in [S -> Int]
  PROVE  SumFunction(f) \in Int /\ (f \in [S -> Nat] => SumFunction(f) \in Nat)
<1>1. PICK g : IsSum(g, f, S) /\ SumFunction(f) = g[S]
  BY SumIs
<1> QED BY <1>1, SumsTyped

\* A sum of nothing is 0.
THEOREM SumEmpty ==
  ASSUME NEW f, DOMAIN f = {}
  PROVE  SumFunction(f) = 0
<1>1. PICK g : IsSum(g, f, {}) /\ SumFunction(f) = g[{}]
  BY FS_EmptySet, SumIs
<1> QED BY <1>1 DEF IsSum

\* A sum is any one of the values and the sum of the others.
THEOREM SumStep ==
  ASSUME NEW S, IsFiniteSet(S), NEW f \in [S -> Int], NEW x \in S
  PROVE  SumFunction(f) = f[x] + SumFunction([y \in S \ {x} |-> f[y]])
<1> DEFINE V == S \ {x}
           e == [y \in V |-> f[y]]
<1>1. PICK g : IsSum(g, f, S) /\ SumFunction(f) = g[S]
  BY SumIs
<1>2. IsFiniteSet(V)
  BY FS_Subset
<1>3. DOMAIN e = V /\ \A y \in V : e[y] = f[y]
  OBVIOUS
<1>4. V \in SUBSET S
  OBVIOUS
<1>5. g[S] = f[x] + g[V]
  BY <1>1, AnyFirst
<1> HIDE DEF e, V
<1>6. PICK h : IsSum(h, e, V) /\ SumFunction(e) = h[V]
  BY <1>2, <1>3, SumIs
<1>7. g[V] = h[V]
  BY <1>1, <1>3, <1>4, <1>6, SumsAgree
<1> QED BY <1>1, <1>5, <1>6, <1>7 DEF e, V

\* What the two theorems below compare.  The provers find an instance of a
\* named hypothesis where they do not find one of its conjuncts.
Adds(e, f, S, x) ==
  /\ IsFiniteSet(S) /\ x \notin S
  /\ f \in [S -> Int] /\ e \in [S \cup {x} -> Int] /\ \A y \in S : e[y] = f[y]
Below(e, V, f, S) ==
  /\ IsFiniteSet(V) /\ e \in [V -> Int] /\ IsFiniteSet(S) /\ f \in [S -> Int]
  /\ \A x \in V \cap S : e[x] <= f[x]
  /\ \A x \in V \ S : e[x] <= 0
  /\ \A x \in S \ V : 0 <= f[x]

\* Adding a value adds it to the sum.
THEOREM SumAdd ==
  ASSUME NEW S, NEW f, NEW x, NEW e, Adds(e, f, S, x)
  PROVE  SumFunction(e) = SumFunction(f) + e[x]
<1> USE DEF Adds
<1>1. IsFiniteSet(S \cup {x})
  BY FS_AddElement
<1>2. [y \in (S \cup {x}) \ {x} |-> e[y]] = f
  <2>1. (S \cup {x}) \ {x} = S
    OBVIOUS
  <2>2. f = [y \in S |-> f[y]]
    OBVIOUS
  <2> QED BY <2>1, <2>2
<1>3. SumFunction(f) \in Int /\ e[x] \in Int
  BY SumType
<1>4. SumFunction(e) = e[x] + SumFunction([y \in (S \cup {x}) \ {x} |-> e[y]])
  BY <1>1, SumStep
<1> QED BY <1>2, <1>3, <1>4

\* Replacing a value replaces it in the sum.
THEOREM SumExcept ==
  ASSUME NEW S, IsFiniteSet(S), NEW f \in [S -> Int], NEW x \in S, NEW v \in Int
  PROVE  SumFunction([f EXCEPT ![x] = v]) = SumFunction(f) - f[x] + v
<1> DEFINE e == [f EXCEPT ![x] = v]
<1>1. e \in [S -> Int] /\ e[x] = v /\ f[x] \in Int
  OBVIOUS
<1>2. [y \in S \ {x} |-> e[y]] = [y \in S \ {x} |-> f[y]]
  OBVIOUS
<1>3. [y \in S \ {x} |-> f[y]] \in [S \ {x} -> Int] /\ IsFiniteSet(S \ {x})
  BY FS_Subset
<1> DEFINE rest == SumFunction([y \in S \ {x} |-> f[y]])
<1>4. rest \in Int
  BY <1>3, SumType
<1>5. SumFunction(f) = f[x] + rest
  BY SumStep
<1>6. SumFunction(e) = v + rest
  <2> HIDE DEF e
  <2> QED BY <1>1, <1>2, SumStep
<1> HIDE DEF rest, e
<1>7. SumFunction(e) = SumFunction(f) - f[x] + v
  BY <1>1, <1>4, <1>5, <1>6
<1> QED BY <1>7 DEF e

\* Sums are compared value by value, where a function is undefined as with 0.
THEOREM SumLeq ==
  ASSUME NEW V, NEW e, NEW S, NEW f, Below(e, V, f, S)
  PROVE  SumFunction(e) <= SumFunction(f)
<1> USE DEF Below
<1>1. PICK h : IsSum(h, e, V) /\ SumFunction(e) = h[V]
  BY SumIs
<1>2. PICK g : IsSum(g, f, S) /\ SumFunction(f) = g[S]
  BY SumIs
<1> DEFINE U == V \cup S
           T == {W \in SUBSET U : ~ (h[W \cap V] <= g[W \cap S])}
<1>3. IsFiniteSet(U)
  BY FS_Union
<1>4. ASSUME T # {}
      PROVE  FALSE
  <2>1. PICK W \in T : \A u \in T : u \subseteq W => u = W
    <3>1. T \subseteq SUBSET U
      OBVIOUS
    <3> HIDE DEF T, U
    <3> QED BY <1>3, <1>4, <3>1, SmallestSubset
  <2>2. W # {}
    <3>1. h[{}] = 0 /\ g[{}] = 0
      BY <1>1, <1>2 DEF IsSum
    <3> QED BY <3>1
  <2>3. PICK c \in W : TRUE
    BY <2>2
  <2> DEFINE w == W \ {c}
  <2>4. h[w \cap V] <= g[w \cap S]
    <3>1. w \notin T /\ w \in SUBSET U
      BY <2>1, <2>3
    <3> QED BY <3>1
  <2>5. h[W \cap V] = (IF c \in V THEN e[c] ELSE 0) + h[w \cap V]
    <3>1. W \cap V \in SUBSET V /\ w \cap V \in SUBSET V /\ w \cap V = (W \cap V) \ {c}
      OBVIOUS
    <3>2. h[w \cap V] \in Int
      BY <1>1, <3>1, SumsTyped
    <3>3. CASE c \in V
      BY <1>1, <3>1, <3>3, <2>3, AnyFirst
    <3>4. CASE c \notin V
      <4>1. W \cap V = w \cap V
        BY <3>4
      <4> HIDE DEF w
      <4> QED BY <3>2, <3>4, <4>1
    <3> QED BY <3>3, <3>4
  <2>6. g[W \cap S] = (IF c \in S THEN f[c] ELSE 0) + g[w \cap S]
    <3>1. W \cap S \in SUBSET S /\ w \cap S \in SUBSET S /\ w \cap S = (W \cap S) \ {c}
      OBVIOUS
    <3>2. g[w \cap S] \in Int
      BY <1>2, <3>1, SumsTyped
    <3>3. CASE c \in S
      BY <1>2, <3>1, <3>3, <2>3, AnyFirst
    <3>4. CASE c \notin S
      <4>1. W \cap S = w \cap S
        BY <3>4
      <4> HIDE DEF w
      <4> QED BY <3>2, <3>4, <4>1
    <3> QED BY <3>3, <3>4
  <2>7. (IF c \in V THEN e[c] ELSE 0) <= (IF c \in S THEN f[c] ELSE 0)
    BY <2>3
  <2>8. /\ (IF c \in V THEN e[c] ELSE 0) \in Int /\ (IF c \in S THEN f[c] ELSE 0) \in Int
        /\ h[w \cap V] \in Int /\ g[w \cap S] \in Int
    <3>1. w \cap V \in SUBSET V /\ w \cap S \in SUBSET S
      OBVIOUS
    <3> QED BY <1>1, <1>2, <3>1, SumsTyped
  <2> DEFINE ec == IF c \in V THEN e[c] ELSE 0
             fc == IF c \in S THEN f[c] ELSE 0
             hw == h[w \cap V]
             gw == g[w \cap S]
  <2>9. ec + hw <= fc + gw
    <3>1. ec <= fc /\ hw <= gw /\ ec \in Int /\ fc \in Int /\ hw \in Int /\ gw \in Int
      BY <2>4, <2>7, <2>8
    <3> HIDE DEF ec, fc, hw, gw
    <3> QED BY <3>1
  <2> QED BY <2>5, <2>6, <2>9
<1>5. U \notin T /\ U \in SUBSET U
  BY <1>4
<1>6. h[U \cap V] <= g[U \cap S]
  BY <1>5
<1>7. U \cap V = V /\ U \cap S = S
  OBVIOUS
<1> QED BY <1>1, <1>2, <1>6, <1>7

\* Where one function is less by some amount, so is its sum.
THEOREM SumGap ==
  ASSUME NEW S, NEW e, NEW f, Below(e, S, f, S), NEW x \in S
  PROVE  SumFunction(e) + (f[x] - e[x]) <= SumFunction(f)
<1>0. /\ IsFiniteSet(S) /\ e \in [S -> Int] /\ f \in [S -> Int] /\ \A y \in S : e[y] <= f[y]
  BY DEF Below
<1> DEFINE V  == S \ {x}
           e1 == [y \in V |-> e[y]]
           f1 == [y \in V |-> f[y]]
<1>1. IsFiniteSet(V) /\ e1 \in [V -> Int] /\ f1 \in [V -> Int] /\ \A y \in V : e1[y] <= f1[y]
  BY <1>0, FS_Subset
<1>2. SumFunction(e) = e[x] + SumFunction(e1) /\ SumFunction(f) = f[x] + SumFunction(f1)
  BY <1>0, SumStep
<1>3. e[x] \in Int /\ f[x] \in Int
  BY <1>0
<1> HIDE DEF V, e1, f1
<1>4. SumFunction(e1) <= SumFunction(f1)
  BY <1>1, SumLeq DEF Below
<1>5. SumFunction(e1) \in Int /\ SumFunction(f1) \in Int
  BY <1>1, SumType
<1> QED BY <1>2, <1>3, <1>4, <1>5

\* No value is more than the sum of naturals.
THEOREM SumAtLeast ==
  ASSUME NEW S, IsFiniteSet(S), NEW f \in [S -> Nat], NEW x \in S
  PROVE  f[x] <= SumFunction(f)
<1> DEFINE rest == [y \in S \ {x} |-> f[y]]
<1>1. IsFiniteSet(S \ {x}) /\ rest \in [S \ {x} -> Nat] /\ rest \in [S \ {x} -> Int]
  BY FS_Subset
<1>2. f \in [S -> Int] /\ f[x] \in Nat
  OBVIOUS
<1>3. SumFunction(f) = f[x] + SumFunction(rest)
  BY <1>2, SumStep
<1> HIDE DEF rest
<1>4. SumFunction(rest) \in Nat
  BY <1>1, SumType
<1> QED BY <1>2, <1>3, <1>4

\* A sum of ones counts.
THEOREM SumOnes ==
  ASSUME NEW S, IsFiniteSet(S), NEW f \in [S -> Int], \A x \in S : f[x] = 1
  PROVE  SumFunction(f) = Cardinality(S)
<1>1. PICK g : IsSum(g, f, S) /\ SumFunction(f) = g[S]
  <2>1. DOMAIN f = S
    OBVIOUS
  <2> QED BY <2>1, SumIs
<1> DEFINE T == {W \in SUBSET S : g[W] # Cardinality(W)}
<1>2. ASSUME T # {}
      PROVE  FALSE
  <2>1. PICK W \in T : \A u \in T : u \subseteq W => u = W
    <3>1. T \subseteq SUBSET S
      OBVIOUS
    <3> HIDE DEF T
    <3> QED BY <1>2, <3>1, SmallestSubset
  <2>2. W # {}
    <3>1. g[{}] = 0
      BY <1>1 DEF IsSum
    <3> QED BY <3>1, FS_EmptySet
  <2>3. PICK c \in W : TRUE
    BY <2>2
  <2> DEFINE w == W \ {c}
  <2>4. g[w] = Cardinality(w)
    <3>1. w \notin T /\ w \in SUBSET S
      BY <2>1, <2>3
    <3> QED BY <3>1
  <2>5. g[W] = f[c] + g[w]
    <3>1. W \in SUBSET S
      OBVIOUS
    <3> QED BY <1>1, <2>3, <3>1, AnyFirst
  <2>6. IsFiniteSet(W) /\ IsFiniteSet(w) /\ Cardinality(W) \in Nat
    BY FS_Subset, FS_CardinalityType
  <2>7. Cardinality(w) = Cardinality(W) - 1
    BY <2>3, <2>6, FS_RemoveElement
  <2>8. f[c] = 1
    BY <2>3
  <2> HIDE DEF w
  <2>9. g[W] = Cardinality(W)
    BY <2>4, <2>5, <2>6, <2>7, <2>8
  <2> QED BY <2>9
<1>3. g[S] = Cardinality(S)
  BY <1>2
<1> QED BY <1>1, <1>3

\* Zeros sum to 0.
THEOREM SumZeros ==
  ASSUME NEW S, IsFiniteSet(S), NEW f, f = [x \in S |-> 0]
  PROVE  SumFunction(f) = 0
<1> DEFINE none == [x \in {} |-> 0]
<1>1. f \in [S -> Int] /\ f \in [S -> Nat] /\ \A x \in S : f[x] = 0
  OBVIOUS
<1>2. none \in [{} -> Int] /\ DOMAIN none = {}
  OBVIOUS
<1> HIDE DEF none
<1>3. Below(f, S, none, {})
  BY <1>1, <1>2, FS_EmptySet DEF Below
<1>4. SumFunction(f) <= SumFunction(none)
  BY <1>3, SumLeq
<1>5. SumFunction(none) = 0
  BY <1>2, SumEmpty
<1>6. SumFunction(f) \in Nat
  BY <1>1, SumType
<1> QED BY <1>4, <1>5, <1>6

\* Values that are each within a multiple of others sum to within that
\* multiple of their sum.
THEOREM SumWithin ==
  ASSUME NEW S, IsFiniteSet(S), NEW f \in [S -> Nat], NEW e \in [S -> Nat], NEW m \in Nat,
         \A x \in S : f[x] <= m * e[x]
  PROVE  SumFunction(f) <= m * SumFunction(e)
<1>0. f \in [S -> Int] /\ e \in [S -> Int]
  OBVIOUS
<1>1. PICK g : IsSum(g, f, S) /\ SumFunction(f) = g[S]
  BY SumIs
<1>2. PICK h : IsSum(h, e, S) /\ SumFunction(e) = h[S]
  BY SumIs
<1>3. \A s \in SUBSET S : g[s] \in Nat /\ h[s] \in Nat
  BY <1>0, <1>1, <1>2, SumsTyped
<1> DEFINE T == {s \in SUBSET S : ~ (g[s] <= m * h[s])}
<1>4. ASSUME T # {}
      PROVE  FALSE
  <2>1. PICK s \in T : \A u \in T : u \subseteq s => u = s
    <3>1. T \subseteq SUBSET S
      OBVIOUS
    <3> HIDE DEF T
    <3> QED BY <1>4, <3>1, SmallestSubset
  <2>2. /\ g[s] = IF s = {} THEN 0 ELSE f[Pick(s)] + g[s \ {Pick(s)}]
        /\ h[s] = IF s = {} THEN 0 ELSE e[Pick(s)] + h[s \ {Pick(s)}]
    BY <1>1, <1>2 DEF IsSum
  <2>3. s # {}
    <3>1. s = {} => g[s] = 0 /\ h[s] = 0
      BY <2>2
    <3> QED BY <3>1
  <2> DEFINE x == Pick(s)
             u == s \ {x}
  <2>4. x \in s /\ x \in S /\ u \in SUBSET S
    BY <2>3, PickThere
  <2>5. u \notin T
    BY <2>1, <2>4
  <2>6. g[u] <= m * h[u] /\ g[s] = f[x] + g[u] /\ h[s] = e[x] + h[u]
    BY <2>2, <2>3, <2>4, <2>5
  <2>7. f[x] <= m * e[x] /\ f[x] \in Nat /\ e[x] \in Nat /\ g[u] \in Nat /\ h[u] \in Nat
    BY <1>3, <2>4
  <2>8. ~ (g[s] <= m * h[s])
    OBVIOUS
  <2> HIDE DEF x, u, T
  <2>9. m * (e[x] + h[u]) = m * e[x] + m * h[u] /\ m * e[x] \in Nat /\ m * h[u] \in Nat
    BY <2>7
  <2> QED BY <2>6, <2>7, <2>8, <2>9
<1>5. S \notin T
  BY <1>4
<1> QED BY <1>1, <1>2, <1>5

\* Values of a finite set have an upper bound that is one of them, or 0.
THEOREM Greatest ==
  ASSUME NEW S, IsFiniteSet(S), NEW f \in [S -> Nat]
  PROVE  \E m \in {0} \cup {f[x] : x \in S} : \A x \in S : f[x] <= m
<1> DEFINE Above(s, m) == \A x \in s : f[x] <= m
           T == {s \in SUBSET S : ~ \E m \in {0} \cup {f[x] : x \in s} : Above(s, m)}
<1> SUFFICES ASSUME T # {} PROVE FALSE
  OBVIOUS
<1>1. PICK s \in T : \A u \in T : u \subseteq s => u = s
  <2>1. T \subseteq SUBSET S
    OBVIOUS
  <2> HIDE DEF T
  <2> QED BY <2>1, SmallestSubset
<1>2. s # {}
  OBVIOUS
<1> DEFINE c == Pick(s)
           u == s \ {c}
<1>3. c \in s /\ u \in SUBSET S /\ u # s
  BY <1>2, PickThere
<1>4. u \notin T
  BY <1>1, <1>3
<1>5. PICK m \in {0} \cup {f[x] : x \in u} : Above(u, m)
  BY <1>3, <1>4
<1>6. m \in Nat /\ f[c] \in Nat /\ s = u \cup {c}
  BY <1>3
<1> HIDE DEF c, u
<1>7. CASE f[c] <= m
  BY <1>5, <1>6, <1>7
<1>8. CASE m < f[c]
  <2>1. Above(s, f[c])
    <3>1. \A x \in u : f[x] \in Nat /\ f[x] <= m
      BY <1>5, <1>6
    <3> QED BY <1>6, <1>8, <3>1
  <2> QED BY <1>6, <2>1
<1> QED BY <1>6, <1>7, <1>8
=============================================================================
