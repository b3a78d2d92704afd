------------------------------ MODULE CanProofs ------------------------------
(* What TLAPS proves of CanNetwork, for any topology, configurations and     *)
(* workloads: its versions, sequences and clock are one history each, a node *)
(* that is bus-off is silent, and arbitration serves the frames in order.    *)
EXTENDS CanNetwork, FiniteSetTheorems, FunctionTheorems, SequenceTheorems,
        NaturalsInduction, WellFoundedInduction, TLAPS

-----------------------------------------------------------------------------
(* Least elements and sums over finite sets, by minimal counterexamples      *)

\* Every set of natural numbers has a least element.
LEMMA LeastNatural ==
    ASSUME NEW C \in SUBSET Nat, C # {}
    PROVE  \E n \in C : \A m \in C : n <= m
<1>1. PICK n \in C : \A m \in C : ~(<<m, n>> \in OpToRel(<, Nat))
  BY NatLessThanWellFounded, WFMin
<1>2. \A m \in C : ~(m < n)
  BY <1>1 DEF OpToRel
<1>3. ASSUME NEW m \in C PROVE n <= m
  <2>1. n \in Nat /\ m \in Nat /\ ~(m < n)
    BY <1>2
  <2> QED
    BY ONLY <2>1
<1> QED
  BY <1>3

\* The extremes of two numbers, and the least of a set of numbers.
LEMMA MaxOfTwo ==
    ASSUME NEW a \in Int, NEW b \in Int
    PROVE  Max({a, b}) = IF a >= b THEN a ELSE b
BY DEF Max

\* The lesser of two numbers.
LEMMA MinOfTwo ==
    ASSUME NEW a \in Int, NEW b \in Int
    PROVE  Min({a, b}) = IF a <= b THEN a ELSE b
BY DEF Min

\* Min is the least of a set of numbers.
LEMMA MinOfNaturals ==
    ASSUME NEW S \in SUBSET Nat, S # {}
    PROVE  Min(S) \in S /\ \A x \in S : Min(S) <= x
BY LeastNatural DEF Min

\* Every family of subsets of a finite set has a minimal member.
LEMMA MinimalSubset ==
    ASSUME NEW S, IsFiniteSet(S), NEW C \in SUBSET SUBSET S, C # {}
    PROVE  \E T \in C : \A U \in C : U \subseteq T => U = T
<1> DEFINE Sizes == {Cardinality(T) : T \in C}
<1>1. \A T \in C : IsFiniteSet(T) /\ Cardinality(T) \in Nat
  BY FS_Subset, FS_CardinalityType
<1>2. Sizes \subseteq Nat /\ Sizes # {}
  BY <1>1
<1>3. PICK n \in Sizes : \A m \in Sizes : ~(<<m, n>> \in OpToRel(<, Nat))
  <2> HIDE DEF Sizes
  <2> QED
    BY ONLY <1>2, NatLessThanWellFounded, WFMin
<1>4. \A m \in Sizes : ~(m < n)
  BY <1>2, <1>3 DEF OpToRel
<1>5. PICK T \in C : Cardinality(T) = n
  BY <1>3
<1>6. ASSUME NEW U \in C, U \subseteq T
      PROVE  U = T
  <2>1. ~(Cardinality(U) < Cardinality(T)) /\ Cardinality(U) \in Nat /\ Cardinality(T) \in Nat
    BY <1>1, <1>4, <1>5
  <2>2. Cardinality(U) <= Cardinality(T) /\ (Cardinality(U) = Cardinality(T) => T = U)
    BY ONLY <1>1, <1>6, FS_Subset
  <2> QED
    BY <2>1, <2>2
<1> QED
  BY <1>5, <1>6

-----------------------------------------------------------------------------
(* Sums over finite sets: MapThenSumSet, for a summand given as a function *)

Pick(s) == CHOOSE x \in s : TRUE

\* The function that MapThenFoldSet recurses with.
Sums(f, T, g) ==
    g = [s \in SUBSET T |-> IF s = {} THEN 0 ELSE f[Pick(s)] + g[s \ {Pick(s)}]]

SumOn(f, T) == (CHOOSE g : Sums(f, T, g))[T]

\* The recursive functions over two finite sets agree on the subsets of both.
LEMMA SumsAgree ==
    ASSUME NEW f, NEW T, IsFiniteSet(T), NEW U, NEW g, NEW h, Sums(f, T, g), Sums(f, U, h)
    PROVE  \A s \in SUBSET T : s \in SUBSET U => g[s] = h[s]
<1> DEFINE C == {s \in SUBSET T : s \in SUBSET U /\ g[s] # h[s]}
<1>1. SUFFICES ASSUME C # {} PROVE FALSE
  OBVIOUS
<1>2. PICK s \in C : \A u \in C : u \subseteq s => u = s
  <2> HIDE DEF C
  <2>1. C \in SUBSET SUBSET T
    BY DEF C
  <2> QED
    BY ONLY <1>1, <2>1, IsFiniteSet(T), MinimalSubset
<1>3. CASE s = {}
  BY <1>2, <1>3 DEF Sums
<1>4. CASE s # {}
  <2>1. Pick(s) \in s
    BY <1>4 DEF Pick
  <2>2. s \ {Pick(s)} \notin C
    BY <1>2, <2>1
  <2>3. g[s \ {Pick(s)}] = h[s \ {Pick(s)}]
    BY <1>2, <2>2
  <2>4. /\ g[s] = f[Pick(s)] + g[s \ {Pick(s)}]
        /\ h[s] = f[Pick(s)] + h[s \ {Pick(s)}]
    BY <1>2, <1>4 DEF Sums
  <2> QED
    BY <1>2, <2>3, <2>4
<1> QED
  BY <1>3, <1>4

\* The recursive function of a finite set exists.
LEMMA SumsExist ==
    ASSUME NEW f, NEW S, IsFiniteSet(S)
    PROVE  \E g : Sums(f, S, g)
<1> DEFINE C == {T \in SUBSET S : ~ \E g : Sums(f, T, g)}
           W(T) == CHOOSE g : Sums(f, T, g)
<1>1. SUFFICES ASSUME C # {} PROVE FALSE
  OBVIOUS
<1>2. PICK T \in C : \A U \in C : U \subseteq T => U = T
  <2> HIDE DEF C
  <2>1. C \in SUBSET SUBSET S
    BY DEF C
  <2> QED
    BY ONLY <1>1, <2>1, IsFiniteSet(S), MinimalSubset
<1>3. \A U \in SUBSET T : U # T => Sums(f, U, W(U)) /\ IsFiniteSet(U)
  <2> TAKE U \in SUBSET T
  <2> HAVE U # T
  <2>1. \E g : Sums(f, U, g)
    BY <1>2
  <2>2. IsFiniteSet(U)
    BY <1>2, FS_Subset
  <2> QED
    BY ONLY <2>1, <2>2
<1> DEFINE h == [s \in SUBSET T |-> IF s = {} THEN 0
                                    ELSE f[Pick(s)] + SumOn(f, s \ {Pick(s)})]
<1>4. \A s \in SUBSET T : s # {} => Pick(s) \in s /\ s \ {Pick(s)} \in SUBSET T /\ s \ {Pick(s)} # T
  BY DEF Pick
<1>5. \A s \in SUBSET T : s # T => h[s] = SumOn(f, s)
  <2> TAKE s \in SUBSET T
  <2> HAVE s # T
  <2>1. Sums(f, s, W(s)) /\ IsFiniteSet(s)
    BY <1>3
  <2>2. CASE s = {}
    BY <2>1, <2>2 DEF Sums, SumOn
  <2>3. CASE s # {}
    <3> DEFINE u == s \ {Pick(s)}
    <3>1. Sums(f, u, W(u)) /\ u \subseteq s
      BY <1>3, <1>4, <2>3
    <3>2. W(s)[u] = W(u)[u]
      BY ONLY <2>1, <3>1, SumsAgree
    <3>3. W(s)[s] = f[Pick(s)] + W(s)[u]
      BY ONLY <2>1, <2>3 DEF Sums
    <3>4. SumOn(f, s) = W(s)[s] /\ SumOn(f, u) = W(u)[u]
      BY DEF SumOn
    <3>5. h[s] = f[Pick(s)] + SumOn(f, u)
      BY <2>3
    <3> QED
      BY ONLY <3>2, <3>3, <3>4, <3>5
  <2> QED
    BY <2>2, <2>3
<1>6. \A s \in SUBSET T : s # {} => h[s \ {Pick(s)}] = SumOn(f, s \ {Pick(s)})
  <2> HIDE DEF h
  <2> QED
    BY ONLY <1>4, <1>5
<1>7. Sums(f, T, h)
  BY <1>6 DEF Sums
<1> QED
  BY <1>2, <1>7

\* What MapThenSumSet computes: nothing for no element, and one element more
\* adds its summand, whichever element is chosen first.
LEMMA SumEmpty == ASSUME NEW f PROVE SumOn(f, {}) = 0
<1>1. Sums(f, {}, CHOOSE g : Sums(f, {}, g))
  BY SumsExist, FS_EmptySet
<1> QED
  BY <1>1 DEF Sums, SumOn

\* The sum over a set that is not empty is that of one member and the rest.
LEMMA SumUnfolds ==
    ASSUME NEW f, NEW T, IsFiniteSet(T), T # {}
    PROVE  /\ Pick(T) \in T
           /\ SumOn(f, T) = f[Pick(T)] + SumOn(f, T \ {Pick(T)})
<1> DEFINE u == T \ {Pick(T)}
           W(s) == CHOOSE g : Sums(f, s, g)
<1>1. Pick(T) \in T /\ IsFiniteSet(u) /\ u \in SUBSET T
  BY FS_Subset DEF Pick
<1>2. Sums(f, T, W(T)) /\ Sums(f, u, W(u))
  BY <1>1, SumsExist
<1>3. W(T)[u] = W(u)[u]
  <2>1. u \in SUBSET u
    OBVIOUS
  <2> HIDE DEF u, W
  <2> QED
    BY ONLY <1>1, <1>2, <2>1, IsFiniteSet(T), SumsAgree
<1>4. W(T)[T] = f[Pick(T)] + W(T)[u]
  BY ONLY <1>2, T # {} DEF Sums
<1> QED
  BY <1>1, <1>3, <1>4 DEF SumOn

\* Every solution of the recursive equation over a finite set gives its sum.
LEMMA SumIsAny ==
    ASSUME NEW f, NEW S, IsFiniteSet(S), NEW w, Sums(f, S, w)
    PROVE  w[S] = SumOn(f, S)
<1> DEFINE v == CHOOSE g : Sums(f, S, g)
<1>1. Sums(f, S, v)
  BY SumsExist
<1>2. S \in SUBSET S
  OBVIOUS
<1>3. w[S] = v[S]
  <2> HIDE DEF v
  <2> QED
    BY ONLY <1>1, <1>2, IsFiniteSet(S), Sums(f, S, w), SumsAgree
<1> QED
  BY <1>3 DEF SumOn

\* A sum of integers is an integer.
LEMMA SumIsInt ==
    ASSUME NEW f, NEW S, IsFiniteSet(S), \A x \in S : f[x] \in Int
    PROVE  \A T \in SUBSET S : SumOn(f, T) \in Int
<1> DEFINE C == {T \in SUBSET S : SumOn(f, T) \notin Int}
<1>1. SUFFICES ASSUME C # {} PROVE FALSE
  OBVIOUS
<1>2. PICK T \in C : \A U \in C : U \subseteq T => U = T
  <2> HIDE DEF C
  <2>1. C \in SUBSET SUBSET S
    BY DEF C
  <2> QED
    BY ONLY <1>1, <2>1, IsFiniteSet(S), MinimalSubset
<1>3. T # {}
  <2>1. SumOn(f, {}) \in Int
    BY SumEmpty
  <2> QED
    BY <1>2, <2>1
<1>4. T \in SUBSET S /\ IsFiniteSet(T)
  BY <1>2, FS_Subset
<1>5. Pick(T) \in T /\ SumOn(f, T) = f[Pick(T)] + SumOn(f, T \ {Pick(T)})
  BY ONLY <1>3, <1>4, SumUnfolds
<1>6. T \ {Pick(T)} \notin C
  BY <1>2, <1>5
<1>7. SumOn(f, T \ {Pick(T)}) \in Int
  BY <1>4, <1>6
<1>8. f[Pick(T)] \in Int
  BY <1>4, <1>5
<1>9. SumOn(f, T) \in Int
  BY ONLY <1>5, <1>7, <1>8
<1> QED
  BY <1>2, <1>9

\* Any member of the set may be the one that is taken from the sum.
LEMMA SumAdds ==
    ASSUME NEW f, NEW S, IsFiniteSet(S), \A x \in S : f[x] \in Int
    PROVE  \A T \in SUBSET S : \A x \in T : SumOn(f, T) = f[x] + SumOn(f, T \ {x})
<1> DEFINE C == {T \in SUBSET S : \E x \in T : SumOn(f, T) # f[x] + SumOn(f, T \ {x})}
<1>1. SUFFICES ASSUME C # {} PROVE FALSE
  OBVIOUS
<1>2. PICK T \in C : \A U \in C : U \subseteq T => U = T
  <2> HIDE DEF C
  <2>1. C \in SUBSET SUBSET S
    BY DEF C
  <2> QED
    BY ONLY <1>1, <2>1, IsFiniteSet(S), MinimalSubset
<1>3. PICK x \in T : SumOn(f, T) # f[x] + SumOn(f, T \ {x})
  BY <1>2
<1>4. T \in SUBSET S /\ IsFiniteSet(T)
  BY <1>2, FS_Subset
<1> DEFINE p == Pick(T)
<1>5. p \in T /\ SumOn(f, T) = f[p] + SumOn(f, T \ {p})
  BY ONLY <1>3, <1>4, SumUnfolds
<1>6. x # p
  BY <1>3, <1>5
<1> DEFINE u == T \ {p}
           v == T \ {x}
           w == T \ {p, x}
<1>7. /\ x \in u /\ u \ {x} = w /\ u \in SUBSET S /\ u \notin C
      /\ p \in v /\ v \ {p} = w /\ v \in SUBSET S /\ v \notin C
      /\ w \in SUBSET S
  BY <1>2, <1>3, <1>4, <1>5, <1>6
<1>8. SumOn(f, u) = f[x] + SumOn(f, w) /\ SumOn(f, v) = f[p] + SumOn(f, w)
  <2> HIDE DEF u, v, w, p
  <2> QED
    BY <1>7
<1>9. SumOn(f, w) \in Int /\ f[x] \in Int /\ f[p] \in Int
  <2> HIDE DEF w, p
  <2>1. SumOn(f, w) \in Int
    BY ONLY <1>7, SumIsInt, IsFiniteSet(S), \A y \in S : f[y] \in Int
  <2> QED
    BY <1>3, <1>4, <1>5, <2>1
<1> QED
  BY ONLY <1>3, <1>5, <1>8, <1>9

\* Summands that agree have the same sum.
LEMMA SumAgrees ==
    ASSUME NEW f, NEW g, NEW S, IsFiniteSet(S), \A x \in S : f[x] = g[x]
    PROVE  \A T \in SUBSET S : SumOn(f, T) = SumOn(g, T)
<1> DEFINE C == {T \in SUBSET S : SumOn(f, T) # SumOn(g, T)}
<1>1. SUFFICES ASSUME C # {} PROVE FALSE
  OBVIOUS
<1>2. PICK T \in C : \A U \in C : U \subseteq T => U = T
  <2> HIDE DEF C
  <2>1. C \in SUBSET SUBSET S
    BY DEF C
  <2> QED
    BY ONLY <1>1, <2>1, IsFiniteSet(S), MinimalSubset
<1>3. T # {}
  BY <1>2, SumEmpty
<1>4. T \in SUBSET S /\ IsFiniteSet(T)
  BY <1>2, FS_Subset
<1>5. /\ Pick(T) \in T
      /\ SumOn(f, T) = f[Pick(T)] + SumOn(f, T \ {Pick(T)})
      /\ SumOn(g, T) = g[Pick(T)] + SumOn(g, T \ {Pick(T)})
  BY ONLY <1>3, <1>4, SumUnfolds
<1>6. T \ {Pick(T)} \notin C
  BY <1>2, <1>5
<1> QED
  BY <1>2, <1>4, <1>5, <1>6

\* What the members of a finite family of disjoint finite sets have together.
LEMMA SumOfCardinalities ==
    ASSUME NEW A, NEW S, IsFiniteSet(S), \A x \in S : IsFiniteSet(A[x]),
           \A x, y \in S : x # y => A[x] \cap A[y] = {}
    PROVE  LET f == [x \in S |-> Cardinality(A[x])]
           IN  SumOn(f, S) = Cardinality(UNION {A[x] : x \in S})
<1> DEFINE f == [x \in S |-> Cardinality(A[x])]
           All(T) == UNION {A[x] : x \in T}
           C == {T \in SUBSET S : ~(IsFiniteSet(All(T)) /\ SumOn(f, T) = Cardinality(All(T)))}
<1>1. SUFFICES ASSUME C # {} PROVE FALSE
  BY <1>1
<1>2. PICK T \in C : \A U \in C : U \subseteq T => U = T
  <2> HIDE DEF C
  <2>1. C \in SUBSET SUBSET S
    BY DEF C
  <2> QED
    BY ONLY <1>1, <2>1, IsFiniteSet(S), MinimalSubset
<1>3. T # {}
  <2>1. All({}) = {}
    OBVIOUS
  <2>2. SumOn(f, {}) = Cardinality(All({})) /\ IsFiniteSet(All({}))
    BY <2>1, SumEmpty, FS_EmptySet
  <2> QED
    BY <1>2, <2>2
<1>4. T \in SUBSET S /\ IsFiniteSet(T)
  BY <1>2, FS_Subset
<1> DEFINE p == Pick(T)
           u == T \ {p}
<1>5. p \in T /\ SumOn(f, T) = f[p] + SumOn(f, u)
  <2> HIDE DEF f
  <2> QED
    BY ONLY <1>3, <1>4, SumUnfolds
<1>6. u \notin C /\ u \in SUBSET S /\ p \in S
  BY <1>2, <1>4, <1>5
<1>7. IsFiniteSet(All(u)) /\ SumOn(f, u) = Cardinality(All(u))
  BY <1>6
<1>8. All(T) = All(u) \cup A[p] /\ All(u) \cap A[p] = {}
  BY <1>4, <1>5, <1>6
<1>9. /\ IsFiniteSet(All(T))
      /\ Cardinality(All(T)) = Cardinality(All(u)) + Cardinality(A[p])
  <2>1. IsFiniteSet(A[p])
    BY <1>6
  <2>2. Cardinality({}) = 0 /\ Cardinality(All(u)) \in Nat /\ Cardinality(A[p]) \in Nat
    BY <1>7, <2>1, FS_EmptySet, FS_CardinalityType
  <2> HIDE DEF All, u, p
  <2>3. /\ IsFiniteSet(All(u) \cup A[p])
        /\ Cardinality(All(u) \cup A[p]) = Cardinality(All(u)) + Cardinality(A[p])
                                           - Cardinality(All(u) \cap A[p])
    BY ONLY <1>7, <2>1, FS_Union
  <2>4. Cardinality(All(u) \cap A[p]) = 0
    BY ONLY <1>8, <2>2
  <2>5. Cardinality(All(u) \cup A[p]) = Cardinality(All(u)) + Cardinality(A[p])
    BY ONLY <2>2, <2>3, <2>4
  <2> QED
    BY ONLY <1>8, <2>3, <2>5
<1>10. f[p] = Cardinality(A[p]) /\ f[p] \in Nat /\ Cardinality(All(u)) \in Nat
  BY <1>6, <1>7, FS_CardinalityType
<1>11. SumOn(f, T) = Cardinality(All(T))
  <2> HIDE DEF f, All, u, p
  <2> QED
    BY ONLY <1>5, <1>7, <1>9, <1>10
<1> QED
  BY <1>2, <1>9, <1>11

\* A sum grows by the summand of one more member.
LEMMA SumGrows ==
    ASSUME NEW f, NEW g, NEW S, IsFiniteSet(S), NEW x, x \notin S,
           \A y \in S : f[y] = g[y] /\ g[y] \in Int, g[x] \in Int
    PROVE  SumOn(g, S \cup {x}) = SumOn(f, S) + g[x]
<1> DEFINE T == S \cup {x}
<1>1. IsFiniteSet(T) /\ T \in SUBSET T /\ x \in T /\ T \ {x} = S
  BY FS_AddElement
<1>2. \A y \in T : g[y] \in Int
  OBVIOUS
<1>3. SumOn(g, T) = g[x] + SumOn(g, T \ {x})
  <2> HIDE DEF T
  <2> QED
    BY ONLY <1>1, <1>2, SumAdds
<1>4. SumOn(f, S) = SumOn(g, S)
  BY SumAgrees
<1>5. SumOn(g, S) \in Int
  BY SumIsInt
<1>6. SumOn(g, T) = g[x] + SumOn(g, S)
  BY <1>1, <1>3
<1> QED
  BY <1>4, <1>5, <1>6

\* Members without a summand leave a sum alone.
LEMMA SumIgnoresZeros ==
    ASSUME NEW f, NEW g, NEW S, IsFiniteSet(S), NEW Z, IsFiniteSet(Z),
           \A y \in S : f[y] = g[y] /\ g[y] \in Int, \A z \in Z : g[z] = 0
    PROVE  SumOn(g, S \cup Z) = SumOn(f, S)
<1> DEFINE C == {T \in SUBSET Z : SumOn(g, S \cup T) # SumOn(f, S)}
<1>1. SUFFICES ASSUME C # {} PROVE FALSE
  <2>1. Z \notin C
    BY <1>1
  <2> QED
    BY <2>1
<1>2. PICK T \in C : \A U \in C : U \subseteq T => U = T
  <2> HIDE DEF C
  <2>1. C \in SUBSET SUBSET Z
    BY DEF C
  <2> QED
    BY ONLY <1>1, <2>1, IsFiniteSet(Z), MinimalSubset
<1>3. SumOn(g, S) = SumOn(f, S)
  BY SumAgrees
<1>4. ~(T \subseteq S)
  <2>1. ASSUME T \subseteq S PROVE FALSE
    <3>1. S \cup T = S
      BY <2>1
    <3> QED
      BY <1>2, <1>3, <3>1
  <2> QED
    BY <2>1
<1>5. PICK z \in T : z \notin S
  BY <1>4
<1> DEFINE U == S \cup (T \ {z})
<1>6. SumOn(g, U) = SumOn(f, S)
  <2>1. T \ {z} \in SUBSET Z /\ T \ {z} \subseteq T /\ T \ {z} # T
    BY <1>2, <1>5
  <2>2. T \ {z} \notin C
    BY <1>2, <2>1
  <2> QED
    BY <2>1, <2>2
<1>7. IsFiniteSet(U)
  BY <1>2, FS_Subset, FS_Union
<1>8. (\A y \in U : g[y] = g[y] /\ g[y] \in Int) /\ g[z] = 0 /\ z \notin U /\ U \cup {z} = S \cup T
  BY <1>2, <1>5
<1>9. SumOn(g, U \cup {z}) = SumOn(g, U) + g[z]
  <2> HIDE DEF U
  <2> QED
    BY <1>7, <1>8, SumGrows
<1>10. SumOn(f, S) \in Int
  <2>1. S \in SUBSET S
    OBVIOUS
  <2> QED
    BY <1>3, <2>1, SumIsInt
<1>11. SumOn(g, S \cup T) = SumOn(f, S)
  <2> HIDE DEF U
  <2> QED
    BY ONLY <1>6, <1>8, <1>9, <1>10
<1> QED
  BY <1>2, <1>11

-----------------------------------------------------------------------------
(* Images of finite sets                                                     *)

\* The image of a finite set is finite.
LEMMA ImageIsFinite ==
    ASSUME NEW S, IsFiniteSet(S), NEW f
    PROVE  IsFiniteSet({f[x] : x \in S})
<1> DEFINE T == {f[x] : x \in S}
           g == [x \in S |-> f[x]]
<1>1. g \in Surjection(S, T)
  <2>1. g \in [S -> T] /\ \A t \in T : \E x \in S : g[x] = t
    OBVIOUS
  <2> QED
    BY ONLY <2>1, Fun_IsSurj
<1> HIDE DEF T, g
<1>2. IsFiniteSet(T)
  BY <1>1, FS_Surjection
<1> QED
  BY <1>2 DEF T

\* An injective image has as many members.
LEMMA ImageOfInjection ==
    ASSUME NEW S, IsFiniteSet(S), NEW f, \A x, y \in S : f[x] = f[y] => x = y
    PROVE  /\ IsFiniteSet({f[x] : x \in S})
           /\ Cardinality({f[x] : x \in S}) = Cardinality(S)
<1> DEFINE T == {f[x] : x \in S}
           g == [x \in S |-> f[x]]
<1>1. g \in Bijection(S, T)
  <2>1. /\ g \in [S -> T] /\ \A t \in T : \E x \in S : g[x] = t
        /\ \A x, y \in S : g[x] = g[y] => x = y
    OBVIOUS
  <2> QED
    BY ONLY <2>1, Fun_IsBij
<1>2. ExistsBijection(S, T)
  BY <1>1 DEF ExistsBijection
<1> HIDE DEF T, g
<1>3. IsFiniteSet(T) /\ Cardinality(T) = Cardinality(S)
  BY <1>2, FS_Bijection
<1> QED
  BY <1>3 DEF T

-----------------------------------------------------------------------------
(* Durations                                                                 *)

\* A quotient rounded up is a number.
LEMMA CeilIsNatural ==
    ASSUME NEW a \in Nat, NEW b \in Nat \ {0}
    PROVE  Ceil(a, b) \in Nat
<1>1. a + b - 1 \in Nat
  OBVIOUS
<1>2. \A x \in Nat : x \div b \in Nat
  OBVIOUS
<1> QED
  BY ONLY <1>1, <1>2 DEF Ceil

\* So is the time that bits take.
LEMMA BitTimeIsNatural ==
    ASSUME NEW bits \in Nat, NEW rate \in Nat \ {0}
    PROVE  BitTime(bits, rate) \in Nat
<1>1. bits * 1000 \in Nat
  OBVIOUS
<1> QED
  BY <1>1, CeilIsNatural DEF BitTime

\* The rates and the budget of the vehicle are positive.
LEMMA RatesAreNatural == Bitrate \in Nat \ {0} /\ DataBitrate \in Nat \ {0} /\ Budget \in Nat \ {0}
BY NetworkAssumption

\* A frame contract has the fields it declares.
LEMMA ContractTyped ==
    ASSUME NEW c \in Contracts
    PROVE  /\ c.id \in STRING /\ c.frame_id \in Nat /\ c.extended \in BOOLEAN /\ c.fd \in BOOLEAN
           /\ c.brs \in BOOLEAN /\ c.dlc \in Nat /\ c.producer \in Nodes /\ c.consumers \in SUBSET Nodes
BY NetworkAssumption DEF ContractType

\* The time of a frame on the bus is a number.
LEMMA FrameTimingIsNatural ==
    ASSUME NEW c \in Contracts
    PROVE  FrameTiming(c) \in Nat
<1> DEFINE nominal == IF ~c.fd THEN (IF c.extended THEN 67 ELSE 47) + 8 * c.dlc
                      ELSE IF c.extended THEN 52 ELSE 32
           data == IF ~c.fd THEN 0 ELSE 8 * c.dlc + IF c.dlc <= 16 THEN 17 ELSE 21
           rate == IF c.brs THEN DataBitrate ELSE Bitrate
<1>1. nominal \in Nat /\ data \in Nat /\ rate \in Nat \ {0}
  BY ContractTyped, RatesAreNatural
<1>2. FrameTiming(c) = BitTime(nominal, Bitrate) + BitTime(data, rate)
  BY DEF FrameTiming
<1>3. BitTime(nominal, Bitrate) \in Nat /\ BitTime(data, rate) \in Nat
  <2> HIDE DEF nominal, data, rate
  <2> QED
    BY <1>1, RatesAreNatural, BitTimeIsNatural
<1> HIDE DEF nominal, data, rate
<1> QED
  BY <1>2, <1>3

-----------------------------------------------------------------------------
(* Arbitration                                                               *)

\* What can contend: each contract once, with the time its frame is ready.
Contending(P) ==
    /\ IsFiniteSet(P)
    /\ \A w \in P : w.contract \in Contracts /\ w.ready \in Nat
    /\ \A w, v \in P : w.contract = v.contract => w = v

\* Two contracts of a network never compare equal, and the order is one.
LEMMA PrecedesIsOrder ==
    ASSUME NEW c \in Contracts, NEW d \in Contracts, NEW e \in Contracts
    PROVE  /\ c # d => Precedes(c, d) \/ Precedes(d, c)
           /\ ~(Precedes(c, d) /\ Precedes(d, c))
           /\ Precedes(c, d) /\ Precedes(d, e) => Precedes(c, e)
<1>1. c # d => <<c.extended, c.frame_id>> # <<d.extended, d.frame_id>>
  BY NetworkAssumption DEF ValidTopology
<1>2. /\ c.frame_id \in Nat /\ d.frame_id \in Nat /\ e.frame_id \in Nat
      /\ c.extended \in BOOLEAN /\ d.extended \in BOOLEAN /\ e.extended \in BOOLEAN
  BY ContractTyped
<1> QED
  BY ONLY <1>1, <1>2 DEF Precedes

\* Among frames that are ready there is one that wins.
LEMMA WinnerExists ==
    ASSUME NEW P, Contending(P), P # {}
    PROVE  /\ Winner(P) \in P
           /\ \A v \in P : v = Winner(P) \/ Precedes(Winner(P).contract, v.contract)
<1> DEFINE Wins(w, T) == \A v \in T : v = w \/ Precedes(w.contract, v.contract)
           C == {T \in SUBSET P : T # {} /\ ~ \E w \in T : Wins(w, T)}
<1>1. C = {}
  <2> SUFFICES ASSUME C # {} PROVE FALSE
    OBVIOUS
  <2>1. PICK T \in C : \A U \in C : U \subseteq T => U = T
    <3>1. C \in SUBSET SUBSET P /\ IsFiniteSet(P)
      BY DEF Contending
    <3> HIDE DEF C
    <3> QED
      BY ONLY <3>1, C # {}, MinimalSubset
  <2>2. PICK x \in T : TRUE
    BY <2>1
  <2>3. T \ {x} \notin C /\ T \subseteq P
    BY <2>1, <2>2
  <2>4. CASE T = {x}
    BY <2>1, <2>4
  <2>5. CASE T # {x}
    <3>1. PICK y \in T \ {x} : Wins(y, T \ {x})
      BY <2>2, <2>3, <2>5
    <3>2. /\ x \in P /\ y \in P /\ x # y
          /\ x.contract \in Contracts /\ y.contract \in Contracts /\ x.contract # y.contract
      BY <2>2, <2>3, <3>1 DEF Contending
    <3>3. CASE Precedes(y.contract, x.contract)
      BY <2>1, <3>1, <3>3
    <3>4. CASE Precedes(x.contract, y.contract)
      <4>1. ASSUME NEW v \in T, v # x PROVE Precedes(x.contract, v.contract)
        <5>1. v.contract \in Contracts /\ (v = y \/ Precedes(y.contract, v.contract))
          BY <2>3, <3>1, <4>1 DEF Contending
        <5> QED
          BY <3>2, <3>4, <5>1, PrecedesIsOrder
      <4> QED
        BY <2>1, <2>2, <4>1
    <3> QED
      BY <3>2, <3>3, <3>4, PrecedesIsOrder
  <2> QED
    BY <2>4, <2>5
<1>2. \E w \in P : Wins(w, P)
  BY <1>1
<1> QED
  BY <1>2 DEF Winner

\* A frame on the bus, and when the bus was free for it.
BusRow == [contract : Contracts, ready : Nat, start : Nat, end : Nat, sequence : Int]
FreeAt(f, first, i) == IF i = 1 THEN first ELSE f[i - 1].end

\* A frame waits for one that was served no later than it could be, and does
\* not precede it if both were ready.
WaitsFor(w, f, first, i) ==
    /\ w.ready >= f[i].start \/ f[i].start = FreeAt(f, first, i)
    /\ ~(w.ready <= f[i].start /\ Precedes(w.contract, f[i].contract))

ServedInOrder(f, first) ==
    \A i \in 1..Len(f) :
       /\ f[i].start >= FreeAt(f, first, i) /\ f[i].start >= f[i].ready /\ f[i].start <= f[i].end
       /\ f[i].ready >= f[i].start \/ f[i].start = FreeAt(f, first, i)
       /\ \A j \in i + 1..Len(f) : WaitsFor(f[j], f, first, i)

\* The bus after k frames of those that contended when it was free first.
BusInv(P, first, k, b) ==
    /\ b.clock \in Nat /\ first <= b.clock
    /\ b.frames \in Seq(BusRow) /\ Len(b.frames) = k
    /\ b.pending \subseteq P /\ Cardinality(b.pending) = Cardinality(P) - k
    /\ b.clock = FreeAt(b.frames, first, k + 1)
    /\ \A i \in 1..k : /\ b.frames[i].sequence = SequenceOf(i)
                       /\ \E w \in P : w.contract = b.frames[i].contract
    /\ ServedInOrder(b.frames, first)
    /\ \A i \in 1..k : \A w \in b.pending : WaitsFor(w, b.frames, first, i)

\* One round of _arbitrate keeps to the order.
LEMMA SendKeeps ==
    ASSUME NEW P, Contending(P), NEW first \in Nat, network.next \in Nat,
           NEW k \in Nat, k < Cardinality(P), NEW b, BusInv(P, first, k, b)
    PROVE  BusInv(P, first, k + 1, Send(b, k + 1))
<1> DEFINE readies == {w.ready : w \in b.pending}
           clock == Max({b.clock, Min(readies)})
           ready == {w \in b.pending : w.ready <= clock}
           winner == Winner(ready)
           end == clock + FrameTiming(winner.contract)
           row == [contract |-> winner.contract, ready |-> winner.ready,
                   start |-> clock, end |-> end, sequence |-> SequenceOf(k + 1)]
           f == b.frames
           g == Append(f, row)
           n == Send(b, k + 1)
<1>1. /\ b.clock \in Nat /\ first <= b.clock /\ f \in Seq(BusRow) /\ Len(f) = k
      /\ b.pending \subseteq P /\ Cardinality(b.pending) = Cardinality(P) - k
      /\ b.clock = FreeAt(f, first, k + 1)
      /\ \A i \in 1..k : f[i].sequence = SequenceOf(i) /\ \E w \in P : w.contract = f[i].contract
      /\ ServedInOrder(f, first)
      /\ \A i \in 1..k : \A w \in b.pending : WaitsFor(w, f, first, i)
  BY DEF BusInv
<1>2. /\ n.clock = end /\ n.pending = b.pending \ {winner} /\ n.frames = g
  BY DEF Send
<1>3. /\ IsFiniteSet(b.pending) /\ b.pending # {}
      /\ \A w \in b.pending : w.contract \in Contracts /\ w.ready \in Nat
  <2>1. IsFiniteSet(b.pending) /\ Cardinality(P) \in Nat
    BY <1>1, FS_Subset, FS_CardinalityType DEF Contending
  <2>2. Cardinality(b.pending) # 0
    BY <1>1, <2>1
  <2> QED
    BY <1>1, <2>1, <2>2, FS_EmptySet DEF Contending
<1>4. /\ Min(readies) \in readies /\ \A w \in b.pending : Min(readies) <= w.ready
      /\ Min(readies) \in Nat
  <2>1. readies \in SUBSET Nat /\ readies # {}
    BY <1>3
  <2>2. \A w \in b.pending : w.ready \in readies
    OBVIOUS
  <2> HIDE DEF readies
  <2> QED
    BY <2>1, <2>2, MinOfNaturals
<1>5. /\ clock \in Nat /\ b.clock <= clock /\ Min(readies) <= clock
      /\ clock = b.clock \/ (clock = Min(readies) /\ b.clock < clock)
  <2> HIDE DEF readies
  <2>1. clock = IF b.clock >= Min(readies) THEN b.clock ELSE Min(readies)
    BY <1>1, <1>4, MaxOfTwo
  <2> HIDE DEF clock
  <2> QED
    BY <1>1, <1>4, <2>1
<1>6. /\ winner \in ready
      /\ \A v \in ready : v = winner \/ Precedes(winner.contract, v.contract)
  <2>1. ready # {}
    BY <1>4, <1>5
  <2>2. Contending(ready)
    <3>1. IsFiniteSet(ready)
      BY <1>3, FS_Subset
    <3> QED
      BY <1>1, <3>1 DEF Contending
  <2> HIDE DEF ready
  <2> QED
    BY <2>1, <2>2, WinnerExists
<1>7. /\ winner \in b.pending /\ winner \in P /\ winner.ready <= clock
      /\ winner.contract \in Contracts /\ winner.ready \in Nat
  BY <1>1, <1>3, <1>6
<1>8. end \in Nat /\ clock <= end
  <2>1. FrameTiming(winner.contract) \in Nat
    BY <1>7, FrameTimingIsNatural
  <2> HIDE DEF clock, winner
  <2> QED
    BY <1>5, <2>1
<1>9. row \in BusRow
  BY <1>5, <1>7, <1>8 DEF BusRow, SequenceOf
<1> HIDE DEF readies, ready, winner, clock, end
<1>10. /\ g \in Seq(BusRow) /\ Len(g) = k + 1 /\ g[k + 1] = row
       /\ \A i \in 1..k : g[i] = f[i]
  <2> HIDE DEF row, f
  <2> QED
    BY <1>1, <1>9, AppendProperties
<1> HIDE DEF g, n
<1>11. /\ \A i \in 1..k + 1 : FreeAt(g, first, i) = FreeAt(f, first, i)
       /\ FreeAt(g, first, k + 2) = end
  <2>1. ASSUME NEW i \in 1..k + 1 PROVE FreeAt(g, first, i) = FreeAt(f, first, i)
    <3>1. i = 1 \/ i - 1 \in 1..k
      OBVIOUS
    <3> HIDE DEF row, f
    <3> QED
      BY <1>10, <3>1 DEF FreeAt
  <2>2. k + 2 # 1 /\ (k + 2) - 1 = k + 1
    OBVIOUS
  <2>3. FreeAt(g, first, k + 2) = row.end
    BY <1>10, <2>2 DEF FreeAt
  <2> QED
    BY <2>1, <2>3
<1>12. \A i \in 1..k : \A w : WaitsFor(w, g, first, i) <=> WaitsFor(w, f, first, i)
  <2> SUFFICES ASSUME NEW i \in 1..k, NEW w
               PROVE  WaitsFor(w, g, first, i) <=> WaitsFor(w, f, first, i)
    OBVIOUS
  <2>1. g[i] = f[i] /\ FreeAt(g, first, i) = FreeAt(f, first, i)
    BY <1>10, <1>11
  <2> HIDE DEF f
  <2> QED
    BY ONLY <2>1 DEF WaitsFor
<1>13. \A w \in b.pending \ {winner} : WaitsFor(w, g, first, k + 1)
  <2> SUFFICES ASSUME NEW w \in b.pending, w # winner
               PROVE  WaitsFor(w, g, first, k + 1)
    OBVIOUS
  <2>1. w.ready >= clock \/ clock = b.clock
    BY <1>1, <1>3, <1>4, <1>5
  <2>2. ~(w.ready <= clock /\ Precedes(w.contract, winner.contract))
    <3>1. w.ready <= clock => Precedes(winner.contract, w.contract)
      BY <1>6 DEF ready
    <3>2. w.contract \in Contracts /\ winner.contract \in Contracts
      BY <1>3, <1>7
    <3> QED
      BY <3>1, <3>2, PrecedesIsOrder
  <2>3. /\ g[k + 1].start = clock /\ g[k + 1].contract = winner.contract
        /\ FreeAt(g, first, k + 1) = b.clock
    BY <1>1, <1>10, <1>11
  <2> QED
    BY <2>1, <2>2, <2>3 DEF WaitsFor
<1>14. ServedInOrder(g, first)
  <2> SUFFICES ASSUME NEW i \in 1..k + 1
               PROVE  /\ g[i].start >= FreeAt(g, first, i) /\ g[i].start >= g[i].ready
                      /\ g[i].start <= g[i].end
                      /\ g[i].ready >= g[i].start \/ g[i].start = FreeAt(g, first, i)
                      /\ \A j \in i + 1..k + 1 : WaitsFor(g[j], g, first, i)
    BY <1>10 DEF ServedInOrder
  <2>1. CASE i = k + 1
    <3>1. /\ g[i].start = clock /\ g[i].ready = winner.ready /\ g[i].end = end
          /\ FreeAt(g, first, i) = b.clock
      BY <1>1, <1>10, <1>11, <2>1
    <3>2. winner.ready >= clock \/ clock = b.clock
      BY <1>1, <1>4, <1>5, <1>7
    <3>3. i + 1..k + 1 = {}
      BY <2>1
    <3> QED
      BY ONLY <1>5, <1>7, <1>8, <3>1, <3>2, <3>3
  <2>2. CASE i # k + 1
    <3>1. i \in 1..k
      BY <2>2
    <3>2. g[i] = f[i] /\ FreeAt(g, first, i) = FreeAt(f, first, i)
      BY <1>10, <1>11, <3>1
    <3>3. /\ f[i].start >= FreeAt(f, first, i) /\ f[i].start >= f[i].ready
          /\ f[i].start <= f[i].end
          /\ f[i].ready >= f[i].start \/ f[i].start = FreeAt(f, first, i)
          /\ \A j \in i + 1..k : WaitsFor(f[j], f, first, i)
      BY <1>1, <3>1 DEF ServedInOrder
    <3>4. ASSUME NEW j \in i + 1..k + 1 PROVE WaitsFor(g[j], g, first, i)
      <4>1. CASE j = k + 1
        <5>1. WaitsFor(winner, f, first, i)
          BY <1>1, <1>7, <3>1
        <5>2. g[j].ready = winner.ready /\ g[j].contract = winner.contract
          BY <1>10, <4>1
        <5>3. WaitsFor(g[j], f, first, i)
          BY ONLY <5>1, <5>2 DEF WaitsFor
        <5> QED
          BY <1>12, <3>1, <5>3
      <4>2. CASE j # k + 1
        <5>1. j \in i + 1..k /\ j \in 1..k
          BY <3>1, <4>2
        <5>2. g[j] = f[j]
          BY <1>10, <5>1
        <5> QED
          BY <1>12, <3>1, <3>3, <5>1, <5>2
      <4> QED
        BY <4>1, <4>2
    <3> QED
      BY <3>2, <3>3, <3>4
  <2> QED
    BY <2>1, <2>2
<1>15. Cardinality(b.pending \ {winner}) = Cardinality(P) - (k + 1)
  <2>1. Cardinality(b.pending \ {winner}) = Cardinality(b.pending) - 1 /\ Cardinality(P) \in Nat
    BY <1>3, <1>7, FS_RemoveElement, FS_CardinalityType DEF Contending
  <2> QED
    BY <1>1, <2>1
<1>16. \A i \in 1..k + 1 : g[i].sequence = SequenceOf(i) /\ \E w \in P : w.contract = g[i].contract
  <2> TAKE i \in 1..k + 1
  <2>1. CASE i = k + 1
    BY <1>7, <1>10, <2>1
  <2>2. CASE i # k + 1
    <3>1. i \in 1..k
      BY <2>2
    <3> QED
      BY <1>1, <1>10, <3>1
  <2> QED
    BY <2>1, <2>2
<1>17. \A i \in 1..k + 1 : \A w \in b.pending \ {winner} : WaitsFor(w, g, first, i)
  <2> TAKE i \in 1..k + 1
  <2>1. CASE i = k + 1
    BY <1>13, <2>1
  <2>2. CASE i # k + 1
    <3>1. i \in 1..k
      BY <2>2
    <3> QED
      BY <1>1, <1>12, <3>1
  <2> QED
    BY <2>1, <2>2
<1>18. (k + 1) + 1 = k + 2 /\ first <= end
  BY <1>1, <1>5, <1>8
<1>19. BusInv(P, first, k + 1, n)
  BY ONLY <1>1, <1>2, <1>8, <1>10, <1>11, <1>14, <1>15, <1>16, <1>17, <1>18 DEF BusInv
<1> QED
  BY <1>19 DEF n

\* The bus before an arbitration, and what Arbitrated recurses with.
FreeBus(c) == [clock |-> network.time, pending |-> ToSet(c), frames |-> <<>>]
BusRuns(c, n, g) == g = [r \in 0..n |-> IF r = 0 THEN FreeBus(c) ELSE Send(g[r - 1], r)]

\* There is a function of the rounds, whatever the contenders.
LEMMA BusExists ==
    ASSUME NEW c, NEW n \in Nat
    PROVE  \E g : BusRuns(c, n, g)
<1> DEFINE C == {m \in Nat : ~ \E g : BusRuns(c, m, g)}
<1>1. SUFFICES ASSUME C # {} PROVE FALSE
  BY <1>1
<1>2. PICK m \in C : \A k \in C : m <= k
  <2>1. C \in SUBSET Nat
    OBVIOUS
  <2> HIDE DEF C
  <2> QED
    BY ONLY <1>1, <2>1, LeastNatural
<1>3. CASE m = 0
  <2> DEFINE g == [r \in 0..0 |-> FreeBus(c)]
  <2>1. g = [r \in 0..0 |-> IF r = 0 THEN FreeBus(c) ELSE Send(g[r - 1], r)]
    <3> HIDE DEF FreeBus, Send
    <3> QED
      OBVIOUS
  <2>2. BusRuns(c, 0, g)
    BY ONLY <2>1 DEF BusRuns
  <2> QED
    BY <1>2, <1>3, <2>2
<1>4. CASE m # 0
  <2>1. m \in Nat /\ m - 1 \in Nat /\ m - 1 \notin C
    BY <1>2, <1>4
  <2>2. PICK g : BusRuns(c, m - 1, g)
    BY <2>1
  <2> DEFINE h == [r \in 0..m |-> IF r = m THEN Send(g[m - 1], m) ELSE g[r]]
  <2>3. ASSUME NEW r \in 0..m
        PROVE  h[r] = IF r = 0 THEN FreeBus(c) ELSE Send(h[r - 1], r)
    <3>1. CASE r = m
      <4>1. h[m - 1] = g[m - 1] /\ h[m] = Send(g[m - 1], m)
        BY <2>1
      <4> HIDE DEF h
      <4> QED
        BY ONLY <1>4, <3>1, <4>1
    <3>2. CASE r # m
      <4>1. r \in 0..m - 1 /\ h[r] = g[r] /\ (r # 0 => h[r - 1] = g[r - 1])
        BY <2>1, <3>2
      <4>2. g[r] = IF r = 0 THEN FreeBus(c) ELSE Send(g[r - 1], r)
        BY ONLY <2>2, <4>1 DEF BusRuns
      <4> HIDE DEF h
      <4> QED
        BY ONLY <4>1, <4>2
    <3> QED
      BY <3>1, <3>2
  <2>4. BusRuns(c, m, h)
    <3>1. h = [r \in 0..m |-> h[r]]
      OBVIOUS
    <3> HIDE DEF h
    <3>2. h = [r \in 0..m |-> IF r = 0 THEN FreeBus(c) ELSE Send(h[r - 1], r)]
      BY ONLY <2>3, <3>1
    <3> QED
      BY ONLY <3>2 DEF BusRuns
  <2> QED
    BY <1>2, <2>1, <2>4
<1> QED
  BY <1>3, <1>4

\* The rounds of one arbitration.
LEMMA ArbitratedRuns ==
    ASSUME NEW c, Len(c) \in Nat
    PROVE  \E g : BusRuns(c, Len(c), g) /\ Arbitrated(c) = g[Len(c)]
<1> DEFINE g == CHOOSE g : BusRuns(c, Len(c), g)
<1>1. BusRuns(c, Len(c), g)
  BY BusExists
<1>2. Arbitrated(c) = g[Len(c)]
  BY ONLY DEF Arbitrated, BusRuns, FreeBus
<1> QED
  BY <1>1, <1>2

\* An order of contenders, each with a time at which its frame is ready.
LEMMA ContendersTyped ==
    ASSUME network.time \in Nat, NEW S \in SUBSET Contracts, S # {},
           NEW offset \in [S -> Nat], NEW order \in SetToSeqs(S)
    PROVE  LET c == ResolveContenders(order, offset)
               n == Cardinality(S)
           IN  /\ n \in Nat \ {0} /\ DOMAIN c = 1..n /\ Len(c) = n
               /\ \A i \in 1..n : /\ c[i].contract = order[i] /\ order[i] \in S
                                  /\ c[i].payload = c[i].contract.id
                                  /\ c[i].ready \in Nat /\ c[i].ready >= network.time
               /\ Contending(ToSet(c)) /\ Cardinality(ToSet(c)) = n
<1> DEFINE c == ResolveContenders(order, offset)
           n == Cardinality(S)
<1>1. IsFiniteSet(S) /\ n \in Nat \ {0}
  BY NetworkAssumption, FS_Subset, FS_CardinalityType, FS_EmptySet
<1>2. /\ order \in [1..n -> S]
      /\ \A i, j \in 1..n : i # j => order[i] # order[j]
  BY DEF SetToSeqs
<1>3. c = [i \in 1..n |-> [contract |-> order[i], payload |-> order[i].id,
                           ready |-> network.time + offset[order[i]]]]
  BY <1>2 DEF ResolveContenders
<1> HIDE DEF c, n
<1>4. DOMAIN c = 1..n /\ Len(c) = n
  <2> DEFINE T == {c[i] : i \in 1..n}
  <2>1. c \in Seq(T)
    <3>1. c \in [1..n -> T]
      BY <1>3
    <3> HIDE DEF T
    <3> QED
      BY ONLY <1>1, <3>1, SeqDef
  <2>2. DOMAIN c = 1..n
    BY <1>3
  <2> QED
    BY <1>1, <2>1, <2>2, LenProperties
<1>5. \A i \in 1..n : /\ c[i].contract = order[i] /\ order[i] \in S
                      /\ c[i].payload = c[i].contract.id
                      /\ c[i].ready \in Nat /\ c[i].ready >= network.time
  BY <1>2, <1>3
<1>6. \A i, j \in 1..n : c[i] = c[j] => i = j
  BY <1>2, <1>5
<1>7. ToSet(c) = {c[i] : i \in 1..n}
  BY <1>4 DEF ToSet
<1>8. IsFiniteSet(1..n) /\ Cardinality(1..n) = n
  <2>1. 1 \in Int /\ n \in Int /\ ~(1 > n) /\ n - 1 + 1 = n
    BY <1>1
  <2> QED
    BY ONLY <2>1, FS_Interval
<1>9. IsFiniteSet(ToSet(c)) /\ Cardinality(ToSet(c)) = n
  <2> DEFINE I == 1..n
  <2>1. IsFiniteSet(I) /\ Cardinality(I) = n /\ \A i, j \in I : c[i] = c[j] => i = j
    BY <1>6, <1>8
  <2> HIDE DEF I
  <2>2. IsFiniteSet({c[i] : i \in I}) /\ Cardinality({c[i] : i \in I}) = Cardinality(I)
    BY ONLY <2>1, ImageOfInjection
  <2> QED
    BY <1>7, <2>1, <2>2 DEF I
<1>10. Contending(ToSet(c))
  <2>1. \A w \in ToSet(c) : w.contract \in Contracts /\ w.ready \in Nat
    BY <1>5, <1>7
  <2>2. ASSUME NEW w \in ToSet(c), NEW v \in ToSet(c), w.contract = v.contract PROVE w = v
    <3>1. PICK i \in 1..n : w = c[i]
      BY <1>7
    <3>2. PICK j \in 1..n : v = c[j]
      BY <1>7
    <3>3. i = j
      BY <1>2, <1>5, <2>2, <3>1, <3>2
    <3> QED
      BY <3>1, <3>2, <3>3
  <2> QED
    BY <1>9, <2>1, <2>2 DEF Contending
<1> QED
  BY <1>1, <1>4, <1>5, <1>9, <1>10 DEF c, n

\* What an arbitration leaves: every contender has had the bus.
LEMMA ArbitrationServes ==
    ASSUME NEW c, NEW n \in Nat \ {0}, Len(c) = n, Contending(ToSet(c)),
           Cardinality(ToSet(c)) = n, network.time \in Nat, network.next \in Nat
    PROVE  BusInv(ToSet(c), network.time, n, Arbitrated(c))
<1> DEFINE P == ToSet(c)
           first == network.time
<1>1. PICK g : BusRuns(c, n, g) /\ Arbitrated(c) = g[n]
  BY ArbitratedRuns
<1>2. /\ g[0] = FreeBus(c)
      /\ \A k \in Nat : k < n => g[k + 1] = Send(g[k], k + 1)
  <2>1. g[0] = FreeBus(c)
    BY ONLY <1>1, 0 \in 0..n DEF BusRuns
  <2>2. ASSUME NEW k \in Nat, k < n PROVE g[k + 1] = Send(g[k], k + 1)
    <3>1. k + 1 \in 0..n /\ k + 1 # 0 /\ (k + 1) - 1 = k
      BY <2>2
    <3>2. g[k + 1] = Send(g[(k + 1) - 1], k + 1)
      BY ONLY <1>1, <3>1 DEF BusRuns
    <3> QED
      BY ONLY <3>1, <3>2
  <2> QED
    BY <2>1, <2>2
<1>3. BusInv(P, first, 0, g[0])
  <2>1. <<>> \in Seq(BusRow) /\ Len(<<>>) = 0
    OBVIOUS
  <2>2. g[0].clock = first /\ g[0].pending = P /\ g[0].frames = <<>>
    BY <1>2 DEF FreeBus
  <2>3. FreeAt(<<>>, first, 0 + 1) = first
    BY DEF FreeAt
  <2>4. ServedInOrder(<<>>, first)
    BY <2>1 DEF ServedInOrder
  <2>5. 1..0 = {} /\ n - 0 = n
    OBVIOUS
  <2> QED
    BY <2>1, <2>2, <2>3, <2>4, <2>5 DEF BusInv
<1> DEFINE C == {k \in 0..n : ~BusInv(P, first, k, g[k])}
<1>4. C = {}
  <2> SUFFICES ASSUME C # {} PROVE FALSE
    OBVIOUS
  <2>1. PICK m \in C : \A k \in C : m <= k
    <3>1. C \in SUBSET Nat
      OBVIOUS
    <3> HIDE DEF C
    <3> QED
      BY ONLY <3>1, C # {}, LeastNatural
  <2>2. m # 0 /\ m \in 0..n
    BY <1>3, <2>1
  <2>3. m - 1 \in Nat /\ m - 1 < n /\ m - 1 \notin C /\ m - 1 \in 0..n /\ (m - 1) + 1 = m
    BY <2>1, <2>2
  <2>4. BusInv(P, first, m - 1, g[m - 1])
    BY <2>3
  <2>5. g[m] = Send(g[m - 1], m)
    BY <1>2, <2>3
  <2>6. BusInv(P, first, (m - 1) + 1, Send(g[m - 1], (m - 1) + 1))
    <3> HIDE DEF P, first
    <3>1. Contending(P) /\ first \in Nat /\ Cardinality(P) = n
      BY DEF P, first
    <3> QED
      BY <2>3, <2>4, <3>1, SendKeeps
  <2> QED
    BY <2>1, <2>3, <2>5, <2>6
<1>5. n \in 0..n
  OBVIOUS
<1> QED
  BY <1>1, <1>4, <1>5

-----------------------------------------------------------------------------
(* Routes and campaigns                                                      *)

\* The ranges of the error counters, by names: a prover lists an interval.
Tecs == 0..256
Recs == 0..255
\* What belongs to them.
LEMMA CounterRanges ==
    ASSUME NEW x
    PROVE  (x \in Tecs <=> x \in Nat /\ x <= 256) /\ (x \in Recs <=> x \in Nat /\ x <= 255)
BY DEF Tecs, Recs

\* The row of the network, with routes whose destinations are declared.
NetworkRow ==
    [version : Nat \ {0}, time : Nat, next : Nat \ {0},
     routes : SUBSET UNION {g.routes : g \in Configurations},
     lin : SUBSET BusFrame, ethernet : SUBSET BusFrame,
     errors : [Nodes -> [tec : Tecs, rec : Recs]]]
DestinationsDeclared ==
    \A r \in network.routes :
       r.destination[1] \in Protocols /\ Named(network, r.destination) # {}

\* A route takes a number of microseconds on its destination bus.
LEMMA RouteDurationIsNatural ==
    ASSUME network \in NetworkRow, DestinationsDeclared, NEW r \in network.routes
    PROVE  RouteDuration(r) \in Nat
<1> DEFINE name == r.destination
           c == CHOOSE c \in Contracts : c.id = name[2]
           d == CHOOSE x \in Named(network, name) : TRUE
<1>1. name[1] \in Protocols /\ Named(network, name) # {}
  BY DEF DestinationsDeclared
<1>2. network.lin \subseteq BusFrame /\ network.ethernet \subseteq BusFrame
  BY DEF NetworkRow
<1>3. CASE name[1] = "can"
  <2>1. PICK x \in CanContracts : x.id = name[2]
    BY <1>1, <1>3 DEF Named, Declared
  <2>2. c \in Contracts
    BY <2>1 DEF CanContracts
  <2>3. RouteDuration(r) = FrameTiming(c)
    BY <1>3 DEF RouteDuration
  <2> QED
    BY <2>2, <2>3, FrameTimingIsNatural
<1>4. CASE name[1] # "can"
  <2>1. d \in Named(network, name)
    BY <1>1
  <2>2. name[1] = "lin" \/ name[1] = "ethernet"
    BY <1>1, <1>4 DEF Protocols
  <2>3. d \in BusFrame
    BY <1>2, <2>1, <2>2 DEF Named, Declared
  <2> HIDE DEF d
  <2>4. d.length \in Nat /\ d.rate \in Nat \ {0} /\ 43 + 10 * d.length \in Nat
        /\ (38 + d.length) * 8 \in Nat
    BY <2>3 DEF BusFrame
  <2>5. BitTime(43 + 10 * d.length, d.rate) \in Nat /\ Ceil((38 + d.length) * 8, d.rate) \in Nat
    BY <2>4, BitTimeIsNatural, CeilIsNatural
  <2>6. RouteDuration(r) = IF name[1] = "lin" THEN BitTime(43 + 10 * d.length, d.rate)
                           ELSE Ceil((38 + d.length) * 8, d.rate)
    BY <1>4 DEF RouteDuration, d
  <2> QED
    BY <2>5, <2>6
<1> QED
  BY <1>3, <1>4

\* A row of the trace, and the rows whose message took a sequence.
TraceRow == [sequence : Nat \cup {None}, start : Nat, end : Nat,
             outcome : {"failed", "performance_violation", "delivered"}]
SentIn(f) == {i \in DOMAIN f : f[i].sequence # None}

\* A campaign after k steps: its rows follow each other, and those that were
\* sent took the sequences from the network's next one on.
TraceInv(k, b) ==
    /\ b.time \in Nat /\ b.next \in Nat /\ network.next <= b.next
    /\ b.trace \in Seq(TraceRow) /\ Len(b.trace) = k
    /\ b.time = IF k = 0 THEN network.time ELSE b.trace[k].end
    /\ {b.trace[i].sequence : i \in SentIn(b.trace)} = network.next..b.next - 1
    /\ \A i \in 1..k : /\ network.time <= b.trace[i].start
                       /\ b.trace[i].start <= b.trace[i].end /\ b.trace[i].end <= b.time
                       /\ b.trace[i].outcome = "delivered" =>
                            b.trace[i].sequence # None /\ b.trace[i].end - b.trace[i].start <= Budget
    /\ \A i, j \in 1..k : i < j => b.trace[i].end <= b.trace[j].end
    /\ \A i, j \in SentIn(b.trace) : i < j => b.trace[i].sequence < b.trace[j].sequence

\* One step of a campaign keeps the trace in order.
LEMMA TraceStepKeeps ==
    ASSUME network \in NetworkRow, DestinationsDeclared, workload.advances \subseteq Nat,
           NEW k \in Nat, NEW b, TraceInv(k, b), NEW s \in CampaignStep
    PROVE  TraceInv(k + 1, TraceStep(b, s))
<1> DEFINE sent == s.fault # "gateway_unavailable"
           start == b.time + s.advance
           duration == IF sent THEN RouteDuration(s.route) ELSE 0
           end == start + duration
           sequence == IF sent THEN b.next ELSE None
           outcome == IF s.fault # "none" THEN "failed"
                      ELSE IF duration > Budget THEN "performance_violation"
                      ELSE "delivered"
           row == [sequence |-> sequence, start |-> start, end |-> end, outcome |-> outcome]
           f == b.trace
           g == Append(f, row)
           n == TraceStep(b, s)
           next == b.next + IF sent THEN 1 ELSE 0
<1>1. /\ n.time = end /\ n.next = next /\ n.trace = g
  BY DEF TraceStep
<1>2. /\ b.time \in Nat /\ b.next \in Nat /\ network.next <= b.next
      /\ f \in Seq(TraceRow) /\ Len(f) = k /\ DOMAIN f = 1..k
      /\ b.time = IF k = 0 THEN network.time ELSE f[k].end
      /\ {f[i].sequence : i \in SentIn(f)} = network.next..b.next - 1
      /\ \A i \in 1..k : /\ network.time <= f[i].start
                         /\ f[i].start <= f[i].end /\ f[i].end <= b.time
                         /\ f[i].outcome = "delivered" =>
                              f[i].sequence # None /\ f[i].end - f[i].start <= Budget
      /\ \A i, j \in 1..k : i < j => f[i].end <= f[j].end
      /\ \A i, j \in SentIn(f) : i < j => f[i].sequence < f[j].sequence
  BY LenProperties DEF TraceInv
<1>3. network.time \in Nat /\ network.next \in Nat \ {0} /\ network.time <= b.time
  <2>1. network.time \in Nat /\ network.next \in Nat \ {0}
    BY DEF NetworkRow
  <2>2. k # 0 => k \in 1..k
    OBVIOUS
  <2>3. k # 0 => f[k].start <= f[k].end /\ f[k] \in TraceRow /\ network.time <= f[k].start
    <3> HIDE DEF f
    <3> QED
      BY ONLY <1>2, <2>2, ElementOfSeq
  <2>4. \A x \in TraceRow : x.start \in Nat /\ x.end \in Nat
    BY DEF TraceRow
  <2> HIDE DEF f
  <2> QED
    BY ONLY <1>2, <2>1, <2>3, <2>4
<1>4. start \in Nat /\ duration \in Nat /\ end \in Nat /\ b.time <= start /\ start <= end
  <2>1. s.advance \in Nat /\ s.route \in network.routes
    BY DEF CampaignStep
  <2>2. duration \in Nat
    BY <2>1, RouteDurationIsNatural
  <2>3. b.time \in Nat
    BY <1>2
  <2> HIDE DEF duration, sent
  <2> QED
    BY ONLY <2>1, <2>2, <2>3
<1>5. /\ row \in TraceRow
      /\ sequence # None => sequence = b.next /\ next = b.next + 1
      /\ sequence = None => next = b.next
      /\ outcome = "delivered" => sequence # None /\ duration <= Budget
  <2>1. None \notin Nat /\ Budget \in Nat
    BY NetworkAssumption
  <2>2. sent => sequence = b.next /\ sequence # None
    BY <1>2, <2>1
  <2>3. ~sent => s.fault # "none" /\ sequence = None
    OBVIOUS
  <2>4. outcome = "delivered" => s.fault = "none" /\ ~(duration > Budget)
    <3> HIDE DEF duration
    <3> QED
      OBVIOUS
  <2>5. sequence \in Nat \cup {None}
    BY <1>2, <2>2, <2>3
  <2>6. row \in TraceRow
    <3>1. outcome \in {"failed", "performance_violation", "delivered"}
      OBVIOUS
    <3> HIDE DEF outcome, sequence, start, end
    <3> QED
      BY <1>4, <2>5, <3>1 DEF TraceRow
  <2>7. /\ sent => next = b.next + 1
        /\ ~sent => next = b.next
    BY <1>2
  <2> HIDE DEF outcome, sequence, start, end, duration, row, next
  <2> QED
    BY <1>4, <2>1, <2>2, <2>3, <2>4, <2>6, <2>7
<1>6. row.sequence = sequence /\ row.start = start /\ row.end = end /\ row.outcome = outcome
  OBVIOUS
<1>7. next \in Nat
  BY <1>2
<1> HIDE DEF sequence, outcome, start, duration, row, f, next
<1>8. /\ g \in Seq(TraceRow) /\ Len(g) = k + 1 /\ DOMAIN g = 1..k + 1 /\ g[k + 1] = row
      /\ \A i \in 1..k : g[i] = f[i]
  BY <1>2, <1>5, AppendProperties, LenProperties
<1> HIDE DEF g, n
<1>9. SentIn(g) = SentIn(f) \cup {i \in {k + 1} : sequence # None}
  <2>1. ASSUME NEW i PROVE i \in SentIn(g) <=> i \in SentIn(f) \/ (i = k + 1 /\ sequence # None)
    <3>1. CASE i \in 1..k
      BY <1>2, <1>8, <3>1 DEF SentIn
    <3>2. CASE i = k + 1
      BY <1>2, <1>6, <1>8, <3>2 DEF SentIn
    <3>3. CASE i \notin 1..k + 1
      <4>1. i \notin DOMAIN f /\ i \notin DOMAIN g /\ i # k + 1
        BY <1>2, <1>8, <3>3
      <4> QED
        BY <4>1 DEF SentIn
    <3>4. i \in 1..k \/ i = k + 1 \/ i \notin 1..k + 1
      OBVIOUS
    <3> QED
      BY <3>1, <3>2, <3>3, <3>4
  <2> QED
    BY <2>1
<1>10. SentIn(f) \subseteq 1..k /\ \A i \in SentIn(f) : g[i].sequence = f[i].sequence
  BY <1>2, <1>8 DEF SentIn
<1>11. {g[i].sequence : i \in SentIn(g)} = network.next..next - 1
  <2>1. CASE sequence = None
    <3>1. SentIn(g) = SentIn(f) /\ next = b.next
      BY <1>5, <1>9, <2>1
    <3>2. {g[i].sequence : i \in SentIn(g)} = {f[i].sequence : i \in SentIn(f)}
      BY ONLY <1>10, <3>1
    <3> QED
      BY <1>2, <3>1, <3>2
  <2>2. CASE sequence # None
    <3>1. SentIn(g) = SentIn(f) \cup {k + 1} /\ sequence = b.next /\ next = b.next + 1
      BY <1>5, <1>9, <2>2
    <3>2. g[k + 1].sequence = b.next
      BY <1>6, <1>8, <3>1
    <3>3. {g[i].sequence : i \in SentIn(g)} = {f[i].sequence : i \in SentIn(f)} \cup {b.next}
      BY ONLY <1>10, <3>1, <3>2
    <3>4. network.next..next - 1 = (network.next..b.next - 1) \cup {b.next}
      BY ONLY <1>2, <1>3, <3>1
    <3> QED
      BY <1>2, <3>3, <3>4
  <2> QED
    BY <2>1, <2>2
<1>12. ASSUME NEW i \in 1..k + 1
       PROVE  /\ network.time <= g[i].start /\ g[i].start <= g[i].end /\ g[i].end <= end
              /\ g[i].outcome = "delivered" =>
                   g[i].sequence # None /\ g[i].end - g[i].start <= Budget
  <2>1. CASE i = k + 1
    <3>1. end - start = duration
      BY <1>4
    <3>2. network.time <= start
      BY <1>2, <1>3, <1>4
    <3> HIDE DEF end
    <3> QED
      BY <1>4, <1>5, <1>6, <1>8, <2>1, <3>1, <3>2
  <2>2. CASE i # k + 1
    <3>1. i \in 1..k /\ g[i] = f[i] /\ f[i] \in TraceRow
      BY <1>2, <1>8, <2>2, ElementOfSeq
    <3>2. f[i].end \in Nat /\ f[i].end <= b.time /\ b.time <= end
      BY <1>2, <1>4, <3>1 DEF TraceRow
    <3>3. f[i].end <= end
      BY ONLY <1>2, <1>4, <3>2
    <3> QED
      BY <1>2, <3>1, <3>3
  <2> QED
    BY <2>1, <2>2
<1>13. ASSUME NEW i \in 1..k + 1, NEW j \in 1..k + 1, i < j PROVE g[i].end <= g[j].end
  <2>1. i \in 1..k
    BY <1>13
  <2>2. CASE j = k + 1
    BY <1>6, <1>8, <1>12, <2>2
  <2>3. CASE j # k + 1
    <3>1. j \in 1..k
      BY <2>3
    <3> QED
      BY <1>2, <1>8, <1>13, <2>1, <3>1
  <2> QED
    BY <2>2, <2>3
<1>14. ASSUME NEW i \in SentIn(g), NEW j \in SentIn(g), i < j PROVE g[i].sequence < g[j].sequence
  <2>1. i \in 1..k + 1 /\ j \in 1..k + 1
    BY <1>8 DEF SentIn
  <2>2. i \in 1..k /\ i \in SentIn(f)
    <3>1. i \in 1..k /\ i # k + 1
      BY ONLY <1>14, <2>1, k \in Nat
    <3> QED
      BY <1>9, <3>1
  <2>3. CASE j = k + 1
    <3>1. sequence # None
      BY <1>6, <1>8, <2>3 DEF SentIn
    <3>2. g[j].sequence = b.next
      BY <1>5, <1>6, <1>8, <2>3, <3>1
    <3>3. f[i].sequence \in network.next..b.next - 1
      BY <1>2, <2>2
    <3> QED
      BY ONLY <1>2, <1>3, <1>10, <2>2, <3>2, <3>3
  <2>4. CASE j # k + 1
    <3>1. j \in SentIn(f)
      BY <1>9, <2>4
    <3> QED
      BY <1>2, <1>10, <1>14, <2>2, <3>1
  <2> QED
    BY <2>3, <2>4
<1>15. TraceInv(k + 1, n)
  <2>1. end = IF k + 1 = 0 THEN network.time ELSE g[k + 1].end
    <3>1. k + 1 # 0
      OBVIOUS
    <3> QED
      BY <1>6, <1>8, <3>1
  <2>2. network.next <= next
    BY ONLY <1>2, <1>3, <1>5, <1>7
  <2> HIDE DEF end
  <2> QED
    BY ONLY <1>1, <1>4, <1>7, <1>8, <1>11, <1>12, <1>13, <1>14, <2>1, <2>2 DEF TraceInv
<1> QED
  BY <1>15 DEF n

\* The campaign before its first step, and what CampaignTrace recurses with.
FreeTrace == [time |-> network.time, next |-> network.next, trace |-> <<>>]
TraceRuns(steps, n, g) ==
    g = [i \in 0..n |-> IF i = 0 THEN FreeTrace ELSE TraceStep(g[i - 1], steps[i])]

\* There is a function of the steps, whatever they are.
LEMMA TraceExists ==
    ASSUME NEW steps, NEW n \in Nat
    PROVE  \E g : TraceRuns(steps, n, g)
<1> DEFINE C == {m \in Nat : ~ \E g : TraceRuns(steps, m, g)}
<1>1. SUFFICES ASSUME C # {} PROVE FALSE
  BY <1>1
<1>2. PICK m \in C : \A k \in C : m <= k
  <2>1. C \in SUBSET Nat
    OBVIOUS
  <2> HIDE DEF C
  <2> QED
    BY ONLY <1>1, <2>1, LeastNatural
<1>3. CASE m = 0
  <2> DEFINE g == [i \in 0..0 |-> FreeTrace]
  <2>1. g = [i \in 0..0 |-> IF i = 0 THEN FreeTrace ELSE TraceStep(g[i - 1], steps[i])]
    <3> HIDE DEF FreeTrace, TraceStep
    <3> QED
      OBVIOUS
  <2>2. TraceRuns(steps, 0, g)
    BY ONLY <2>1 DEF TraceRuns
  <2> QED
    BY <1>2, <1>3, <2>2
<1>4. CASE m # 0
  <2>1. m \in Nat /\ m - 1 \in Nat /\ m - 1 \notin C
    BY <1>2, <1>4
  <2>2. PICK g : TraceRuns(steps, m - 1, g)
    BY <2>1
  <2> DEFINE h == [i \in 0..m |-> IF i = m THEN TraceStep(g[m - 1], steps[m]) ELSE g[i]]
  <2>3. ASSUME NEW i \in 0..m
        PROVE  h[i] = IF i = 0 THEN FreeTrace ELSE TraceStep(h[i - 1], steps[i])
    <3>1. CASE i = m
      <4>1. h[m - 1] = g[m - 1] /\ h[m] = TraceStep(g[m - 1], steps[m])
        BY <2>1
      <4> HIDE DEF h
      <4> QED
        BY ONLY <1>4, <3>1, <4>1
    <3>2. CASE i # m
      <4>1. i \in 0..m - 1 /\ h[i] = g[i] /\ (i # 0 => h[i - 1] = g[i - 1])
        BY <2>1, <3>2
      <4>2. g[i] = IF i = 0 THEN FreeTrace ELSE TraceStep(g[i - 1], steps[i])
        BY ONLY <2>2, <4>1 DEF TraceRuns
      <4> HIDE DEF h
      <4> QED
        BY ONLY <4>1, <4>2
    <3> QED
      BY <3>1, <3>2
  <2>4. TraceRuns(steps, m, h)
    <3>1. h = [i \in 0..m |-> h[i]]
      OBVIOUS
    <3> HIDE DEF h
    <3>2. h = [i \in 0..m |-> IF i = 0 THEN FreeTrace ELSE TraceStep(h[i - 1], steps[i])]
      BY ONLY <2>3, <3>1
    <3> QED
      BY ONLY <3>2 DEF TraceRuns
  <2> QED
    BY <1>2, <2>1, <2>4
<1> QED
  BY <1>3, <1>4

\* The trace of a whole campaign.
LEMMA CampaignIsTraced ==
    ASSUME network \in NetworkRow, DestinationsDeclared, workload.advances \subseteq Nat,
           NEW n \in Nat, NEW steps \in [1..n -> CampaignStep]
    PROVE  TraceInv(n, CampaignTrace(steps))
<1>1. Len(steps) = n
  <2>1. steps \in Seq(CampaignStep)
    BY SeqDef
  <2>2. DOMAIN steps = 1..n
    OBVIOUS
  <2> QED
    BY ONLY <2>1, <2>2, LenProperties, n \in Nat
<1>2. PICK g : TraceRuns(steps, n, g) /\ CampaignTrace(steps) = g[n]
  <2> DEFINE g == CHOOSE g : TraceRuns(steps, Len(steps), g)
  <2>1. TraceRuns(steps, n, g)
    BY <1>1, TraceExists
  <2>2. CampaignTrace(steps) = g[Len(steps)]
    BY ONLY DEF CampaignTrace, TraceRuns, FreeTrace
  <2> QED
    BY <1>1, <2>1, <2>2
<1>3. /\ g[0] = FreeTrace
      /\ \A k \in Nat : k < n => g[k + 1] = TraceStep(g[k], steps[k + 1])
  <2>1. g[0] = FreeTrace
    BY ONLY <1>2, 0 \in 0..n DEF TraceRuns
  <2>2. ASSUME NEW k \in Nat, k < n PROVE g[k + 1] = TraceStep(g[k], steps[k + 1])
    <3>1. k + 1 \in 0..n /\ k + 1 # 0 /\ (k + 1) - 1 = k
      BY <2>2
    <3>2. g[k + 1] = TraceStep(g[(k + 1) - 1], steps[k + 1])
      BY ONLY <1>2, <3>1 DEF TraceRuns
    <3> QED
      BY ONLY <3>1, <3>2
  <2> QED
    BY <2>1, <2>2
<1>4. TraceInv(0, g[0])
  <2>1. <<>> \in Seq(TraceRow) /\ Len(<<>>) = 0 /\ DOMAIN <<>> = {}
    OBVIOUS
  <2>2. g[0].time = network.time /\ g[0].next = network.next /\ g[0].trace = <<>>
    BY <1>3 DEF FreeTrace
  <2>3. SentIn(<<>>) = {}
    BY <2>1 DEF SentIn
  <2>4. network.time \in Nat /\ network.next \in Nat
    BY DEF NetworkRow
  <2>5. 1..0 = {} /\ network.next..network.next - 1 = {}
    BY <2>4
  <2> QED
    BY ONLY <2>1, <2>2, <2>3, <2>4, <2>5 DEF TraceInv
<1> DEFINE C == {k \in 0..n : ~TraceInv(k, g[k])}
<1>5. C = {}
  <2> SUFFICES ASSUME C # {} PROVE FALSE
    OBVIOUS
  <2>1. PICK m \in C : \A k \in C : m <= k
    <3>1. C \in SUBSET Nat
      OBVIOUS
    <3> HIDE DEF C
    <3> QED
      BY ONLY <3>1, C # {}, LeastNatural
  <2>2. m # 0 /\ m \in 0..n
    BY <1>4, <2>1
  <2>3. m - 1 \in Nat /\ m - 1 < n /\ m - 1 \notin C /\ m - 1 \in 0..n /\ (m - 1) + 1 = m
    BY <2>1, <2>2
  <2>4. TraceInv(m - 1, g[m - 1])
    BY <2>3
  <2>5. g[m] = TraceStep(g[m - 1], steps[m]) /\ steps[m] \in CampaignStep
    BY <1>3, <2>2, <2>3
  <2>6. TraceInv((m - 1) + 1, TraceStep(g[m - 1], steps[m]))
    BY ONLY <2>3, <2>4, <2>5, TraceStepKeeps, network \in NetworkRow, DestinationsDeclared,
            workload.advances \subseteq Nat
  <2> QED
    BY <2>1, <2>3, <2>5, <2>6
<1>6. n \in 0..n
  OBVIOUS
<1> QED
  BY <1>2, <1>5, <1>6

-----------------------------------------------------------------------------
(* What the invariant says of each row                                       *)

\* A stored execution has what its service reports.
Recorded(e) ==
    /\ e.service \in {"fault", "gateway", "arbitrate", "campaign", "codec"}
    /\ e.service = "fault" => /\ e.result.node \in Nodes /\ e.result.count \in Nat
                              /\ e.result.elapsed \in Nat
    /\ e.service = "gateway" => e.result.elapsed \in Nat /\ IsFiniteSet(e.result.sequences)
    /\ e.service = "arbitrate" =>
         LET f == e.result.frames
         IN  /\ f \in Seq(BusRow) /\ Len(f) > 0 /\ e.result.start \in Nat
             /\ ServedInOrder(f, e.result.start)
    /\ e.service = "campaign" =>
         LET f == e.result.trace
         IN  /\ f \in Seq(TraceRow) /\ Len(f) > 0 /\ e.result.start \in Nat
             /\ e.result.status = "passed" => \A i \in DOMAIN f :
                  f[i].sequence # None /\ f[i].end - f[i].start <= Budget

\* A row of a frame that was sent.
Sent(t) ==
    /\ t.contract \in Contracts /\ t.advance \in Nat /\ t.payload = t.contract.id
    /\ t.sequence \in Nat /\ t.time \in Nat

RowsOK ==
    /\ workload \in Workloads /\ network \in NetworkRow /\ DestinationsDeclared
    /\ network.version <= workload.commands + 1
    /\ IsFiniteSet(executions) /\ \A e \in executions : Recorded(e)
    /\ IsFiniteSet(transmissions) /\ \A t \in transmissions : Sent(t)

\* A change of the network stores the executions E and the transmissions T,
\* or creates the catalogue.
Change(E, T) ==
    /\ network.version <= workload.commands /\ network'.version = network.version + 1
    /\ network' \in NetworkRow /\ DestinationsDeclared' /\ workload' = workload
    /\ executions' = executions \cup E /\ transmissions' = transmissions \cup T
    /\ \A e \in E : e.service # "codec" /\ e.version = network.version + 1 /\ Recorded(e)
    /\ \A t \in T : t.version = network.version + 1 /\ Sent(t)
    /\ \A t \in T : \A u \in transmissions \cup T : t.id = u.id => t = u
    /\ IsFiniteSet(E) /\ IsFiniteSet(T)
    /\ \/ /\ \E e : E = {e} /\ (T = {} \/ e.service = "arbitrate")
          /\ catalogue' = catalogue
       \/ /\ E = {} /\ \E t : T = {t}
          /\ catalogue' = catalogue
       \/ /\ E = {} /\ T = {}
          /\ catalogue = None /\ catalogue' # None /\ catalogue'.version = network.version + 1

\* Its sequences follow those before it, and so do the times at which it sent.
FramePairs(T) == {<<t.sequence, t.time>> : t \in T}
CampaignPairs(E) ==
    UNION {{<<e.result.trace[i].sequence, e.result.trace[i].end>> : i \in SentIn(e.result.trace)} :
             e \in {x \in E : x.service = "campaign"}}
Pairs(E, T) == FramePairs(T) \cup CampaignPairs(E)
Routed(E) == UNION {e.result.sequences : e \in {x \in E : x.service = "gateway"}}
\* The clock moves by what the command used.
Timed(E, T) ==
    \/ \E e : /\ E = {e} /\ network'.time = network.time + Elapsed(e) /\ Elapsed(e) \in Int
              /\ \A t \in T : t.advance = 0
    \/ E = {} /\ \E t : T = {t} /\ network'.time = network.time + t.advance
    \/ E = {} /\ T = {} /\ network'.time = network.time

\* Only a fault moves the error counters, and a node sends unless bus-off.
Moved(e, er, er1) ==
    \A n \in Nodes : LET tec == er[n].tec IN
        er1[n].tec = IF n # e.result.node THEN tec
                     ELSE CASE e.result.type = "recover" -> 0
                            [] e.result.type = "transmission_error" ->
                                 Min({tec + 8 * e.result.count, 256})
                            [] OTHER -> tec
Counted(E, T) ==
    /\ \A t \in T : network.errors[t.contract.producer].tec < 256
    /\ \/ (\A e \in E : e.service # "fault") /\ network'.errors = network.errors
       \/ \E e : E = {e} /\ e.service = "fault" /\ Moved(e, network.errors, network'.errors)

\* The codec stores its result and leaves the network alone.
CodecStores ==
    /\ network' = network /\ transmissions' = transmissions /\ catalogue' = catalogue
    /\ workload' = workload
    /\ \E e : executions' = executions \cup {e} /\ e.service = "codec" /\ Recorded(e)

-----------------------------------------------------------------------------
(* Versions                                                                  *)

Changes(E) == {e \in E : e.service # "codec"}
Frames(E, T) == {t \in T : \A e \in E : e.service = "arbitrate" => e.version # t.version}
VersionsOK(E, T, c, v) ==
    /\ {e.version : e \in Changes(E)} \cup {t.version : t \in T}
         \cup (IF c = None THEN {} ELSE {c.version}) = 2..v
    /\ Cardinality(Changes(E)) + Cardinality(Frames(E, T)) + (IF c = None THEN 0 ELSE 1) = v - 1
    /\ \A t, u \in T : t.id = u.id => t = u

\* The property of the run, as VersionsOK states it.
LEMMA VersionsAreThose ==
    /\ VersionsAreOneHistory <=> VersionsOK(executions, transmissions, catalogue, network.version)
    /\ VersionsAreOneHistory' <=>
         VersionsOK(executions', transmissions', catalogue', network'.version)
<1> DEFINE A == executions \ Of("codec")
           B == {t \in transmissions : \A e \in Of("arbitrate") : e.version # t.version}
<1>1. A = Changes(executions) /\ B = Frames(executions, transmissions)
  BY DEF Of, Changes, Frames
<1>2. A' = Changes(executions') /\ B' = Frames(executions', transmissions')
  BY DEF Of, Changes, Frames
<1>3. VersionsAreOneHistory <=>
        /\ {e.version : e \in A} \cup {t.version : t \in transmissions}
             \cup (IF catalogue = None THEN {} ELSE {catalogue.version}) = 2..network.version
        /\ Cardinality(A) + Cardinality(B) + (IF catalogue = None THEN 0 ELSE 1)
             = network.version - 1
        /\ \A t, u \in transmissions : t.id = u.id => t = u
  BY ONLY DEF VersionsAreOneHistory
<1>4. VersionsAreOneHistory' <=>
        /\ {e.version : e \in A'} \cup {t.version : t \in transmissions'}
             \cup (IF catalogue' = None THEN {} ELSE {(catalogue').version}) = 2..(network').version
        /\ Cardinality(A') + Cardinality(B') + (IF catalogue' = None THEN 0 ELSE 1)
             = (network').version - 1
        /\ \A t, u \in transmissions' : t.id = u.id => t = u
  BY ONLY DEF VersionsAreOneHistory
<1> HIDE DEF A, B
<1>5. ASSUME VersionsAreOneHistory PROVE VersionsOK(executions, transmissions, catalogue, network.version)
  BY ONLY <1>1, <1>3, <1>5 DEF VersionsOK
<1>6. ASSUME VersionsOK(executions, transmissions, catalogue, network.version) PROVE VersionsAreOneHistory
  BY ONLY <1>1, <1>3, <1>6 DEF VersionsOK
<1>7. VersionsAreOneHistory' <=> VersionsOK(executions', transmissions', catalogue', network'.version)
  BY ONLY <1>2, <1>4 DEF VersionsOK
<1> QED
  BY ONLY <1>5, <1>6, <1>7

\* Two finite sets without a common member.
LEMMA DisjointUnion ==
    ASSUME NEW S, IsFiniteSet(S), NEW T, IsFiniteSet(T), S \cap T = {}
    PROVE  /\ IsFiniteSet(S \cup T) /\ Cardinality(S \cup T) = Cardinality(S) + Cardinality(T)
           /\ Cardinality(S) \in Nat /\ Cardinality(T) \in Nat
<1>1. /\ Cardinality(S \cup T) = Cardinality(S) + Cardinality(T) - Cardinality({})
      /\ IsFiniteSet(S \cup T)
  BY FS_Union
<1>2. Cardinality({}) = 0 /\ Cardinality(S) \in Nat /\ Cardinality(T) \in Nat
  BY FS_EmptySet, FS_CardinalityType
<1> QED
  BY ONLY <1>1, <1>2

\* A singleton is finite.
LEMMA OneMember == ASSUME NEW x PROVE IsFiniteSet({x}) /\ Cardinality({x}) = 1
BY FS_Singleton

\* One more version, stored by one command or as the catalogue's.
LEMMA VersionsGrow ==
    ASSUME NEW X, IsFiniteSet(X), NEW U, IsFiniteSet(U), NEW c, NEW v \in Nat \ {0},
           VersionsOK(X, U, c, v), NEW E, IsFiniteSet(E), NEW T, IsFiniteSet(T), NEW d,
           \A e \in E : e.service # "codec" /\ e.version = v + 1,
           \A t \in T : t.version = v + 1,
           \A t \in T : \A u \in U \cup T : t.id = u.id => t = u,
           \/ (\E e : E = {e} /\ (T = {} \/ e.service = "arbitrate")) /\ d = c
           \/ E = {} /\ (\E t : T = {t}) /\ d = c
           \/ E = {} /\ T = {} /\ c = None /\ d # None /\ d.version = v + 1
    PROVE  VersionsOK(X \cup E, U \cup T, d, v + 1)
<1> DEFINE Y == X \cup E
           W == U \cup T
           Of1(a) == IF a = None THEN {} ELSE {a.version}
           Vs(A, B) == {e.version : e \in Changes(A)} \cup {t.version : t \in B}
           new == IF E = {} THEN T ELSE {}
<1>1. /\ Vs(X, U) \cup Of1(c) = 2..v
      /\ Cardinality(Changes(X)) + Cardinality(Frames(X, U)) + (IF c = None THEN 0 ELSE 1) = v - 1
      /\ \A t, u \in U : t.id = u.id => t = u
  BY DEF VersionsOK
<1>2. /\ \A e \in Changes(X) : e.version \in 2..v
      /\ \A t \in U : t.version \in 2..v
      /\ c # None => c.version \in 2..v
  <2>1. \A x \in Vs(X, U) \cup Of1(c) : x \in 2..v
    BY ONLY <1>1
  <2> QED
    BY <2>1
<1>3. v + 1 \notin 2..v /\ 2..v + 1 = 2..v \cup {v + 1}
  OBVIOUS
<1>4. Changes(Y) = Changes(X) \cup E /\ Changes(X) \cap E = {}
  BY <1>2, <1>3 DEF Changes
<1>5. U \cap T = {}
  BY <1>2, <1>3
<1>6. Frames(Y, W) = Frames(X, U) \cup new /\ Frames(X, U) \cap new = {}
  <2>1. \A e \in X : e.service = "arbitrate" => e \in Changes(X)
    BY DEF Changes
  <2>2. \A t \in U : t \in Frames(Y, W) <=> t \in Frames(X, U)
    BY <1>2, <1>3 DEF Frames
  <2>3. \A t \in T : t \in Frames(Y, W) <=> t \in new
    <3>1. ASSUME NEW t \in T PROVE t \in Frames(Y, W) <=> t \in new
      <4>1. \A e \in X : e.service = "arbitrate" => e.version # t.version
        BY <1>2, <1>3, <2>1
      <4>2. CASE E = {}
        BY <4>1, <4>2 DEF Frames
      <4>3. CASE E # {}
        <5>1. PICK e : E = {e} /\ e.service = "arbitrate"
          BY <4>3
        <5>2. e.version = t.version /\ e \in Y
          BY <5>1
        <5>3. t \notin Frames(Y, W)
          BY <5>1, <5>2 DEF Frames
        <5> QED
          BY <4>3, <5>3
      <4> QED
        BY <4>2, <4>3
    <3> QED
      BY <3>1
  <2>4. Frames(Y, W) \subseteq W /\ Frames(X, U) \subseteq U /\ new \subseteq T
    BY DEF Frames
  <2> HIDE DEF new, Y
  <2> QED
    BY <1>5, <2>2, <2>3, <2>4
<1>7. IsFiniteSet(Changes(X)) /\ IsFiniteSet(Frames(X, U)) /\ IsFiniteSet(new)
  BY FS_Subset, FS_EmptySet DEF Changes, Frames
<1>8. /\ Cardinality(Changes(Y)) = Cardinality(Changes(X)) + Cardinality(E)
      /\ Cardinality(Frames(Y, W)) = Cardinality(Frames(X, U)) + Cardinality(new)
      /\ Cardinality(Changes(X)) \in Nat /\ Cardinality(Frames(X, U)) \in Nat
  <2> HIDE DEF new, Y, W
  <2> QED
    BY <1>4, <1>6, <1>7, DisjointUnion
<1>9. Vs(Y, W) = Vs(X, U) \cup {e.version : e \in E} \cup {t.version : t \in T}
  BY ONLY <1>4
<1>10. \A t, u \in W : t.id = u.id => t = u
  BY <1>1
<1>11. /\ Vs(Y, W) \cup Of1(d) = 2..v + 1
       /\ Cardinality(Changes(Y)) + Cardinality(Frames(Y, W)) + (IF d = None THEN 0 ELSE 1)
            = (v + 1) - 1
  <2> HIDE DEF Y, W, Vs
  <2>1. ASSUME NEW e, E = {e}, T = {} \/ e.service = "arbitrate", d = c
        PROVE  <1>11
    <3>1. {x.version : x \in E} = {v + 1} /\ {t.version : t \in T} \subseteq {v + 1}
      BY <2>1
    <3>2. Cardinality(E) = 1 /\ Cardinality(new) = 0
      BY <2>1, OneMember, FS_EmptySet
    <3>3. Vs(Y, W) = Vs(X, U) \cup {v + 1}
      BY ONLY <1>9, <3>1
    <3> HIDE DEF new, Of1
    <3> QED
      BY ONLY <1>1, <1>3, <1>8, <2>1, <3>2, <3>3, v \in Nat \ {0}
  <2>2. ASSUME E = {}, NEW t, T = {t}, d = c
        PROVE  <1>11
    <3>1. {x.version : x \in E} = {} /\ {u.version : u \in T} = {v + 1}
      BY <2>2
    <3>2. Cardinality(E) = 0 /\ Cardinality(new) = 1
      BY <2>2, OneMember, FS_EmptySet
    <3>3. Vs(Y, W) = Vs(X, U) \cup {v + 1}
      BY ONLY <1>9, <3>1
    <3> HIDE DEF new, Of1
    <3> QED
      BY ONLY <1>1, <1>3, <1>8, <2>2, <3>2, <3>3, v \in Nat \ {0}
  <2>3. ASSUME E = {}, T = {}, c = None, d # None, d.version = v + 1
        PROVE  <1>11
    <3>1. {x.version : x \in E} = {} /\ {u.version : u \in T} = {}
      BY <2>3
    <3>2. Cardinality(E) = 0 /\ Cardinality(new) = 0
      BY <2>3, FS_EmptySet
    <3>3. Vs(Y, W) = Vs(X, U) /\ Of1(c) = {} /\ Of1(d) = {v + 1}
      BY ONLY <1>9, <2>3, <3>1
    <3> HIDE DEF new, Of1
    <3> QED
      BY ONLY <1>1, <1>3, <1>8, <2>3, <3>2, <3>3, v \in Nat \ {0}
  <2> QED
    BY <2>1, <2>2, <2>3
<1> QED
  BY ONLY <1>10, <1>11 DEF VersionsOK

-----------------------------------------------------------------------------
(* Sequences                                                                 *)

\* Every sequence belongs to one frame, traced message or routed message.
SequencesOK(E, T, next, time) ==
    LET P == Pairs(E, T)
    IN  /\ {x[1] : x \in P} \cup Routed(E) = 1..next - 1
        /\ {x[1] : x \in P} \cap Routed(E) = {}
        /\ \A x \in P : x[2] \in Nat /\ x[2] <= time
        /\ \A x, y \in P : /\ x[1] < y[1] => x[2] <= y[2]
                           /\ x[1] = y[1] => x = y
        /\ IsFiniteSet(P) /\ IsFiniteSet(Routed(E))

\* The sequences from one on that a command uses, for any network.
SequencesFollow(E, T, next, time, next1, time1) ==
    LET P == Pairs(E, T)
    IN  /\ next <= next1 /\ time <= time1
        /\ {x[1] : x \in P} \cup Routed(E) = next..next1 - 1
        /\ {x[1] : x \in P} \cap Routed(E) = {}
        /\ \A x \in P : time <= x[2] /\ x[2] <= time1 /\ x[2] \in Nat
        /\ \A x, y \in P : /\ x[1] < y[1] => x[2] <= y[2]
                           /\ x[1] = y[1] => x = y
        /\ IsFiniteSet(P) /\ IsFiniteSet(Routed(E))

\* A command that uses the next sequences keeps them one history.
LEMMA SequencesGrow ==
    ASSUME NEW X, NEW U, NEW n \in Nat \ {0}, NEW c \in Nat, SequencesOK(X, U, n, c),
           NEW E, NEW T, NEW m \in Nat, NEW d \in Nat, SequencesFollow(E, T, n, c, m, d)
    PROVE  SequencesOK(X \cup E, U \cup T, m, d)
<1> DEFINE P == Pairs(X, U)
           Q == Pairs(E, T)
           R == Routed(X)
           S == Routed(E)
<1>1. /\ {x[1] : x \in P} \cup R = 1..n - 1 /\ {x[1] : x \in P} \cap R = {}
      /\ \A x \in P : x[2] \in Nat /\ x[2] <= c
      /\ \A x, y \in P : (x[1] < y[1] => x[2] <= y[2]) /\ (x[1] = y[1] => x = y)
      /\ IsFiniteSet(P) /\ IsFiniteSet(R)
  BY DEF SequencesOK
<1>2. /\ n <= m /\ c <= d
      /\ {x[1] : x \in Q} \cup S = n..m - 1 /\ {x[1] : x \in Q} \cap S = {}
      /\ \A x \in Q : c <= x[2] /\ x[2] <= d /\ x[2] \in Nat
      /\ \A x, y \in Q : (x[1] < y[1] => x[2] <= y[2]) /\ (x[1] = y[1] => x = y)
      /\ IsFiniteSet(Q) /\ IsFiniteSet(S)
  BY DEF SequencesFollow
<1>3. Pairs(X \cup E, U \cup T) = P \cup Q /\ Routed(X \cup E) = R \cup S
  BY DEF Pairs, FramePairs, CampaignPairs, Routed
<1> HIDE DEF P, Q, R, S
<1>4. /\ \A x \in P : x[1] \in 1..n - 1
      /\ \A x \in Q : x[1] \in n..m - 1
      /\ \A s \in R : s \in 1..n - 1
      /\ \A s \in S : s \in n..m - 1
  BY ONLY <1>1, <1>2
<1>5. \A x \in P, y \in Q : x[1] < y[1] /\ x[2] <= y[2] /\ x[2] <= d
  BY ONLY <1>1, <1>2, <1>4, n \in Nat \ {0}, m \in Nat, c \in Nat, d \in Nat
<1>6. {x[1] : x \in P \cup Q} \cup (R \cup S) = 1..m - 1
  <2>1. (1..n - 1) \cup (n..m - 1) = 1..m - 1
    BY ONLY <1>2, n \in Nat \ {0}, m \in Nat
  <2>2. {x[1] : x \in P \cup Q} = {x[1] : x \in P} \cup {x[1] : x \in Q}
    OBVIOUS
  <2> QED
    BY ONLY <1>1, <1>2, <2>1, <2>2
<1>7. {x[1] : x \in P \cup Q} \cap (R \cup S) = {}
  <2>1. (1..n - 1) \cap (n..m - 1) = {}
    BY ONLY n \in Nat \ {0}, m \in Nat
  <2>2. ASSUME NEW x \in P \cup Q, x[1] \in R \cup S PROVE FALSE
    BY <1>1, <1>2, <1>4, <2>1, <2>2
  <2> QED
    BY <2>2
<1>8. \A x \in P \cup Q : x[2] \in Nat /\ x[2] <= d
  BY ONLY <1>1, <1>2, c \in Nat, d \in Nat
<1>9. \A x, y \in P \cup Q : /\ x[1] < y[1] => x[2] <= y[2]
                             /\ x[1] = y[1] => x = y
  <2> SUFFICES ASSUME NEW x \in P \cup Q, NEW y \in P \cup Q
               PROVE  (x[1] < y[1] => x[2] <= y[2]) /\ (x[1] = y[1] => x = y)
    OBVIOUS
  <2>1. x[1] \in Int /\ y[1] \in Int
    BY <1>4
  <2>2. CASE x \in P /\ y \in P
    BY <1>1, <2>2
  <2>3. CASE x \in Q /\ y \in Q
    BY <1>2, <2>3
  <2>4. CASE x \in P /\ y \in Q
    BY <1>5, <2>1, <2>4
  <2>5. CASE x \in Q /\ y \in P
    BY <1>5, <2>1, <2>5
  <2> QED
    BY <2>2, <2>3, <2>4, <2>5
<1>10. IsFiniteSet(P \cup Q) /\ IsFiniteSet(R \cup S)
  BY <1>1, <1>2, FS_Union
<1> QED
  BY ONLY <1>3, <1>6, <1>7, <1>8, <1>9, <1>10 DEF SequencesOK

\* Which is what the property counts.
LEMMA SequencesAreCounted ==
    ASSUME NEW X, NEW U, NEW n \in Nat \ {0}, NEW c, SequencesOK(X, U, n, c)
    PROVE  Cardinality(Pairs(X, U)) + Cardinality(Routed(X)) = n - 1
<1> DEFINE P == Pairs(X, U)
           R == Routed(X)
           S == {x[1] : x \in P}
<1>1. /\ S \cup R = 1..n - 1 /\ S \cap R = {}
      /\ \A x, y \in P : x[1] = y[1] => x = y
      /\ IsFiniteSet(P) /\ IsFiniteSet(R)
  BY DEF SequencesOK
<1> HIDE DEF P, R
<1>2. IsFiniteSet(S) /\ Cardinality(S) = Cardinality(P)
  <2> DEFINE f == [x \in P |-> x[1]]
  <2>1. \A x, y \in P : f[x] = f[y] => x = y
    BY <1>1
  <2>2. {f[x] : x \in P} = S
    OBVIOUS
  <2> HIDE DEF f, S
  <2> QED
    BY ONLY <1>1, <2>1, <2>2, ImageOfInjection
<1>3. Cardinality(1..n - 1) = n - 1
  <2>1. 1 \in Int /\ n - 1 \in Int /\ (1 > n - 1 <=> n - 1 = 0) /\ (n - 1) - 1 + 1 = n - 1
    OBVIOUS
  <2> QED
    BY ONLY <2>1, FS_Interval
<1> HIDE DEF S
<1>4. Cardinality(S \cup R) = Cardinality(S) + Cardinality(R)
  BY ONLY <1>1, <1>2, DisjointUnion
<1> QED
  BY <1>1, <1>2, <1>3, <1>4 DEF P, R

\* The property of the run follows from SequencesOK.
LEMMA SequencesAreThose ==
    ASSUME network.next \in Nat \ {0},
           SequencesOK(executions, transmissions, network.next, network.time)
    PROVE  SequencesAreOneHistory
<1> DEFINE ends == {<<t.sequence, t.time>> : t \in transmissions}
                   \cup UNION {{<<e.result.trace[i].sequence, e.result.trace[i].end>> :
                                  i \in {j \in DOMAIN e.result.trace :
                                           e.result.trace[j].sequence # None}} :
                                e \in Of("campaign")}
           routed == UNION {e.result.sequences : e \in Of("gateway")}
<1>1. ends = Pairs(executions, transmissions) /\ routed = Routed(executions)
  BY DEF Pairs, FramePairs, CampaignPairs, Routed, SentIn, Of
<1>2. SequencesAreOneHistory <=>
        /\ {x[1] : x \in ends} \cup routed = 1..network.next - 1
        /\ Cardinality(ends) + Cardinality(routed) = network.next - 1
        /\ \A x, y \in ends : x[1] < y[1] => x[2] <= y[2]
        /\ \A x \in ends : x[2] <= network.time
  BY ONLY DEF SequencesAreOneHistory
<1> HIDE DEF ends, routed
<1>3. Cardinality(ends) + Cardinality(routed) = network.next - 1
  BY <1>1, SequencesAreCounted
<1> QED
  BY <1>1, <1>2, <1>3 DEF SequencesOK

-----------------------------------------------------------------------------
(* The clock                                                                 *)

ElapsedOf(X) == [e \in X |-> Elapsed(e)]
AdvanceOf(U) == [t \in U |-> t.advance]
ClockOK(X, U, time) == time = SumOn(ElapsedOf(X), X) + SumOn(AdvanceOf(U), U)

\* The sums of the property are those of the lemmas.
LEMMA SumsOfTheClock ==
    ASSUME NEW X, IsFiniteSet(X), NEW U, IsFiniteSet(U)
    PROVE  /\ MapThenSumSet(Elapsed, X) = SumOn(ElapsedOf(X), X)
           /\ MapThenSumSet(LAMBDA t : t.advance, U) = SumOn(AdvanceOf(U), U)
<1>1. MapThenSumSet(Elapsed, X) = SumOn(ElapsedOf(X), X)
  <2> DEFINE w == CHOOSE w : w = [s \in SUBSET X |->
                    IF s = {} THEN 0 ELSE Elapsed(Pick(s)) + w[s \ {Pick(s)}]]
             v == CHOOSE v : Sums(ElapsedOf(X), X, v)
  <2>1. MapThenSumSet(Elapsed, X) = w[X]
    BY ONLY DEF MapThenSumSet, MapThenFoldSet, Pick
  <2>2. Sums(ElapsedOf(X), X, v)
    BY SumsExist
  <2>3. \A s \in SUBSET X : s # {} => ElapsedOf(X)[Pick(s)] = Elapsed(Pick(s))
    BY DEF ElapsedOf, Pick
  <2>4. v = [s \in SUBSET X |-> IF s = {} THEN 0 ELSE Elapsed(Pick(s)) + v[s \ {Pick(s)}]]
    <3> HIDE DEF v
    <3> QED
      BY ONLY <2>2, <2>3 DEF Sums
  <2>5. w = [s \in SUBSET X |-> IF s = {} THEN 0 ELSE Elapsed(Pick(s)) + w[s \ {Pick(s)}]]
    <3> HIDE DEF v
    <3> QED
      BY ONLY <2>4
  <2>6. Sums(ElapsedOf(X), X, w)
    <3> HIDE DEF w
    <3> QED
      BY ONLY <2>3, <2>5 DEF Sums
  <2> HIDE DEF w
  <2> QED
    BY <2>1, <2>6, SumIsAny
<1>2. MapThenSumSet(LAMBDA t : t.advance, U) = SumOn(AdvanceOf(U), U)
  <2> DEFINE w == CHOOSE w : w = [s \in SUBSET U |->
                    IF s = {} THEN 0 ELSE Pick(s).advance + w[s \ {Pick(s)}]]
             v == CHOOSE v : Sums(AdvanceOf(U), U, v)
  <2>1. MapThenSumSet(LAMBDA t : t.advance, U) = w[U]
    BY ONLY DEF MapThenSumSet, MapThenFoldSet, Pick
  <2>2. Sums(AdvanceOf(U), U, v)
    BY SumsExist
  <2>3. \A s \in SUBSET U : s # {} => AdvanceOf(U)[Pick(s)] = Pick(s).advance
    BY DEF AdvanceOf, Pick
  <2>4. v = [s \in SUBSET U |-> IF s = {} THEN 0 ELSE Pick(s).advance + v[s \ {Pick(s)}]]
    <3> HIDE DEF v
    <3> QED
      BY ONLY <2>2, <2>3 DEF Sums
  <2>5. w = [s \in SUBSET U |-> IF s = {} THEN 0 ELSE Pick(s).advance + w[s \ {Pick(s)}]]
    <3> HIDE DEF v
    <3> QED
      BY ONLY <2>4
  <2>6. Sums(AdvanceOf(U), U, w)
    <3> HIDE DEF w
    <3> QED
      BY ONLY <2>3, <2>5 DEF Sums
  <2> HIDE DEF w
  <2> QED
    BY <2>1, <2>6, SumIsAny
<1> QED
  BY <1>1, <1>2

\* The clock moves by what one new execution, or one new frame, has used.
LEMMA ClockMoves ==
    ASSUME NEW X, IsFiniteSet(X), NEW U, IsFiniteSet(U), NEW c, ClockOK(X, U, c),
           \A e \in X : Elapsed(e) \in Int, \A t \in U : t.advance \in Int,
           NEW E, NEW T, IsFiniteSet(T), E \cap X = {}, T \cap U = {}, NEW d,
           \/ \E e : /\ E = {e} /\ d = c + Elapsed(e) /\ Elapsed(e) \in Int
                     /\ \A t \in T : t.advance = 0
           \/ E = {} /\ \E t : T = {t} /\ d = c + t.advance /\ t.advance \in Int
           \/ E = {} /\ T = {} /\ d = c
    PROVE  ClockOK(X \cup E, U \cup T, d)
<1> DEFINE f == ElapsedOf(X)
           g == AdvanceOf(U)
           f1 == ElapsedOf(X \cup E)
           g1 == AdvanceOf(U \cup T)
<1>1. c = SumOn(f, X) + SumOn(g, U)
  BY DEF ClockOK
<1>2. /\ \A e \in X : f[e] = f1[e] /\ f1[e] \in Int
      /\ \A e \in E : f1[e] = Elapsed(e)
      /\ \A t \in U : g[t] = g1[t] /\ g1[t] \in Int
      /\ \A t \in T : g1[t] = t.advance
  BY DEF ElapsedOf, AdvanceOf
<1>3. SumOn(f, X) \in Int /\ SumOn(g, U) \in Int
  <2> HIDE DEF f, g, f1, g1
  <2> QED
    BY <1>2, SumIsInt
<1>4. E = {} => SumOn(f1, X \cup E) = SumOn(f, X)
  <2> HIDE DEF f1
  <2>1. SUFFICES ASSUME E = {} PROVE SumOn(f1, X) = SumOn(f, X)
    OBVIOUS
  <2>2. X \in SUBSET X
    OBVIOUS
  <2> HIDE DEF f
  <2> QED
    BY ONLY <1>2, <2>2, IsFiniteSet(X), SumAgrees
<1>5. ASSUME NEW e, E = {e}, Elapsed(e) \in Int
      PROVE  SumOn(f1, X \cup E) = SumOn(f, X) + Elapsed(e)
  <2>1. e \notin X /\ f1[e] = Elapsed(e) /\ f1[e] \in Int
    BY <1>2, <1>5
  <2> HIDE DEF f, f1
  <2>2. SumOn(f1, X \cup {e}) = SumOn(f, X) + f1[e]
    BY ONLY <1>2, <2>1, IsFiniteSet(X), SumGrows
  <2> QED
    BY <1>5, <2>1, <2>2
<1>6. (\A t \in T : t.advance = 0) => SumOn(g1, U \cup T) = SumOn(g, U)
  <2>1. SUFFICES ASSUME \A t \in T : t.advance = 0 PROVE SumOn(g1, U \cup T) = SumOn(g, U)
    OBVIOUS
  <2>2. \A t \in T : g1[t] = 0
    BY <1>2, <2>1
  <2> HIDE DEF g, g1
  <2> QED
    BY ONLY <1>2, <2>2, IsFiniteSet(U), IsFiniteSet(T), SumIgnoresZeros
<1>7. ASSUME NEW t, T = {t}, t.advance \in Int
      PROVE  SumOn(g1, U \cup T) = SumOn(g, U) + t.advance
  <2>1. t \notin U /\ g1[t] = t.advance /\ g1[t] \in Int
    BY <1>2, <1>7
  <2> HIDE DEF g, g1
  <2>2. SumOn(g1, U \cup {t}) = SumOn(g, U) + g1[t]
    BY ONLY <1>2, <2>1, IsFiniteSet(U), SumGrows
  <2> QED
    BY <1>7, <2>1, <2>2
<1> HIDE DEF f, g, f1, g1
<1>8. d = SumOn(f1, X \cup E) + SumOn(g1, U \cup T)
  <2>1. ASSUME NEW e, E = {e}, d = c + Elapsed(e), Elapsed(e) \in Int,
               \A t \in T : t.advance = 0
        PROVE  <1>8
    <3>1. SumOn(f1, X \cup E) = SumOn(f, X) + Elapsed(e)
      BY <1>5, <2>1
    <3>2. SumOn(g1, U \cup T) = SumOn(g, U)
      BY <1>6, <2>1
    <3> HIDE DEF Elapsed
    <3> QED
      BY ONLY <1>1, <1>3, <2>1, <3>1, <3>2
  <2>2. ASSUME E = {}, NEW t, T = {t}, d = c + t.advance, t.advance \in Int
        PROVE  <1>8
    <3>1. SumOn(g1, U \cup T) = SumOn(g, U) + t.advance
      BY <1>7, <2>2
    <3>2. SumOn(f1, X \cup E) = SumOn(f, X)
      BY <1>4, <2>2
    <3> QED
      BY ONLY <1>1, <1>3, <2>2, <3>1, <3>2
  <2>3. ASSUME E = {}, T = {}, d = c
        PROVE  <1>8
    BY ONLY <1>1, <1>3, <1>4, <1>6, <2>3
  <2> QED
    BY <2>1, <2>2, <2>3
<1> QED
  BY <1>8 DEF ClockOK, f1, g1

-----------------------------------------------------------------------------
(* Error counters: what TransmitErrors counts of the executions X            *)

FaultsOf(X) == {e \in X : e.service = "fault"}
Recoveries(X, n, v) ==
    {e \in FaultsOf(X) : e.result.node = n /\ e.result.type = "recover" /\ e.version <= v}
RecoveredAt(X, n, v) == Max({1} \cup {e.version : e \in Recoveries(X, n, v)})
ErrorsOf(X, n, v) ==
    {e \in FaultsOf(X) : /\ e.result.node = n /\ e.result.type = "transmission_error"
                         /\ e.version \in RecoveredAt(X, n, v)..v}
Weighed(S) == [e \in S |-> 8 * e.result.count]
Errors(X, n, v) == SumOn(Weighed(ErrorsOf(X, n, v)), ErrorsOf(X, n, v))

\* The counter of a node is that sum, up to the threshold, and a frame that
\* was sent had a producer below it.
ErrorsOK(X, U, errors, v) ==
    /\ \A n \in Nodes : errors[n].tec = Min({Errors(X, n, v), 256})
    /\ \A t \in U : Errors(X, t.contract.producer, t.version) < 256

\* A bound that is reached is the greatest element.
LEMMA MaxOfBounded ==
    ASSUME NEW S, NEW m, m \in S, \A x \in S : x \in Int /\ x <= m
    PROVE  Max(S) = m
<1>1. \A y \in S : m >= y
  OBVIOUS
<1>2. \A x \in S : (\A y \in S : x >= y) => x = m
  OBVIOUS
<1> QED
  BY <1>1, <1>2 DEF Max

\* The greatest of a finite set of integers, by a minimal counterexample.
LEMMA MaxExists ==
    ASSUME NEW S, IsFiniteSet(S), S # {}, \A x \in S : x \in Int
    PROVE  Max(S) \in S /\ \A x \in S : x <= Max(S)
<1> DEFINE C == {T \in SUBSET S : T # {} /\ ~ \E m \in T : \A x \in T : m >= x}
<1>1. C = {}
  <2> SUFFICES ASSUME C # {} PROVE FALSE
    OBVIOUS
  <2>1. PICK T \in C : \A U \in C : U \subseteq T => U = T
    <3>1. C \in SUBSET SUBSET S
      OBVIOUS
    <3> HIDE DEF C
    <3> QED
      BY ONLY <3>1, C # {}, IsFiniteSet(S), MinimalSubset
  <2>2. PICK x \in T : TRUE
    BY <2>1
  <2>3. T \ {x} \notin C /\ T \subseteq S
    BY <2>1, <2>2
  <2>4. CASE T = {x}
    BY <2>1, <2>3, <2>4
  <2>5. CASE T # {x}
    <3>1. PICK y \in T \ {x} : \A z \in T \ {x} : y >= z
      BY <2>2, <2>3, <2>5
    <3>2. x \in Int /\ y \in Int /\ \A z \in T : z \in Int
      BY <2>2, <2>3, <3>1
    <3>3. CASE y >= x
      BY <2>1, <3>1, <3>3
    <3>4. CASE x >= y
      <4>1. \A z \in T : x >= z
        BY <3>1, <3>2, <3>4
      <4> QED
        BY <2>1, <2>2, <4>1
    <3> QED
      BY <3>2, <3>3, <3>4
  <2> QED
    BY <2>4, <2>5
<1>2. \E m \in S : \A x \in S : m >= x
  BY <1>1
<1>3. Max(S) \in S /\ \A x \in S : Max(S) >= x
  BY <1>2 DEF Max
<1> QED
  BY <1>3

\* What versions a fault may have, and what it counts.
FaultsTyped(X, v) ==
    \A e \in FaultsOf(X) : e.version \in 2..v /\ e.result.count \in Nat

\* The last recovery is one of the versions up to the network's.
LEMMA RecoveryTyped ==
    ASSUME NEW X, IsFiniteSet(X), NEW v \in Nat \ {0}, FaultsTyped(X, v), NEW n, NEW u \in Nat
    PROVE  /\ RecoveredAt(X, n, u) \in 1..v
           /\ \A e \in Recoveries(X, n, u) : e.version <= RecoveredAt(X, n, u)
<1> DEFINE R == Recoveries(X, n, u)
           Vs == {e.version : e \in R}
           S == {1} \cup Vs
<1>1. R \subseteq X /\ \A e \in R : e.version \in 2..v
  BY DEF Recoveries, FaultsTyped, FaultsOf
<1>2. IsFiniteSet(Vs)
  <2> DEFINE f == [e \in R |-> e.version]
  <2>1. IsFiniteSet(R) /\ Vs = {f[e] : e \in R}
    BY <1>1, FS_Subset
  <2> HIDE DEF f, R, Vs
  <2> QED
    BY ONLY <2>1, ImageIsFinite
<1>3. IsFiniteSet(S) /\ S # {} /\ \A x \in S : x \in Int /\ x \in 1..v
  <2>1. IsFiniteSet({1})
    BY OneMember
  <2>2. IsFiniteSet(S)
    <3> HIDE DEF Vs
    <3> QED
      BY ONLY <1>2, <2>1, FS_Union
  <2> QED
    BY <1>1, <2>2
<1>4. \A e \in R : e.version \in S
  OBVIOUS
<1>5. RecoveredAt(X, n, u) = Max(S)
  BY DEF RecoveredAt
<1> HIDE DEF S, Vs, R
<1>6. Max(S) \in S /\ \A x \in S : x <= Max(S)
  BY ONLY <1>3, MaxExists
<1> QED
  BY ONLY <1>3, <1>4, <1>5, <1>6 DEF R

\* What a node has counted is a number.
LEMMA ErrorsAreNatural ==
    ASSUME NEW X, IsFiniteSet(X), NEW v, FaultsTyped(X, v), NEW n, NEW u
    PROVE  Errors(X, n, u) \in Int /\ IsFiniteSet(ErrorsOf(X, n, u))
<1> DEFINE S == ErrorsOf(X, n, u)
<1>1. S \subseteq X /\ \A e \in S : e.result.count \in Nat
  BY DEF ErrorsOf, FaultsTyped, FaultsOf
<1>2. IsFiniteSet(S)
  BY <1>1, FS_Subset
<1>3. \A e \in S : Weighed(S)[e] \in Int
  BY <1>1 DEF Weighed
<1>4. SumOn(Weighed(S), S) \in Int
  <2> HIDE DEF S
  <2> QED
    BY ONLY <1>2, <1>3, S \in SUBSET S, SumIsInt
<1> QED
  BY <1>2, <1>4 DEF Errors

\* Later rows leave the sum at an earlier version alone, and rows that are no
\* fault of the node leave it as it is.
LEMMA ErrorsStay ==
    ASSUME NEW X, NEW v \in Nat \ {0}, FaultsTyped(X, v), NEW E, NEW n,
           \A e \in E : e.version = v + 1
    PROVE  /\ \A u \in 1..v : Errors(X \cup E, n, u) = Errors(X, n, u)
           /\ IsFiniteSet(X) /\ (\A e \in FaultsOf(E) : e.result.node # n
                                    \/ e.result.type \notin {"recover", "transmission_error"})
                => Errors(X \cup E, n, v + 1) = Errors(X, n, v)
<1> DEFINE Y == X \cup E
<1>1. FaultsOf(Y) = FaultsOf(X) \cup FaultsOf(E)
      /\ (\A e \in FaultsOf(X) : e.version \in 2..v) /\ (\A e \in FaultsOf(E) : e.version = v + 1)
  BY DEF FaultsOf, FaultsTyped
<1> HIDE DEF Y
<1>2. ASSUME NEW u \in 1..v PROVE Errors(Y, n, u) = Errors(X, n, u)
  <2>1. \A e \in FaultsOf(E) : ~(e.version <= u) /\ \A m : e.version \notin m..u
    BY <1>1
  <2>2. Recoveries(Y, n, u) = Recoveries(X, n, u)
    BY <1>1, <2>1 DEF Recoveries
  <2>3. RecoveredAt(Y, n, u) = RecoveredAt(X, n, u)
    BY <2>2 DEF RecoveredAt
  <2>4. ErrorsOf(Y, n, u) = ErrorsOf(X, n, u)
    BY <1>1, <2>1, <2>3 DEF ErrorsOf
  <2> QED
    BY <2>4 DEF Errors
<1>3. ASSUME IsFiniteSet(X),
             \A e \in FaultsOf(E) : e.result.node # n
                \/ e.result.type \notin {"recover", "transmission_error"}
      PROVE  Errors(Y, n, v + 1) = Errors(X, n, v)
  <2>1. \A e \in FaultsOf(X) : e.version <= v /\ e.version <= v + 1 /\ e.version \in Int
    BY <1>1
  <2>2. Recoveries(Y, n, v + 1) = Recoveries(X, n, v)
    BY <1>1, <1>3, <2>1 DEF Recoveries
  <2>3. RecoveredAt(Y, n, v + 1) = RecoveredAt(X, n, v)
    BY <2>2 DEF RecoveredAt
  <2>4. RecoveredAt(X, n, v) \in 1..v
    BY <1>3, RecoveryTyped
  <2>5. \A e \in FaultsOf(X) : e.version \in RecoveredAt(X, n, v)..v
                               <=> e.version \in RecoveredAt(X, n, v)..v + 1
    BY <2>1, <2>4
  <2>6. ErrorsOf(Y, n, v + 1) = ErrorsOf(X, n, v)
    BY <1>1, <1>3, <2>3, <2>5 DEF ErrorsOf
  <2> QED
    BY <2>6 DEF Errors
<1> QED
  BY <1>2, <1>3 DEF Y

\* A transmission error adds its weight.
LEMMA ErrorsAdd ==
    ASSUME NEW X, IsFiniteSet(X), NEW v \in Nat \ {0}, FaultsTyped(X, v), NEW e,
           e.service = "fault", e.version = v + 1, e.result.count \in Nat,
           e.result.type = "transmission_error"
    PROVE  Errors(X \cup {e}, e.result.node, v + 1)
             = Errors(X, e.result.node, v) + 8 * e.result.count
<1> DEFINE Y == X \cup {e}
           n == e.result.node
           S == ErrorsOf(X, n, v)
           f == Weighed(S)
           g == Weighed(S \cup {e})
<1>1. FaultsOf(Y) = FaultsOf(X) \cup {e}
      /\ (\A x \in FaultsOf(X) : x.version \in 2..v) /\ e \notin FaultsOf(X)
  BY DEF FaultsOf, FaultsTyped
<1>2. \A x \in FaultsOf(X) : x.version <= v /\ x.version <= v + 1 /\ x.version \in Int
  BY <1>1
<1>3. Recoveries(Y, n, v + 1) = Recoveries(X, n, v)
  BY <1>1, <1>2 DEF Recoveries
<1>4. RecoveredAt(Y, n, v + 1) = RecoveredAt(X, n, v)
  BY <1>3 DEF RecoveredAt
<1>5. RecoveredAt(X, n, v) \in 1..v
  BY RecoveryTyped
<1>6. /\ \A x \in FaultsOf(X) : x.version \in RecoveredAt(X, n, v)..v
                               <=> x.version \in RecoveredAt(X, n, v)..v + 1
      /\ e.version \in RecoveredAt(X, n, v)..v + 1
  BY <1>2, <1>5
<1>7. ErrorsOf(Y, n, v + 1) = S \cup {e} /\ e \notin S
  <2> HIDE DEF Y
  <2> QED
    BY <1>1, <1>4, <1>6 DEF ErrorsOf
<1>8. IsFiniteSet(S) /\ \A x \in S : x.result.count \in Nat
  <2>1. IsFiniteSet(S)
    BY ErrorsAreNatural
  <2>2. S \subseteq FaultsOf(X)
    BY DEF ErrorsOf
  <2> HIDE DEF S
  <2> QED
    BY <2>1, <2>2 DEF FaultsTyped
<1>9. /\ \A y \in S : f[y] = g[y] /\ g[y] \in Int
      /\ g[e] = 8 * e.result.count /\ g[e] \in Int
  <2> HIDE DEF S
  <2> QED
    BY <1>8 DEF Weighed
<1>10. SumOn(g, S \cup {e}) = SumOn(f, S) + g[e]
  <2> HIDE DEF f, g, S
  <2> QED
    BY ONLY <1>7, <1>8, <1>9, SumGrows
<1> QED
  BY <1>7, <1>9, <1>10 DEF Errors

\* A recovery starts the count again.
LEMMA ErrorsRestart ==
    ASSUME NEW X, IsFiniteSet(X), NEW v \in Nat \ {0}, FaultsTyped(X, v), NEW e,
           e.service = "fault", e.version = v + 1, e.result.type = "recover"
    PROVE  Errors(X \cup {e}, e.result.node, v + 1) = 0
<1> DEFINE Y == X \cup {e}
           n == e.result.node
           S == {1} \cup {x.version : x \in Recoveries(Y, n, v + 1)}
<1>1. FaultsOf(Y) = FaultsOf(X) \cup {e} /\ \A x \in FaultsOf(X) : x.version \in 2..v
  BY DEF FaultsOf, FaultsTyped
<1>2. \A x \in FaultsOf(Y) : x.version \in Int /\ x.version <= v + 1
  BY <1>1
<1>3. e \in Recoveries(Y, n, v + 1) /\ Recoveries(Y, n, v + 1) \subseteq FaultsOf(Y)
  BY <1>1, <1>2 DEF Recoveries
<1> HIDE DEF Y
<1>4. v + 1 \in S /\ \A x \in S : x \in Int /\ x <= v + 1
  BY <1>2, <1>3
<1>5. RecoveredAt(Y, n, v + 1) = v + 1
  <2>1. Max(S) = v + 1
    <3> HIDE DEF S
    <3> QED
      BY ONLY <1>4, MaxOfBounded
  <2> QED
    BY <2>1 DEF RecoveredAt
<1>6. ErrorsOf(Y, n, v + 1) = {}
  <2>1. \A x \in FaultsOf(X) : x.version \notin v + 1..v + 1
    BY <1>1
  <2>2. e.result.type # "transmission_error"
    OBVIOUS
  <2> QED
    BY <1>1, <1>5, <2>1, <2>2 DEF ErrorsOf
<1> QED
  BY <1>6, SumEmpty DEF Errors, Y

\* A command keeps the counters those of the faults since the recovery.
LEMMA ErrorsGrow ==
    ASSUME NEW X, IsFiniteSet(X), NEW U, NEW v \in Nat \ {0}, FaultsTyped(X, v),
           NEW er, \A n \in Nodes : er[n].tec \in Tecs, ErrorsOK(X, U, er, v),
           \A t \in U : t.version \in 1..v,
           NEW E, NEW T, NEW er1, \A e \in E : e.version = v + 1,
           \A t \in T : /\ t.version = v + 1 /\ t.contract.producer \in Nodes
                        /\ er[t.contract.producer].tec < 256,
           \/ (\A e \in E : e.service # "fault") /\ er1 = er
           \/ /\ T = {}
              /\ \E e : /\ E = {e} /\ e.service = "fault" /\ e.result.count \in Nat
                        /\ Moved(e, er, er1)
    PROVE  ErrorsOK(X \cup E, U \cup T, er1, v + 1)
<1> DEFINE Y == X \cup E
           W == U \cup T
<1>1. /\ \A n \in Nodes : er[n].tec = Min({Errors(X, n, v), 256})
      /\ \A t \in U : Errors(X, t.contract.producer, t.version) < 256
  BY DEF ErrorsOK
<1>2. ASSUME NEW n
      PROVE  /\ \A u \in 1..v : Errors(Y, n, u) = Errors(X, n, u)
             /\ (\A e \in FaultsOf(E) : e.result.node # n
                    \/ e.result.type \notin {"recover", "transmission_error"})
                  => Errors(Y, n, v + 1) = Errors(X, n, v)
             /\ Errors(X, n, v) \in Int
  <2>1. Errors(X, n, v) \in Int
    BY ErrorsAreNatural
  <2> QED
    BY ONLY <2>1, ErrorsStay, IsFiniteSet(X), v \in Nat \ {0}, FaultsTyped(X, v),
            \A e \in E : e.version = v + 1
<1> HIDE DEF Y
<1>3. \A t \in U : Errors(Y, t.contract.producer, t.version) < 256
  BY <1>1, <1>2
<1>4. CASE (\A e \in E : e.service # "fault") /\ er1 = er
  <2>1. FaultsOf(E) = {}
    BY <1>4 DEF FaultsOf
  <2>2. \A n \in Nodes : Errors(Y, n, v + 1) = Errors(X, n, v)
    BY <1>2, <2>1
  <2>3. \A n \in Nodes : er1[n].tec = Min({Errors(Y, n, v + 1), 256})
    BY <1>1, <1>4, <2>2
  <2>4. ASSUME NEW t \in T PROVE Errors(Y, t.contract.producer, t.version) < 256
    <3> DEFINE n == t.contract.producer
    <3>1. n \in Nodes /\ er[n].tec < 256 /\ t.version = v + 1
      OBVIOUS
    <3> HIDE DEF n
    <3>2. Errors(Y, n, v + 1) = Errors(X, n, v) /\ Errors(X, n, v) \in Int
      BY <1>2, <2>2, <3>1
    <3>3. Min({Errors(X, n, v), 256}) = IF Errors(X, n, v) <= 256 THEN Errors(X, n, v) ELSE 256
      BY <3>2, MinOfTwo
    <3>4. Errors(X, n, v) < 256
      BY ONLY <1>1, <3>1, <3>2, <3>3
    <3> QED
      BY <3>1, <3>2, <3>4 DEF n
  <2>5. ErrorsOK(Y, U \cup T, er1, v + 1)
    BY ONLY <1>3, <2>3, <2>4 DEF ErrorsOK
  <2> QED
    BY <2>5 DEF Y
<1>5. ASSUME T = {}, NEW e, E = {e}, e.service = "fault", e.result.count \in Nat,
             Moved(e, er, er1)
      PROVE  ErrorsOK(X \cup E, U \cup T, er1, v + 1)
  <2>1. FaultsOf(E) = {e} /\ e.version = v + 1
    BY <1>5 DEF FaultsOf
  <2>2. ASSUME NEW n \in Nodes PROVE er1[n].tec = Min({Errors(Y, n, v + 1), 256})
    <3> DEFINE s == Errors(X, n, v)
               k == 8 * e.result.count
    <3>1. s \in Int /\ k \in Nat /\ er[n].tec = Min({s, 256})
      <4>1. k \in Nat
        BY ONLY e.result.count \in Nat, <1>5
      <4>2. s \in Int /\ er[n].tec = Min({s, 256})
        BY ONLY <1>1, <1>2, n \in Nodes
      <4> QED
        BY ONLY <4>1, <4>2
    <3>2. CASE n # e.result.node
      <4>1. Errors(Y, n, v + 1) = s
        BY <1>2, <2>1, <3>2
      <4> HIDE DEF s
      <4> QED
        BY <1>5, <3>1, <3>2, <4>1 DEF Moved
    <3>3. CASE n = e.result.node /\ e.result.type = "recover"
      <4>1. Errors(Y, n, v + 1) = 0
        <5>1. Errors(X \cup {e}, e.result.node, v + 1) = 0
          BY <1>5, <2>1, <3>3, ErrorsRestart
        <5> QED
          BY <1>5, <3>3, <5>1 DEF Y
      <4>2. Min({0, 256}) = 0
        <5>1. Min({0, 256}) = IF 0 <= 256 THEN 0 ELSE 256
          BY ONLY 0 \in Int, 256 \in Int, MinOfTwo
        <5> QED
          BY ONLY <5>1
      <4> QED
        BY <1>5, <3>3, <4>1, <4>2 DEF Moved
    <3>4. CASE n = e.result.node /\ e.result.type = "transmission_error"
      <4>1. Errors(Y, n, v + 1) = s + k
        <5>1. Errors(X \cup {e}, e.result.node, v + 1)
                = Errors(X, e.result.node, v) + 8 * e.result.count
          BY <1>5, <2>1, <3>4, ErrorsAdd
        <5> QED
          BY <1>5, <3>4, <5>1 DEF Y
      <4>2. er1[n].tec = Min({er[n].tec + k, 256})
        BY <1>5, <3>4 DEF Moved
      <4> HIDE DEF s, k
      <4>3. Min({s, 256}) = IF s <= 256 THEN s ELSE 256
        BY <3>1, MinOfTwo
      <4>4. Min({s + k, 256}) = IF s + k <= 256 THEN s + k ELSE 256
        <5>1. s + k \in Int
          BY <3>1
        <5> QED
          BY ONLY <5>1, MinOfTwo, 256 \in Int
      <4>5. er[n].tec \in Int /\ er[n].tec + k \in Int
        BY <3>1, <4>3
      <4>6. Min({er[n].tec + k, 256}) = IF er[n].tec + k <= 256 THEN er[n].tec + k ELSE 256
        BY ONLY <4>5, MinOfTwo, 256 \in Int
      <4>7. Min({er[n].tec + k, 256}) = Min({s + k, 256})
        BY ONLY <3>1, <4>3, <4>4, <4>6
      <4> QED
        BY ONLY <4>1, <4>2, <4>7
    <3>5. CASE n = e.result.node /\ e.result.type \notin {"recover", "transmission_error"}
      <4>1. Errors(Y, n, v + 1) = s
        BY <1>2, <2>1, <3>5
      <4>2. er1[n].tec = er[n].tec
        BY <1>5, <3>5 DEF Moved
      <4> HIDE DEF s
      <4> QED
        BY <3>1, <4>1, <4>2
    <3> QED
      BY <3>2, <3>3, <3>4, <3>5
  <2> QED
    BY <1>3, <1>5, <2>2 DEF ErrorsOK, Y
<1> QED
  BY <1>4, <1>5

\* The sum of the property is that of the lemmas.
LEMMA TransmitErrorsAreThose ==
    ASSUME IsFiniteSet(executions), NEW n, NEW v
    PROVE  TransmitErrors(n, v) = Errors(executions, n, v)
<1> DEFINE S == ErrorsOf(executions, n, v)
           f == Weighed(S)
           w == CHOOSE w : w = [s \in SUBSET S |->
                  IF s = {} THEN 0 ELSE 8 * Pick(s).result.count + w[s \ {Pick(s)}]]
           g == CHOOSE g : Sums(f, S, g)
<1>1. LastRecovery(n, v) = RecoveredAt(executions, n, v)
  BY DEF LastRecovery, RecoveredAt, Recoveries, FaultsOf, Of
<1>2. S = {e \in Of("fault") : /\ e.result.node = n
                               /\ e.result.type = "transmission_error"
                               /\ e.version \in LastRecovery(n, v)..v}
  BY <1>1 DEF ErrorsOf, FaultsOf, Of
<1>3. TransmitErrors(n, v) = w[S]
  <2> HIDE DEF S
  <2> QED
    BY ONLY <1>2 DEF TransmitErrors, MapThenSumSet, MapThenFoldSet, Pick
<1>4. IsFiniteSet(S)
  <2>1. S \subseteq executions
    BY DEF ErrorsOf, FaultsOf
  <2> QED
    BY <2>1, FS_Subset
<1> HIDE DEF S
<1>5. Sums(f, S, g)
  BY <1>4, SumsExist
<1>6. \A s \in SUBSET S : s # {} => f[Pick(s)] = 8 * Pick(s).result.count
  BY DEF Weighed, Pick
<1>7. g = [s \in SUBSET S |-> IF s = {} THEN 0 ELSE 8 * Pick(s).result.count + g[s \ {Pick(s)}]]
  <2> HIDE DEF g
  <2> QED
    BY ONLY <1>5, <1>6 DEF Sums
<1>8. w = [s \in SUBSET S |-> IF s = {} THEN 0 ELSE 8 * Pick(s).result.count + w[s \ {Pick(s)}]]
  <2> HIDE DEF g
  <2> QED
    BY ONLY <1>7
<1>9. Sums(f, S, w)
  <2> HIDE DEF w
  <2> QED
    BY ONLY <1>6, <1>8 DEF Sums
<1>10. w[S] = SumOn(f, S)
  <2> HIDE DEF w
  <2> QED
    BY <1>4, <1>9, SumIsAny
<1> QED
  BY <1>3, <1>10 DEF Errors, S, f

\* The property of the run follows from ErrorsOK.
LEMMA BusOffIsThat ==
    ASSUME IsFiniteSet(executions), FaultsTyped(executions, network.version),
           \A n \in Nodes : network.errors[n].tec \in Tecs,
           ErrorsOK(executions, transmissions, network.errors, network.version)
    PROVE  BusOffIsSilent
<1>1. ASSUME NEW n \in Nodes
      PROVE  IsBusOff(n) <=> TransmitErrors(n, network.version) >= 256
  <2> DEFINE s == Errors(executions, n, network.version)
  <2>1. s \in Int /\ TransmitErrors(n, network.version) = s
        /\ network.errors[n].tec = Min({s, 256})
    BY ErrorsAreNatural, TransmitErrorsAreThose DEF ErrorsOK
  <2> HIDE DEF s
  <2>2. Min({s, 256}) = IF s <= 256 THEN s ELSE 256
    BY <2>1, MinOfTwo
  <2>3. IsBusOff(n) <=> network.errors[n].tec >= 256
    <3>1. network.errors[n].tec \in Nat
      BY CounterRanges
    <3> QED
      BY <3>1 DEF IsBusOff, ErrorMode
  <2> QED
    BY ONLY <2>1, <2>2, <2>3
<1>2. \A t \in transmissions : TransmitErrors(t.contract.producer, t.version) < 256
  BY TransmitErrorsAreThose DEF ErrorsOK
<1> QED
  BY <1>1, <1>2 DEF BusOffIsSilent

-----------------------------------------------------------------------------
(* The inductive invariant                                                   *)

IInv ==
    /\ RowsOK
    /\ VersionsOK(executions, transmissions, catalogue, network.version)
    /\ SequencesOK(executions, transmissions, network.next, network.time)
    /\ ClockOK(executions, transmissions, network.time)
    /\ ErrorsOK(executions, transmissions, network.errors, network.version)

\* A command that stores the executions E and the transmissions T, and the
\* codec's, whose version is that of the network.
Command(E, T) ==
    /\ Change(E, T) /\ Timed(E, T) /\ Counted(E, T)
    /\ SequencesFollow(E, T, network.next, network.time, network'.next, network'.time)

\* The columns of the row of a network.
LEMMA RowTyped ==
    ASSUME network \in NetworkRow
    PROVE  /\ network.version \in Nat \ {0} /\ network.time \in Nat /\ network.next \in Nat \ {0}
           /\ \A n \in Nodes : network.errors[n].tec \in Tecs /\ network.errors[n].rec \in Recs
BY DEF NetworkRow

\* The columns of the row after a command.
LEMMA RowTypedNext ==
    ASSUME network' \in NetworkRow
    PROVE  network'.version \in Nat \ {0} /\ network'.time \in Nat /\ network'.next \in Nat \ {0}
BY DEF NetworkRow

\* A served frame ends no earlier than those before it.
LEMMA EndsGrow ==
    ASSUME NEW f \in Seq(BusRow), NEW first \in Nat, ServedInOrder(f, first)
    PROVE  \A j \in 1..Len(f) : /\ first <= f[j].end
                                /\ \A i \in 1..j : f[i].end <= f[j].end
<1> DEFINE Good(j) == first <= f[j].end /\ \A i \in 1..j : f[i].end <= f[j].end
           C == {j \in 1..Len(f) : ~Good(j)}
<1>1. SUFFICES ASSUME C # {} PROVE FALSE
  OBVIOUS
<1>2. PICK m \in C : \A k \in C : m <= k
  <2>1. C \in SUBSET Nat
    OBVIOUS
  <2> HIDE DEF C
  <2> QED
    BY ONLY <1>1, <2>1, LeastNatural
<1>3. Len(f) \in Nat /\ m \in 1..Len(f) /\ ~Good(m)
  BY <1>2, LenProperties
<1>4. \A i \in 1..Len(f) : f[i].start \in Nat /\ f[i].end \in Nat
  <2>1. \A x \in BusRow : x.start \in Nat /\ x.end \in Nat
    BY DEF BusRow
  <2>2. \A i \in 1..Len(f) : f[i] \in BusRow
    BY ElementOfSeq
  <2> QED
    BY ONLY <2>1, <2>2
<1>5. /\ f[m].start >= FreeAt(f, first, m) /\ f[m].start <= f[m].end
  BY <1>3 DEF ServedInOrder
<1>6. CASE m = 1
  <2>1. first <= f[1].end
    BY <1>3, <1>4, <1>5, <1>6 DEF FreeAt
  <2>2. \A i \in 1..1 : f[i].end <= f[1].end
    BY <1>3, <1>4, <1>6
  <2> QED
    BY <1>3, <1>6, <2>1, <2>2
<1>7. CASE m # 1
  <2>1. m - 1 \in 1..Len(f) /\ ~(m <= m - 1)
    BY <1>3, <1>7
  <2>2. m - 1 \notin C
    BY <1>2, <2>1
  <2>3. first <= f[m - 1].end /\ \A i \in 1..m - 1 : f[i].end <= f[m - 1].end
    BY <2>1, <2>2
  <2>4. f[m - 1].end <= f[m].end
    BY <1>3, <1>4, <1>5, <1>7, <2>1 DEF FreeAt
  <2>5. \A i \in 1..m - 1 : i \in 1..Len(f)
    BY <1>3
  <2>6. first <= f[m].end /\ \A i \in 1..m - 1 : f[i].end <= f[m].end
    BY ONLY <1>3, <1>4, <2>1, <2>3, <2>4, <2>5, first \in Nat
  <2>7. \A i \in 1..m : i = m \/ i \in 1..m - 1
    BY <1>3
  <2>8. Good(m)
    BY <1>3, <1>4, <2>6, <2>7
  <2> QED
    BY <1>3, <2>8
<1> QED
  BY <1>6, <1>7

\* What a stored execution has used is a number.
LEMMA ElapsedIsInt ==
    ASSUME NEW e, Recorded(e)
    PROVE  Elapsed(e) \in Int
<1>1. CASE e.service \in {"fault", "gateway"}
  BY <1>1 DEF Recorded, Elapsed
<1>2. CASE e.service = "arbitrate"
  <2> DEFINE f == e.result.frames
  <2>1. f \in Seq(BusRow) /\ Len(f) > 0 /\ e.result.start \in Nat
    BY <1>2 DEF Recorded
  <2> HIDE DEF f
  <2>2. Len(f) \in 1..Len(f)
    BY <2>1, LenProperties
  <2>3. Last(f).end \in Nat
    <3>1. f[Len(f)] \in BusRow
      BY ONLY <2>1, <2>2, ElementOfSeq
    <3>2. \A x \in BusRow : x.end \in Nat
      BY DEF BusRow
    <3> QED
      BY <3>1, <3>2 DEF Last
  <2>4. Elapsed(e) = Last(f).end - e.result.start
    BY <1>2 DEF Elapsed, f
  <2> QED
    BY <2>1, <2>3, <2>4
<1>3. CASE e.service = "campaign"
  <2> DEFINE f == e.result.trace
  <2>1. f \in Seq(TraceRow) /\ Len(f) > 0 /\ e.result.start \in Nat
    BY <1>3 DEF Recorded
  <2> HIDE DEF f
  <2>2. Len(f) \in 1..Len(f)
    BY <2>1, LenProperties
  <2>3. Last(f).end \in Nat
    <3>1. f[Len(f)] \in TraceRow
      BY ONLY <2>1, <2>2, ElementOfSeq
    <3>2. \A x \in TraceRow : x.end \in Nat
      BY DEF TraceRow
    <3> QED
      BY <3>1, <3>2 DEF Last
  <2>4. Elapsed(e) = Last(f).end - e.result.start
    BY <1>3 DEF Elapsed, f
  <2> QED
    BY <2>1, <2>3, <2>4
<1>4. CASE e.service = "codec"
  BY <1>4 DEF Elapsed
<1> QED
  BY <1>1, <1>2, <1>3, <1>4 DEF Recorded

\* No stored row has a version that the network has not reached.
LEMMA RowsVersioned ==
    ASSUME IInv
    PROVE  /\ \A e \in executions : e.service # "codec" => e.version \in 2..network.version
           /\ \A t \in transmissions : t.version \in 2..network.version
           /\ FaultsTyped(executions, network.version)
<1>1. {e.version : e \in Changes(executions)} \cup {t.version : t \in transmissions}
        \subseteq 2..network.version
  BY DEF IInv, VersionsOK
<1>2. \A e \in executions : e.service # "codec" => e.version \in 2..network.version
  BY <1>1 DEF Changes
<1>3. \A t \in transmissions : t.version \in 2..network.version
  BY <1>1
<1>4. \A e \in executions : Recorded(e)
  BY DEF IInv, RowsOK
<1>5. FaultsTyped(executions, network.version)
  BY <1>2, <1>4 DEF FaultsTyped, FaultsOf, Recorded
<1> QED
  BY <1>2, <1>3, <1>5

\* Every command keeps the invariant.
LEMMA CommandKeeps ==
    ASSUME IInv, NEW E, NEW T, Command(E, T)
    PROVE  IInv'
<1>1. /\ workload \in Workloads /\ network \in NetworkRow /\ IsFiniteSet(executions)
      /\ (\A e \in executions : Recorded(e))
      /\ IsFiniteSet(transmissions) /\ \A t \in transmissions : Sent(t)
  BY DEF IInv, RowsOK
<1>2. /\ VersionsOK(executions, transmissions, catalogue, network.version)
      /\ SequencesOK(executions, transmissions, network.next, network.time)
      /\ ClockOK(executions, transmissions, network.time)
      /\ ErrorsOK(executions, transmissions, network.errors, network.version)
  BY DEF IInv
<1>3. /\ network.version <= workload.commands /\ network'.version = network.version + 1
      /\ network' \in NetworkRow /\ DestinationsDeclared' /\ workload' = workload
      /\ executions' = executions \cup E /\ transmissions' = transmissions \cup T
      /\ \A e \in E : e.service # "codec" /\ e.version = network.version + 1 /\ Recorded(e)
      /\ \A t \in T : t.version = network.version + 1 /\ Sent(t)
      /\ \A t \in T : \A u \in transmissions \cup T : t.id = u.id => t = u
      /\ IsFiniteSet(E) /\ IsFiniteSet(T)
      /\ \/ (\E e : E = {e} /\ (T = {} \/ e.service = "arbitrate")) /\ catalogue' = catalogue
         \/ E = {} /\ (\E t : T = {t}) /\ catalogue' = catalogue
         \/ /\ E = {} /\ T = {}
            /\ catalogue = None /\ catalogue' # None /\ catalogue'.version = network.version + 1
  BY DEF Command, Change
<1>4. /\ network.version \in Nat \ {0} /\ network.time \in Nat /\ network.next \in Nat \ {0}
      /\ network'.version \in Nat \ {0} /\ network'.time \in Nat /\ network'.next \in Nat \ {0}
      /\ \A n \in Nodes : network.errors[n].tec \in Tecs
  <2>1. network' \in NetworkRow
    BY ONLY <1>3
  <2>2. network'.version \in Nat \ {0} /\ network'.time \in Nat /\ network'.next \in Nat \ {0}
    BY ONLY <2>1, RowTypedNext
  <2> QED
    BY ONLY <1>1, <2>2, RowTyped
<1>5. /\ \A e \in executions : e.service # "codec" => e.version \in 2..network.version
      /\ \A t \in transmissions : t.version \in 2..network.version
      /\ FaultsTyped(executions, network.version)
  BY RowsVersioned
<1>6. RowsOK'
  <2>1. IsFiniteSet(executions') /\ IsFiniteSet(transmissions')
    BY <1>1, <1>3, FS_Union
  <2>2. network'.version <= workload'.commands + 1
    <3>1. workload.commands \in Nat
      BY <1>1, NetworkAssumption
    <3> QED
      BY <1>3, <1>4, <3>1
  <2>3. (\A e \in executions' : Recorded(e)) /\ \A t \in transmissions' : Sent(t)
    BY ONLY <1>1, <1>3
  <2> QED
    BY <1>1, <1>3, <2>1, <2>2, <2>3 DEF RowsOK
<1>7. VersionsOK(executions', transmissions', catalogue', network'.version)
  <2>1. VersionsOK(executions \cup E, transmissions \cup T, catalogue', network.version + 1)
    <3>1. /\ IsFiniteSet(executions) /\ IsFiniteSet(transmissions)
          /\ network.version \in Nat \ {0}
          /\ VersionsOK(executions, transmissions, catalogue, network.version)
      BY ONLY <1>1, <1>2, <1>4
    <3>2. /\ IsFiniteSet(E) /\ IsFiniteSet(T)
          /\ \A e \in E : e.service # "codec" /\ e.version = network.version + 1
          /\ \A t \in T : t.version = network.version + 1
          /\ \A t \in T : \A u \in transmissions \cup T : t.id = u.id => t = u
      BY ONLY <1>3
    <3>3. \/ (\E e : E = {e} /\ (T = {} \/ e.service = "arbitrate")) /\ catalogue' = catalogue
          \/ E = {} /\ (\E t : T = {t}) /\ catalogue' = catalogue
          \/ /\ E = {} /\ T = {}
             /\ catalogue = None /\ catalogue' # None /\ catalogue'.version = network.version + 1
      BY ONLY <1>3
    <3> QED
      BY ONLY <3>1, <3>2, <3>3, VersionsGrow
  <2> QED
    BY ONLY <1>3, <2>1
<1>8. SequencesOK(executions', transmissions', network'.next, network'.time)
  <2>1. SequencesFollow(E, T, network.next, network.time, network'.next, network'.time)
    BY DEF Command
  <2>2. SequencesOK(executions \cup E, transmissions \cup T, network'.next, network'.time)
    BY ONLY <1>2, <1>4, <2>1, SequencesGrow
  <2> QED
    BY ONLY <1>3, <2>2
<1>9. ClockOK(executions', transmissions', network'.time)
  <2>1. (\A e \in executions : Elapsed(e) \in Int) /\ \A t \in transmissions : t.advance \in Int
    BY <1>1, ElapsedIsInt DEF Sent
  <2>2. E \cap executions = {} /\ T \cap transmissions = {}
    BY <1>3, <1>4, <1>5
  <2>3. \/ \E e : /\ E = {e} /\ network'.time = network.time + Elapsed(e) /\ Elapsed(e) \in Int
                  /\ \A t \in T : t.advance = 0
        \/ E = {} /\ \E t : T = {t} /\ network'.time = network.time + t.advance /\ t.advance \in Int
        \/ E = {} /\ T = {} /\ network'.time = network.time
    BY <1>3 DEF Command, Timed, Sent
  <2>4. ClockOK(executions \cup E, transmissions \cup T, network'.time)
    BY ONLY <1>1, <1>2, <1>3, <2>1, <2>2, <2>3, ClockMoves
  <2> QED
    BY ONLY <1>3, <2>4
<1>10. ErrorsOK(executions', transmissions', network'.errors, network'.version)
  <2>1. /\ \A t \in T : network.errors[t.contract.producer].tec < 256
        /\ \/ (\A e \in E : e.service # "fault") /\ network'.errors = network.errors
           \/ \E e : E = {e} /\ e.service = "fault" /\ Moved(e, network.errors, network'.errors)
    BY DEF Command, Counted
  <2>2. \A t \in T : t.contract.producer \in Nodes
    BY <1>3, ContractTyped DEF Sent
  <2>3. \A e \in E : e.service = "fault" => T = {} /\ e.result.count \in Nat
    BY <1>3 DEF Recorded
  <2>4. \A t \in transmissions : t.version \in 1..network.version
    BY <1>4, <1>5
  <2>5. ErrorsOK(executions \cup E, transmissions \cup T, network'.errors, network.version + 1)
    <3>1. CASE (\A e \in E : e.service # "fault") /\ network'.errors = network.errors
      BY ONLY <1>1, <1>2, <1>3, <1>4, <1>5, <2>1, <2>2, <2>4, <3>1, ErrorsGrow
    <3>2. CASE ~((\A e \in E : e.service # "fault") /\ network'.errors = network.errors)
      <4>1. PICK e : E = {e} /\ e.service = "fault" /\ Moved(e, network.errors, network'.errors)
        BY ONLY <2>1, <3>2
      <4>2. T = {} /\ e.result.count \in Nat
        BY ONLY <2>3, <4>1
      <4> QED
        BY ONLY <1>1, <1>2, <1>3, <1>4, <1>5, <2>4, <4>1, <4>2, ErrorsGrow
    <3> QED
      BY <3>1, <3>2
  <2> QED
    BY ONLY <1>3, <2>5
<1> QED
  BY ONLY <1>6, <1>7, <1>8, <1>9, <1>10 DEF IInv

\* The codec's results are no change of the network.
LEMMA CodecKeeps ==
    ASSUME IInv, CodecStores
    PROVE  IInv'
<1>1. PICK e : executions' = executions \cup {e} /\ e.service = "codec" /\ Recorded(e)
  BY DEF CodecStores
<1>2. /\ network' = network /\ transmissions' = transmissions /\ catalogue' = catalogue
      /\ workload' = workload
  BY DEF CodecStores
<1>3. /\ RowsOK
      /\ VersionsOK(executions, transmissions, catalogue, network.version)
      /\ SequencesOK(executions, transmissions, network.next, network.time)
      /\ ClockOK(executions, transmissions, network.time)
      /\ ErrorsOK(executions, transmissions, network.errors, network.version)
  BY DEF IInv
<1>4. IsFiniteSet(executions) /\ IsFiniteSet(transmissions) /\ \A x \in executions : Recorded(x)
  BY <1>3 DEF RowsOK
<1>5. RowsOK'
  <2>1. IsFiniteSet(executions') /\ \A x \in executions' : Recorded(x)
    BY <1>1, <1>4, FS_AddElement
  <2>2. DestinationsDeclared'
    BY <1>2, <1>3 DEF RowsOK, DestinationsDeclared, Named, Declared
  <2> QED
    BY <1>2, <1>3, <2>1, <2>2 DEF RowsOK
<1>6. VersionsOK(executions', transmissions', catalogue', network'.version)
  <2>1. Changes(executions') = Changes(executions)
    BY <1>1 DEF Changes
  <2>2. Frames(executions', transmissions) = Frames(executions, transmissions)
    BY <1>1 DEF Frames
  <2> QED
    BY ONLY <1>2, <1>3, <2>1, <2>2 DEF VersionsOK
<1>7. SequencesOK(executions', transmissions', network'.next, network'.time)
  <2>1. Pairs(executions', transmissions) = Pairs(executions, transmissions)
    BY <1>1 DEF Pairs, CampaignPairs
  <2>2. Routed(executions') = Routed(executions)
    BY <1>1 DEF Routed
  <2> QED
    BY ONLY <1>2, <1>3, <2>1, <2>2 DEF SequencesOK
<1>8. ClockOK(executions', transmissions', network'.time)
  <2>1. CASE e \in executions
    <3>1. executions' = executions
      BY <1>1, <2>1
    <3> QED
      BY ONLY <1>2, <1>3, <3>1
  <2>2. CASE e \notin executions
    <3>1. (\A x \in executions : Elapsed(x) \in Int) /\ \A t \in transmissions : t.advance \in Int
      BY <1>3, ElapsedIsInt DEF RowsOK, Sent
    <3>2. Elapsed(e) = 0 /\ network.time = network.time + Elapsed(e)
      <4>1. Elapsed(e) = 0 /\ network.time \in Nat
        BY <1>1, <1>3, RowTyped DEF Elapsed, RowsOK
      <4> QED
        BY ONLY <4>1
    <3> DEFINE E == {e}
               T == {}
    <3>3. /\ E = {e} /\ E \cap executions = {} /\ T \cap transmissions = {} /\ IsFiniteSet(T)
          /\ (\A t \in T : t.advance = 0) /\ Elapsed(e) \in Int
          /\ executions' = executions \cup E /\ transmissions = transmissions \cup T
      BY <1>1, <2>2, <3>2, FS_EmptySet
    <3> HIDE DEF E, T
    <3>4. ClockOK(executions \cup E, transmissions \cup T, network.time)
      BY ONLY <1>3, <1>4, <3>1, <3>2, <3>3, ClockMoves
    <3> QED
      BY ONLY <1>2, <3>3, <3>4
  <2> QED
    BY <2>1, <2>2
<1>9. ErrorsOK(executions', transmissions', network'.errors, network'.version)
  <2>1. FaultsOf(executions') = FaultsOf(executions)
    BY <1>1 DEF FaultsOf
  <2>2. \A n, v : Recoveries(executions', n, v) = Recoveries(executions, n, v)
    BY <2>1 DEF Recoveries
  <2>3. \A n, v : ErrorsOf(executions', n, v) = ErrorsOf(executions, n, v)
    BY <2>1, <2>2 DEF ErrorsOf, RecoveredAt
  <2>4. \A n, v : Errors(executions', n, v) = Errors(executions, n, v)
    BY <2>3 DEF Errors
  <2> QED
    BY ONLY <1>2, <1>3, <2>4 DEF ErrorsOK
<1> QED
  BY ONLY <1>5, <1>6, <1>7, <1>8, <1>9 DEF IInv

\* A network that was just created has the invariant.
LEMMA InitHolds ==
    ASSUME Init
    PROVE  IInv
<1>1. /\ network = [version |-> 1, time |-> 0, next |-> 1, routes |-> {}, lin |-> {},
                    ethernet |-> {}, errors |-> [n \in Nodes |-> NoErrors]]
      /\ transmissions = {} /\ executions = {} /\ catalogue = None /\ workload \in Workloads
  BY DEF Init, CreateNetwork
<1>2. RowsOK
  <2>1. network \in NetworkRow
    BY <1>1, CounterRanges DEF NetworkRow, NoErrors
  <2>2. DestinationsDeclared
    BY <1>1 DEF DestinationsDeclared
  <2>3. network.version <= workload.commands + 1
    <3>1. workload.commands \in Nat
      BY <1>1, NetworkAssumption
    <3> QED
      BY <1>1, <3>1
  <2> QED
    BY <1>1, <2>1, <2>2, <2>3, FS_EmptySet DEF RowsOK
<1>3. VersionsOK(executions, transmissions, catalogue, network.version)
  <2>1. Changes({}) = {} /\ Frames({}, {}) = {} /\ Cardinality({}) = 0
    BY FS_EmptySet DEF Changes, Frames
  <2>2. 2..1 = {}
    OBVIOUS
  <2> QED
    BY <1>1, <2>1, <2>2 DEF VersionsOK
<1>4. SequencesOK(executions, transmissions, network.next, network.time)
  <2>1. Pairs({}, {}) = {} /\ Routed({}) = {} /\ IsFiniteSet({})
    BY FS_EmptySet DEF Pairs, FramePairs, CampaignPairs, Routed
  <2>2. 1..1 - 1 = {}
    OBVIOUS
  <2> QED
    BY <1>1, <2>1, <2>2 DEF SequencesOK
<1>5. ClockOK(executions, transmissions, network.time)
  <2>1. SumOn(ElapsedOf({}), {}) = 0 /\ SumOn(AdvanceOf({}), {}) = 0
    BY SumEmpty
  <2> QED
    BY <1>1, <2>1 DEF ClockOK
<1>6. ErrorsOK(executions, transmissions, network.errors, network.version)
  <2>1. \A n : Errors({}, n, 1) = 0
    <3>1. \A n : ErrorsOf({}, n, 1) = {}
      BY DEF ErrorsOf, FaultsOf
    <3> QED
      BY <3>1, SumEmpty DEF Errors
  <2>2. Min({0, 256}) = IF 0 <= 256 THEN 0 ELSE 256
    BY ONLY 0 \in Int, 256 \in Int, MinOfTwo
  <2>3. \A n \in Nodes : network.errors[n].tec = 0
    BY <1>1 DEF NoErrors
  <2> QED
    BY <1>1, <2>1, <2>2, <2>3 DEF ErrorsOK
<1> QED
  BY ONLY <1>2, <1>3, <1>4, <1>5, <1>6 DEF IInv

\* The invariant implies the property of the histories.
LEMMA HistoryFollows ==
    ASSUME IInv
    PROVE  HistoryIsOne
<1>1. /\ RowsOK
      /\ VersionsOK(executions, transmissions, catalogue, network.version)
      /\ SequencesOK(executions, transmissions, network.next, network.time)
      /\ ClockOK(executions, transmissions, network.time)
  BY DEF IInv
<1>2. /\ workload \in Workloads /\ network \in NetworkRow
      /\ network.version <= workload.commands + 1
      /\ IsFiniteSet(executions) /\ \A e \in executions : Recorded(e)
      /\ IsFiniteSet(transmissions) /\ \A t \in transmissions : Sent(t)
  BY <1>1 DEF RowsOK
<1>3. TypeOK
  <2>1. network.version \in 1..workload.commands + 1
    <3>1. workload.commands \in Nat /\ network.version \in Nat \ {0}
      BY <1>2, NetworkAssumption, RowTyped
    <3> QED
      BY <1>2, <3>1
  <2>2. network.time \in Nat /\ network.errors \in [Nodes -> [tec : Tecs, rec : Recs]]
    BY <1>2 DEF NetworkRow
  <2>3. \A e \in executions : e.service \in Services \cup {"codec"}
    BY <1>2 DEF Recorded, Services
  <2>4. \A t \in transmissions : t.contract \in Contracts
    BY <1>2 DEF Sent
  <2> QED
    BY ONLY <2>1, <2>2, <2>3, <2>4 DEF TypeOK, Tecs, Recs
<1>4. VersionsAreOneHistory
  BY <1>1, VersionsAreThose
<1>5. SequencesAreOneHistory
  BY <1>1, <1>2, RowTyped, SequencesAreThose
<1>6. ClockAccountsForCommands
  <2>1. network.time = MapThenSumSet(Elapsed, executions)
                         + MapThenSumSet(LAMBDA t : t.advance, transmissions)
    BY <1>1, <1>2, SumsOfTheClock DEF ClockOK
  <2>2. \A e \in Of("campaign") : e.result.status = "passed" =>
          \A i \in DOMAIN e.result.trace :
             /\ e.result.trace[i].sequence # None
             /\ e.result.trace[i].end - e.result.trace[i].start <= Budget
    BY <1>2 DEF Of, Recorded
  <2> QED
    BY ONLY <2>1, <2>2 DEF ClockAccountsForCommands
<1> QED
  BY ONLY <1>3, <1>4, <1>5, <1>6 DEF HistoryIsOne

\* The invariant implies the property of the frames.
LEMMA FramesFollow ==
    ASSUME IInv
    PROVE  FramesAreSound
<1>1. /\ RowsOK
      /\ ErrorsOK(executions, transmissions, network.errors, network.version)
      /\ FaultsTyped(executions, network.version)
  BY RowsVersioned DEF IInv
<1>2. /\ network \in NetworkRow
      /\ IsFiniteSet(executions) /\ \A e \in executions : Recorded(e)
      /\ \A t \in transmissions : Sent(t)
  BY <1>1 DEF RowsOK
<1>3. BusOffIsSilent
  BY <1>1, <1>2, RowTyped, BusOffIsThat
<1>4. ASSUME NEW e \in executions, e.service = "arbitrate",
             NEW i \in DOMAIN e.result.frames
      PROVE  LET f == e.result.frames
                 free == IF i = 1 THEN e.result.start ELSE f[i - 1].end
             IN  /\ f[i].start >= free /\ f[i].start >= f[i].ready
                 /\ \A j \in i..Len(f) : f[j].ready >= f[i].start \/ f[i].start = free
                 /\ \A j \in i + 1..Len(f) :
                      ~(f[j].ready <= f[i].start /\ Precedes(f[j].contract, f[i].contract))
  <2> DEFINE f == e.result.frames
             first == e.result.start
  <2>1. f \in Seq(BusRow) /\ ServedInOrder(f, first)
    BY <1>2, <1>4 DEF Recorded
  <2>2. i \in 1..Len(f) /\ Len(f) \in Nat
    BY <2>1, LenProperties
  <2> HIDE DEF f, first
  <2>3. /\ f[i].start >= FreeAt(f, first, i) /\ f[i].start >= f[i].ready
        /\ f[i].ready >= f[i].start \/ f[i].start = FreeAt(f, first, i)
        /\ \A j \in i + 1..Len(f) : WaitsFor(f[j], f, first, i)
    BY <2>1, <2>2 DEF ServedInOrder
  <2>4. \A j \in i..Len(f) : j = i \/ j \in i + 1..Len(f)
    BY <2>2
  <2>5. \A j \in i..Len(f) : f[j].ready >= f[i].start \/ f[i].start = FreeAt(f, first, i)
    BY <2>3, <2>4 DEF WaitsFor
  <2>6. \A j \in i + 1..Len(f) :
           ~(f[j].ready <= f[i].start /\ Precedes(f[j].contract, f[i].contract))
    BY <2>3 DEF WaitsFor
  <2> QED
    BY <2>3, <2>5, <2>6 DEF FreeAt, f, first
<1>5. \A t \in transmissions : t.payload = t.contract.id
  BY <1>2 DEF Sent
<1>6. ArbitrationIsSound
  BY <1>4, <1>5 DEF ArbitrationIsSound, Of
<1> QED
  BY <1>3, <1>6 DEF FramesAreSound

-----------------------------------------------------------------------------
(* Every action is such a command                                            *)

\* A stored execution is one more row.
LEMMA StoreAdds ==
    ASSUME NEW s, NEW r, Store(s, r)
    PROVE  \E e : /\ executions' = executions \cup {e} /\ e.service = s
                  /\ e.version = network'.version /\ e.result = r
<1> DEFINE e == [service |-> s, id |-> NextId(s), previous |-> network.version,
                 version |-> network'.version, result |-> r]
<1>1. executions' = executions \cup {e}
  BY DEF Store
<1>2. e.service = s /\ e.version = network'.version /\ e.result = r
  OBVIOUS
<1> HIDE DEF e
<1> QED
  BY ONLY <1>1, <1>2

\* A command moves the version, the next sequence and the clock of the row.
LEMMA RowMoves ==
    ASSUME network \in NetworkRow, NEW v \in Nat \ {0}, NEW m \in Nat \ {0}, NEW t \in Nat,
           network' = [network EXCEPT !.version = v, !.next = m, !.time = t]
    PROVE  /\ network' \in NetworkRow
           /\ network'.version = v /\ network'.next = m /\ network'.time = t
           /\ network'.errors = network.errors /\ network'.routes = network.routes
           /\ network'.lin = network.lin /\ network'.ethernet = network.ethernet
<1> DEFINE A == Nat \ {0}
           R == SUBSET UNION {g.routes : g \in Configurations}
           B == SUBSET BusFrame
           E == [Nodes -> [tec : Tecs, rec : Recs]]
<1>1. NetworkRow = [version : A, time : Nat, next : A, routes : R, lin : B, ethernet : B, errors : E]
  BY DEF NetworkRow
<1>2. v \in A /\ m \in A
  OBVIOUS
<1> HIDE DEF A, R, B, E
<1> QED
  BY ONLY <1>1, <1>2, network \in NetworkRow, t \in Nat,
          network' = [network EXCEPT !.version = v, !.next = m, !.time = t]

\* Destinations stay declared while the configuration stays.
LEMMA RoutesStay ==
    ASSUME DestinationsDeclared, network'.routes = network.routes,
           network'.lin = network.lin, network'.ethernet = network.ethernet
    PROVE  DestinationsDeclared'
BY DEF DestinationsDeclared, Named, Declared

\* What clients wait and how often they may is given in numbers.
LEMMA AdvancesAreNatural ==
    ASSUME workload \in Workloads
    PROVE  Advances \subseteq Nat /\ workload.advances \subseteq Nat /\ workload.commands \in Nat
BY NetworkAssumption DEF Advances

\* A command that sends nothing uses no sequence.
LEMMA NothingFollows ==
    ASSUME NEW E, \A e \in E : e.service \notin {"campaign", "gateway"},
           NEW n \in Nat, NEW c \in Nat, NEW d \in Nat, c <= d
    PROVE  SequencesFollow(E, {}, n, c, n, d)
<1>1. Pairs(E, {}) = {} /\ Routed(E) = {}
  BY DEF Pairs, FramePairs, CampaignPairs, Routed
<1>2. n..n - 1 = {} /\ IsFiniteSet({})
  BY FS_EmptySet
<1> QED
  BY ONLY <1>1, <1>2, n \in Nat, c <= d DEF SequencesFollow

\* A fault stores one execution and moves the counters of its node.
LEMMA InjectFaultCommands ==
    ASSUME IInv, NEW c \in Contracts, NEW n \in Nodes, NEW count \in Occurrences,
           NEW a \in Advances, NEW type \in {"transmission_error", "reception_error", "frame_loss"},
           InjectFault(c, n, type, count, a)
    PROVE  \E E, T : Command(E, T)
<1> DEFINE before == network.errors[n]
           elapsed == a + BitTime(IF type = "frame_loss" THEN 0 ELSE 14 * count, Bitrate)
           tec == before.tec + (IF type = "transmission_error" THEN 8 * count ELSE 0)
           rec == before.rec + (IF type = "reception_error" THEN count ELSE 0)
           er == [network.errors EXCEPT ![n] = [tec |-> Min({tec, 256}), rec |-> Min({rec, 255})]]
           result == [node |-> n, type |-> type, count |-> count, elapsed |-> elapsed]
<1>1. /\ Uses("fault")
      /\ network' = [network EXCEPT !.version = @ + 1, !.time = @ + elapsed, !.errors = er]
      /\ Store("fault", result)
      /\ transmissions' = transmissions /\ catalogue' = catalogue /\ workload' = workload
  BY DEF InjectFault, WithErrors
<1>2. /\ workload \in Workloads /\ network \in NetworkRow /\ DestinationsDeclared
  BY DEF IInv, RowsOK
<1>3. /\ network.version \in Nat \ {0} /\ network.time \in Nat /\ network.next \in Nat \ {0}
      /\ before.tec \in Tecs /\ before.rec \in Recs
      /\ a \in Nat /\ count \in Nat
  <2>1. /\ network.version \in Nat \ {0} /\ network.time \in Nat /\ network.next \in Nat \ {0}
        /\ before.tec \in Tecs /\ before.rec \in Recs
    BY ONLY <1>2, n \in Nodes, RowTyped
  <2>2. a \in Nat
    BY <1>2, AdvancesAreNatural
  <2>3. count \in 1..32
    BY NetworkAssumption
  <2>4. count \in Nat
    BY ONLY <2>3
  <2> QED
    BY ONLY <2>1, <2>2, <2>4
<1>4. elapsed \in Nat
  <2> DEFINE bits == IF type = "frame_loss" THEN 0 ELSE 14 * count
  <2>1. bits \in Nat
    BY <1>3
  <2> HIDE DEF bits
  <2>2. BitTime(bits, Bitrate) \in Nat
    BY <2>1, RatesAreNatural, BitTimeIsNatural
  <2>3. elapsed = a + BitTime(bits, Bitrate)
    BY DEF bits
  <2> QED
    BY ONLY <1>3, <2>2, <2>3
<1>5. tec \in Nat /\ rec \in Nat
  <2> HIDE DEF before
  <2>1. before.tec \in Nat /\ before.rec \in Nat
    BY ONLY <1>3, CounterRanges
  <2>2. tec \in Nat
    BY ONLY <1>3, <2>1
  <2>3. rec \in Nat
    BY ONLY <1>3, <2>1
  <2> QED
    BY ONLY <2>2, <2>3
<1>6. Min({tec, 256}) \in Tecs /\ Min({rec, 255}) \in Recs
      /\ (type # "transmission_error" => Min({tec, 256}) = before.tec)
  <2>1. type # "transmission_error" => tec = before.tec
    <3>1. before.tec + 0 = before.tec
      <4> HIDE DEF before
      <4> QED
        BY ONLY <1>3, CounterRanges
    <3> QED
      BY ONLY <3>1
  <2> HIDE DEF before, tec, rec
  <2>2. Min({tec, 256}) = IF tec <= 256 THEN tec ELSE 256
    BY ONLY <1>5, 256 \in Int, MinOfTwo
  <2>3. Min({rec, 255}) = IF rec <= 255 THEN rec ELSE 255
    BY ONLY <1>5, 255 \in Int, MinOfTwo
  <2>4. Min({tec, 256}) \in Tecs /\ Min({rec, 255}) \in Recs
    BY ONLY <1>5, <2>2, <2>3, CounterRanges
  <2>5. before.tec \in Nat /\ before.tec <= 256
    BY ONLY <1>3, CounterRanges
  <2> QED
    BY ONLY <2>1, <2>2, <2>4, <2>5
<1> HIDE DEF elapsed
<1>7. /\ network'.version = network.version + 1 /\ network'.time = network.time + elapsed
      /\ network'.next = network.next /\ network'.errors = er
      /\ network'.routes = network.routes /\ network'.lin = network.lin
      /\ network'.ethernet = network.ethernet /\ network' \in NetworkRow
  <2>1. network.errors \in [Nodes -> [tec : Tecs, rec : Recs]]
    BY <1>2 DEF NetworkRow
  <2>2. er \in [Nodes -> [tec : Tecs, rec : Recs]]
    <3> HIDE DEF tec, rec
    <3> QED
      BY <1>6, <2>1
  <2>3. network.time + elapsed \in Nat /\ network.version + 1 \in Nat \ {0}
    BY <1>3, <1>4
  <2> HIDE DEF er
  <2> QED
    BY <1>1, <1>2, <2>2, <2>3 DEF NetworkRow
<1>8. PICK e : /\ executions' = executions \cup {e} /\ e.service = "fault"
               /\ e.version = network'.version /\ e.result = result
  BY <1>1, StoreAdds
<1>9. /\ e.result.node = n /\ e.result.type = type /\ e.result.count = count
      /\ e.result.elapsed = elapsed
  BY <1>8
<1> HIDE DEF result
<1>10. Recorded(e)
  BY <1>3, <1>4, <1>8, <1>9 DEF Recorded
<1> DEFINE E == {e}
           T == {}
<1>11. Change(E, T)
  <2>1. DestinationsDeclared'
    BY <1>2, <1>7, RoutesStay
  <2>2. network.version <= workload.commands
    BY <1>1 DEF Uses
  <2>3. IsFiniteSet(E) /\ IsFiniteSet(T)
    BY OneMember, FS_EmptySet
  <2> QED
    BY <1>1, <1>7, <1>8, <1>10, <2>1, <2>2, <2>3 DEF Change
<1>12. Timed(E, T)
  <2>1. Elapsed(e) = elapsed
    BY <1>8, <1>9 DEF Elapsed
  <2> QED
    BY <1>4, <1>7, <2>1 DEF Timed
<1>13. Counted(E, T)
  <2>1. Moved(e, network.errors, network'.errors)
    <3> SUFFICES ASSUME NEW m \in Nodes
                 PROVE  network'.errors[m].tec =
                          IF m # n THEN network.errors[m].tec
                          ELSE CASE type = "recover" -> 0
                                 [] type = "transmission_error" ->
                                      Min({network.errors[m].tec + 8 * count, 256})
                                 [] OTHER -> network.errors[m].tec
      BY <1>9 DEF Moved
    <3>1. DOMAIN network.errors = Nodes
      BY <1>2 DEF NetworkRow
    <3>2. CASE m # n
      BY <1>7, <3>1, <3>2
    <3>3. CASE m = n
      <4>1. network'.errors[m].tec = Min({tec, 256})
        BY <1>7, <3>1, <3>3
      <4>2. CASE type = "transmission_error"
        BY <3>3, <4>1, <4>2
      <4>3. CASE type # "transmission_error"
        BY <1>6, <3>3, <4>1, <4>3
      <4> QED
        BY <4>2, <4>3
    <3> QED
      BY <3>2, <3>3
  <2> QED
    BY <1>8, <2>1 DEF Counted
<1>14. SequencesFollow(E, T, network.next, network.time, network'.next, network'.time)
  <2>1. network.time + elapsed \in Nat /\ network.time <= network.time + elapsed
    BY <1>3, <1>4
  <2>2. \A x \in E : x.service \notin {"campaign", "gateway"}
    BY <1>8
  <2> QED
    BY <1>3, <1>7, <2>1, <2>2, NothingFollows
<1> QED
  BY <1>11, <1>12, <1>13, <1>14 DEF Command

\* A recovery stores one execution and resets the counters of its node.
LEMMA RecoverNodeCommands ==
    ASSUME IInv, NEW n \in Nodes, RecoverNode(n)
    PROVE  \E E, T : Command(E, T)
<1> DEFINE elapsed == BitTime(128 * 11, Bitrate)
           er == [network.errors EXCEPT ![n] = [tec |-> Min({0, 256}), rec |-> Min({0, 255})]]
           result == [node |-> n, type |-> "recover", count |-> 0, elapsed |-> elapsed]
<1>1. /\ Uses("fault")
      /\ network' = [network EXCEPT !.version = @ + 1, !.time = @ + elapsed, !.errors = er]
      /\ Store("fault", result)
      /\ transmissions' = transmissions /\ catalogue' = catalogue /\ workload' = workload
  BY DEF RecoverNode, WithErrors
<1>2. /\ workload \in Workloads /\ network \in NetworkRow /\ DestinationsDeclared
  BY DEF IInv, RowsOK
<1>3. /\ network.version \in Nat \ {0} /\ network.time \in Nat /\ network.next \in Nat \ {0}
  BY <1>2, RowTyped
<1>4. elapsed \in Nat
  <2>1. 128 * 11 \in Nat
    OBVIOUS
  <2> QED
    BY ONLY <2>1, RatesAreNatural, BitTimeIsNatural
<1>5. Min({0, 256}) = 0 /\ Min({0, 255}) = 0
  <2>1. Min({0, 256}) = IF 0 <= 256 THEN 0 ELSE 256
    BY ONLY 0 \in Int, 256 \in Int, MinOfTwo
  <2>2. Min({0, 255}) = IF 0 <= 255 THEN 0 ELSE 255
    BY ONLY 0 \in Int, 255 \in Int, MinOfTwo
  <2> QED
    BY ONLY <2>1, <2>2
<1> HIDE DEF elapsed
<1>7. /\ network'.version = network.version + 1 /\ network'.time = network.time + elapsed
      /\ network'.next = network.next /\ network'.errors = er
      /\ network'.routes = network.routes /\ network'.lin = network.lin
      /\ network'.ethernet = network.ethernet /\ network' \in NetworkRow
  <2>1. network.errors \in [Nodes -> [tec : Tecs, rec : Recs]]
    BY <1>2 DEF NetworkRow
  <2>2. er \in [Nodes -> [tec : Tecs, rec : Recs]]
    <3>1. 0 \in Tecs /\ 0 \in Recs
      BY ONLY CounterRanges
    <3> QED
      BY <1>5, <2>1, <3>1
  <2>3. network.time + elapsed \in Nat /\ network.version + 1 \in Nat \ {0}
    BY <1>3, <1>4
  <2> HIDE DEF er
  <2> QED
    BY <1>1, <1>2, <2>2, <2>3 DEF NetworkRow
<1>8. PICK e : /\ executions' = executions \cup {e} /\ e.service = "fault"
               /\ e.version = network'.version /\ e.result = result
  BY <1>1, StoreAdds
<1>9. /\ e.result.node = n /\ e.result.type = "recover" /\ e.result.count = 0
      /\ e.result.elapsed = elapsed
  BY <1>8
<1> HIDE DEF result
<1>10. Recorded(e)
  BY <1>4, <1>8, <1>9 DEF Recorded
<1> DEFINE E == {e}
           T == {}
<1>11. Change(E, T)
  <2>1. DestinationsDeclared'
    BY <1>2, <1>7, RoutesStay
  <2>2. network.version <= workload.commands
    BY <1>1 DEF Uses
  <2>3. IsFiniteSet(E) /\ IsFiniteSet(T)
    BY OneMember, FS_EmptySet
  <2> QED
    BY <1>1, <1>7, <1>8, <1>10, <2>1, <2>2, <2>3 DEF Change
<1>12. Timed(E, T)
  <2>1. Elapsed(e) = elapsed
    BY <1>8, <1>9 DEF Elapsed
  <2> QED
    BY <1>4, <1>7, <2>1 DEF Timed
<1>13. Counted(E, T)
  <2>1. Moved(e, network.errors, network'.errors)
    <3> SUFFICES ASSUME NEW m \in Nodes
                 PROVE  network'.errors[m].tec = IF m # n THEN network.errors[m].tec ELSE 0
      BY <1>9 DEF Moved
    <3>1. DOMAIN network.errors = Nodes
      BY <1>2 DEF NetworkRow
    <3> QED
      BY <1>5, <1>7, <3>1
  <2> QED
    BY <1>8, <2>1 DEF Counted
<1>14. SequencesFollow(E, T, network.next, network.time, network'.next, network'.time)
  <2>1. network.time + elapsed \in Nat /\ network.time <= network.time + elapsed
    BY <1>3, <1>4
  <2>2. \A x \in E : x.service \notin {"campaign", "gateway"}
    BY <1>8
  <2> QED
    BY <1>3, <1>7, <2>1, <2>2, NothingFollows
<1> QED
  BY <1>11, <1>12, <1>13, <1>14 DEF Command

\* A frame stores one transmission with the next sequence.
LEMMA SubmitFrameCommands ==
    ASSUME IInv, NEW c \in Contracts, NEW id, NEW a \in Advances, SubmitFrame(c, id, a)
    PROVE  \E E, T : Command(E, T)
<1> DEFINE t == Transmission(id, c, c.id, a, network.next, network'.time, network'.version)
           E == {}
           T == {t}
<1>1. /\ Uses("frame") /\ FrameIdFree(id) /\ ~IsBusOff(c.producer)
      /\ network' = [network EXCEPT !.version = @ + 1, !.next = @ + 1, !.time = @ + a]
      /\ transmissions' = transmissions \cup T
      /\ executions' = executions /\ catalogue' = catalogue /\ workload' = workload
  BY DEF SubmitFrame
<1>2. /\ workload \in Workloads /\ network \in NetworkRow /\ DestinationsDeclared
  BY DEF IInv, RowsOK
<1>3. /\ network.version \in Nat \ {0} /\ network.time \in Nat /\ network.next \in Nat \ {0}
      /\ a \in Nat
  BY <1>2, RowTyped, AdvancesAreNatural
<1>4. /\ network'.version = network.version + 1 /\ network'.time = network.time + a
      /\ network'.next = network.next + 1 /\ network'.errors = network.errors
      /\ network'.routes = network.routes /\ network'.lin = network.lin
      /\ network'.ethernet = network.ethernet /\ network' \in NetworkRow
  <2> DEFINE v == network.version + 1
             m == network.next + 1
             clock == network.time + a
  <2>1. v \in Nat \ {0} /\ m \in Nat \ {0} /\ clock \in Nat
    BY ONLY <1>3
  <2>2. network' = [network EXCEPT !.version = v, !.next = m, !.time = clock]
    BY <1>1
  <2> HIDE DEF v, m, clock
  <2>3. /\ network' \in NetworkRow
        /\ network'.version = v /\ network'.next = m /\ network'.time = clock
        /\ network'.errors = network.errors /\ network'.routes = network.routes
        /\ network'.lin = network.lin /\ network'.ethernet = network.ethernet
    BY ONLY <1>2, <2>1, <2>2, RowMoves
  <2> QED
    BY ONLY <2>3 DEF v, m, clock
<1>5. /\ t.id = id /\ t.contract = c /\ t.payload = c.id /\ t.advance = a
      /\ t.sequence = network.next /\ t.time = network.time + a
      /\ t.version = network.version + 1
  BY <1>4 DEF Transmission
<1> HIDE DEF t
<1>6. Sent(t)
  BY <1>3, <1>5 DEF Sent
<1>7. Change(E, T)
  <2>1. DestinationsDeclared'
    BY <1>2, <1>4, RoutesStay
  <2>2. network.version <= workload.commands
    BY <1>1 DEF Uses
  <2>3. IsFiniteSet(E) /\ IsFiniteSet(T)
    BY OneMember, FS_EmptySet
  <2>4. \A x \in T : \A u \in transmissions \cup T : x.id = u.id => x = u
    BY <1>1, <1>5 DEF FrameIdFree
  <2> QED
    BY <1>1, <1>4, <1>5, <1>6, <2>1, <2>2, <2>3, <2>4 DEF Change
<1>8. Timed(E, T)
  BY <1>4, <1>5 DEF Timed
<1>9. Counted(E, T)
  <2>1. c.producer \in Nodes
    BY ContractTyped
  <2>2. network.errors[c.producer].tec \in Tecs
    <3> DEFINE producer == c.producer
    <3>1. producer \in Nodes
      BY <2>1
    <3> HIDE DEF producer
    <3>2. network.errors[producer].tec \in Tecs
      BY ONLY <1>2, <3>1, RowTyped
    <3> QED
      BY <3>2 DEF producer
  <2>3. network.errors[c.producer].tec < 256
    <3>1. ErrorMode(network.errors[c.producer]) # "bus_off"
      BY <1>1 DEF IsBusOff
    <3> QED
      BY ONLY <2>2, <3>1, CounterRanges DEF ErrorMode
  <2> QED
    BY <1>4, <1>5, <2>3 DEF Counted
<1>10. SequencesFollow(E, T, network.next, network.time, network'.next, network'.time)
  <2> DEFINE x == <<network.next, network.time + a>>
  <2>1. Pairs(E, T) = {x} /\ Routed(E) = {}
    BY <1>5 DEF Pairs, FramePairs, CampaignPairs, Routed
  <2>2. x[1] = network.next /\ x[2] = network.time + a
    OBVIOUS
  <2>3. /\ network.next..network.next + 1 - 1 = {network.next}
        /\ network.time <= network.time + a /\ network.time + a \in Nat
        /\ network.next <= network.next + 1 /\ ~(network.next < network.next)
    BY <1>3
  <2>4. IsFiniteSet({x}) /\ IsFiniteSet({})
    BY OneMember, FS_EmptySet
  <2> HIDE DEF x, E, T
  <2>5. {y[1] : y \in {x}} = {network.next}
    BY <2>2
  <2>6. network.time + a <= network.time + a
    BY <2>3
  <2> QED
    BY ONLY <1>4, <2>1, <2>2, <2>3, <2>4, <2>5, <2>6 DEF SequencesFollow
<1> QED
  BY <1>7, <1>8, <1>9, <1>10 DEF Command

\* An arbitration stores its outcome and a transmission per contender.
LEMMA ArbitrateCommands ==
    ASSUME IInv, NEW S \in SUBSET Contracts, S # {}, NEW offset \in [S -> Advances],
           NEW order \in SetToSeqs(S), Arbitrate(order, offset)
    PROVE  \E E, T : Command(E, T)
<1> DEFINE c == ResolveContenders(order, offset)
           n == Cardinality(S)
           o == Arbitrated(c)
           f == o.frames
           ranked == Ranked(c, f)
           Id(r) == <<NextId("arbitrate"), r>>
           Row(r) == Transmission(Id(r), f[r].contract, ranked[r].payload, 0,
                                  f[r].sequence, f[r].end, network'.version)
           result == [start |-> network.time, frames |-> f]
           T == {Row(r) : r \in DOMAIN f}
<1>1. /\ Uses("arbitrate") /\ MayContend(order)
      /\ \A r \in DOMAIN f : FrameIdFree(Id(r))
      /\ network' = [network EXCEPT !.version = @ + 1, !.next = @ + Len(f), !.time = o.clock]
      /\ transmissions' = transmissions \cup T
      /\ Store("arbitrate", result)
      /\ catalogue' = catalogue /\ workload' = workload
  BY DEF Arbitrate
<1>2. /\ workload \in Workloads /\ network \in NetworkRow /\ DestinationsDeclared
  BY DEF IInv, RowsOK
<1>3. /\ network.version \in Nat \ {0} /\ network.time \in Nat /\ network.next \in Nat \ {0}
      /\ Advances \subseteq Nat
  BY <1>2, RowTyped, AdvancesAreNatural
<1>4. /\ n \in Nat \ {0} /\ DOMAIN c = 1..n /\ Len(c) = n
      /\ \A i \in 1..n : /\ c[i].contract = order[i] /\ order[i] \in S
                         /\ c[i].payload = c[i].contract.id
                         /\ c[i].ready \in Nat /\ c[i].ready >= network.time
      /\ Contending(ToSet(c)) /\ Cardinality(ToSet(c)) = n
  <2>1. offset \in [S -> Nat]
    BY <1>3
  <2> QED
    BY <1>3, <2>1, ContendersTyped
<1>5. BusInv(ToSet(c), network.time, n, o)
  <2> HIDE DEF c, n
  <2> QED
    BY <1>3, <1>4, ArbitrationServes
<1> HIDE DEF c, n, o
<1>6. /\ o.clock \in Nat /\ network.time <= o.clock
      /\ f \in Seq(BusRow) /\ Len(f) = n /\ o.clock = FreeAt(f, network.time, n + 1)
      /\ \A r \in 1..n : /\ f[r].sequence = SequenceOf(r)
                         /\ \E w \in ToSet(c) : w.contract = f[r].contract
      /\ ServedInOrder(f, network.time)
  BY <1>5 DEF BusInv
<1> HIDE DEF f
<1>7. DOMAIN f = 1..n /\ \A r \in 1..n : f[r] \in BusRow
  BY <1>6, LenProperties, ElementOfSeq
<1>8. /\ o.clock = f[n].end /\ n \in 1..n
      /\ \A r \in 1..n : /\ network.time <= f[r].end /\ f[r].end <= o.clock /\ f[r].end \in Nat
                         /\ f[r].sequence = network.next + r - 1
                         /\ f[r].contract \in Contracts
      /\ \A r, q \in 1..n : r <= q => f[r].end <= f[q].end
  <2>1. n + 1 # 1 /\ (n + 1) - 1 = n /\ n \in 1..n
    BY <1>4
  <2>2. o.clock = f[n].end
    BY <1>6, <2>1 DEF FreeAt
  <2>3. \A r \in 1..n : network.time <= f[r].end /\ \A q \in 1..r : f[q].end <= f[r].end
    BY <1>3, <1>6, EndsGrow
  <2>4. \A r \in 1..n : f[r].end \in Nat /\ f[r].contract \in Contracts
    BY <1>7 DEF BusRow
  <2>5. \A r \in 1..n : f[r].sequence = network.next + r - 1
    BY <1>6 DEF SequenceOf
  <2>6. \A r, q \in 1..n : r <= q => r \in 1..q
    OBVIOUS
  <2> QED
    BY <2>1, <2>2, <2>3, <2>4, <2>5, <2>6
<1>9. \A r \in 1..n : /\ ranked[r].payload = f[r].contract.id
                      /\ f[r].contract.producer \in Nodes
                      /\ network.errors[f[r].contract.producer].tec < 256
  <2> TAKE r \in 1..n
  <2>1. PICK k \in 1..n : c[k].contract = f[r].contract
    <3>1. PICK w \in ToSet(c) : w.contract = f[r].contract
      BY <1>6
    <3>2. PICK k \in 1..n : w = c[k]
      BY <1>4 DEF ToSet
    <3> QED
      BY <3>1, <3>2
  <2> DEFINE j == CHOOSE i \in DOMAIN c : c[i].contract = f[r].contract
  <2>2. j \in 1..n /\ c[j].contract = f[r].contract
    BY <1>4, <2>1
  <2>3. ranked[r] = c[j]
    BY <1>7 DEF Ranked
  <2> HIDE DEF j
  <2>4. ranked[r].payload = f[r].contract.id
    BY <1>4, <2>2, <2>3
  <2>5. f[r].contract = order[k] /\ k \in DOMAIN order
    <3>1. DOMAIN order = 1..n
      BY DEF SetToSeqs, n
    <3> QED
      BY <1>4, <2>1, <3>1
  <2> DEFINE producer == f[r].contract.producer
  <2>6. ~IsBusOff(producer)
    BY <1>1, <2>5 DEF MayContend
  <2>7. producer \in Nodes
    BY <1>8, ContractTyped
  <2> HIDE DEF producer
  <2>8. network.errors[producer].tec \in Tecs
    BY ONLY <1>2, <2>7, RowTyped
  <2>9. network.errors[producer].tec < 256
    <3>1. ErrorMode(network.errors[producer]) # "bus_off"
      BY <2>6 DEF IsBusOff
    <3> QED
      BY ONLY <2>8, <3>1, CounterRanges DEF ErrorMode
  <2> QED
    BY <2>4, <2>7, <2>9 DEF producer
<1> HIDE DEF ranked
<1>10. /\ network'.version = network.version + 1 /\ network'.time = o.clock
       /\ network'.next = network.next + n /\ network'.errors = network.errors
       /\ network'.routes = network.routes /\ network'.lin = network.lin
       /\ network'.ethernet = network.ethernet /\ network' \in NetworkRow
  <2> DEFINE v == network.version + 1
             m == network.next + n
             clock == o.clock
  <2>1. v \in Nat \ {0} /\ m \in Nat \ {0} /\ clock \in Nat
    BY ONLY <1>3, <1>4, <1>6
  <2>2. network' = [network EXCEPT !.version = v, !.next = m, !.time = clock]
    BY <1>1, <1>6
  <2> HIDE DEF v, m, clock
  <2>3. /\ network' \in NetworkRow
        /\ network'.version = v /\ network'.next = m /\ network'.time = clock
        /\ network'.errors = network.errors /\ network'.routes = network.routes
        /\ network'.lin = network.lin /\ network'.ethernet = network.ethernet
    BY ONLY <1>2, <2>1, <2>2, RowMoves
  <2> QED
    BY ONLY <2>3 DEF v, m, clock
<1>11. \A r \in 1..n : /\ Row(r).id = Id(r) /\ Row(r).contract = f[r].contract
                       /\ Row(r).payload = f[r].contract.id /\ Row(r).advance = 0
                       /\ Row(r).sequence = network.next + r - 1 /\ Row(r).time = f[r].end
                       /\ Row(r).version = network.version + 1
  BY <1>8, <1>9, <1>10 DEF Transmission
<1>12. \A r \in 1..n : Sent(Row(r))
  <2> TAKE r \in 1..n
  <2>1. network.next + r - 1 \in Nat
    BY <1>3
  <2> HIDE DEF Row
  <2> QED
    BY <1>8, <1>11, <2>1 DEF Sent
<1>13. \A r, q \in 1..n : Row(r).id = Row(q).id => r = q
  BY <1>11
<1>14. T = {Row(r) : r \in 1..n}
  BY <1>7
<1> HIDE DEF Row, T
<1>15. IsFiniteSet(T)
  <2> DEFINE g == [r \in 1..n |-> Row(r)]
  <2>1. IsFiniteSet(1..n) /\ {g[r] : r \in 1..n} = T
    BY <1>4, <1>14, FS_Interval
  <2> HIDE DEF g
  <2> QED
    BY ONLY <2>1, ImageIsFinite
<1>16. PICK e : /\ executions' = executions \cup {e} /\ e.service = "arbitrate"
                /\ e.version = network'.version /\ e.result = result
  BY <1>1, StoreAdds
<1>17. e.result.start = network.time /\ e.result.frames = f
  BY <1>16
<1> HIDE DEF result
<1>18. Recorded(e)
  <2>1. Len(f) > 0
    BY <1>4, <1>6
  <2> QED
    BY <1>3, <1>6, <1>16, <1>17, <2>1 DEF Recorded
<1> DEFINE E == {e}
<1>19. Change(E, T)
  <2>1. DestinationsDeclared'
    BY <1>2, <1>10, RoutesStay
  <2>2. network.version <= workload.commands
    BY <1>1 DEF Uses
  <2>3. IsFiniteSet(E)
    BY OneMember
  <2>4. \A x \in T : \A u \in transmissions \cup T : x.id = u.id => x = u
    BY <1>1, <1>7, <1>11, <1>13, <1>14 DEF FrameIdFree
  <2>5. \A x \in T : x.version = network.version + 1 /\ Sent(x)
    BY <1>11, <1>12, <1>14
  <2>6. \A x \in E : x.service # "codec" /\ x.version = network.version + 1 /\ Recorded(x)
    BY <1>10, <1>16, <1>18
  <2> QED
    BY <1>1, <1>10, <1>15, <1>16, <2>1, <2>2, <2>3, <2>4, <2>5, <2>6 DEF Change
<1>20. Timed(E, T)
  <2>1. Elapsed(e) = f[n].end - network.time
    BY <1>6, <1>16, <1>17 DEF Elapsed, Last
  <2>2. \A t \in T : t.advance = 0
    BY <1>11, <1>14
  <2>3. network'.time = network.time + Elapsed(e) /\ Elapsed(e) \in Int
    BY ONLY <1>3, <1>8, <1>10, <2>1
  <2> QED
    BY <2>2, <2>3 DEF Timed
<1>21. Counted(E, T)
  <2>1. \A t \in T : network.errors[t.contract.producer].tec < 256
    BY <1>9, <1>11, <1>14
  <2> QED
    BY <1>10, <1>16, <2>1 DEF Counted
<1>22. SequencesFollow(E, T, network.next, network.time, network'.next, network'.time)
  <2> DEFINE p(r) == <<network.next + r - 1, f[r].end>>
             P == {p(r) : r \in 1..n}
  <2>1. Pairs(E, T) = P /\ Routed(E) = {}
    <3>1. CampaignPairs(E) = {} /\ Routed(E) = {}
      BY <1>16 DEF CampaignPairs, Routed
    <3>2. FramePairs(T) = P
      BY <1>11, <1>14 DEF FramePairs
    <3> QED
      BY <3>1, <3>2 DEF Pairs
  <2>2. \A r \in 1..n : p(r)[1] = network.next + r - 1 /\ p(r)[2] = f[r].end
    OBVIOUS
  <2>3. IsFiniteSet(P) /\ IsFiniteSet({})
    <3> DEFINE g == [r \in 1..n |-> p(r)]
    <3>1. IsFiniteSet(1..n) /\ {g[r] : r \in 1..n} = P
      BY <1>4, FS_Interval
    <3> HIDE DEF g, P
    <3>2. IsFiniteSet(P)
      BY ONLY <3>1, ImageIsFinite
    <3> QED
      BY <3>2, FS_EmptySet
  <2> HIDE DEF p
  <2>4. {x[1] : x \in P} = network.next..(network.next + n) - 1
    <3>1. {x[1] : x \in P} = {network.next + r - 1 : r \in 1..n}
      BY <2>2
    <3>2. \A q \in network.next..(network.next + n) - 1 :
             q - network.next + 1 \in 1..n /\ q = network.next + (q - network.next + 1) - 1
      BY ONLY <1>3, <1>4
    <3>3. \A r \in 1..n : network.next + r - 1 \in network.next..(network.next + n) - 1
      BY ONLY <1>3, <1>4
    <3> QED
      BY ONLY <3>1, <3>2, <3>3
  <2>5. \A x \in P : network.time <= x[2] /\ x[2] <= o.clock /\ x[2] \in Nat
    BY <1>8, <2>2
  <2>6. \A x, y \in P : /\ x[1] < y[1] => x[2] <= y[2]
                        /\ x[1] = y[1] => x = y
    <3> SUFFICES ASSUME NEW x \in P, NEW y \in P
                 PROVE  (x[1] < y[1] => x[2] <= y[2]) /\ (x[1] = y[1] => x = y)
      OBVIOUS
    <3>1. PICK r \in 1..n : x = p(r)
      OBVIOUS
    <3>2. PICK q \in 1..n : y = p(q)
      OBVIOUS
    <3>3. /\ x[1] = network.next + r - 1 /\ x[2] = f[r].end
          /\ y[1] = network.next + q - 1 /\ y[2] = f[q].end
      BY <2>2, <3>1, <3>2
    <3>4. (x[1] < y[1] => r <= q) /\ (x[1] = y[1] => r = q)
      BY ONLY <1>3, <1>4, <3>3
    <3> QED
      BY <1>8, <3>1, <3>2, <3>3, <3>4
  <2>7. network.next <= network.next + n
    BY <1>3, <1>4
  <2> HIDE DEF P, E
  <2> QED
    BY ONLY <1>6, <1>10, <2>1, <2>3, <2>4, <2>5, <2>6, <2>7 DEF SequencesFollow
<1> QED
  BY <1>19, <1>20, <1>21, <1>22 DEF Command

\* A configuration replaces routes whose destinations it declares.
LEMMA ConfigureMultibusCommands ==
    ASSUME IInv, NEW g \in Configurations, ConfigureMultibus(g)
    PROVE  \E E, T : Command(E, T)
<1> DEFINE result == [elapsed |-> 0, sequences |-> {}]
<1>1. /\ Uses("gateway") /\ ValidConfiguration(g)
      /\ network' = [network EXCEPT !.version = @ + 1, !.routes = g.routes,
                                    !.lin = g.lin, !.ethernet = g.ethernet]
      /\ Store("gateway", result)
      /\ transmissions' = transmissions /\ catalogue' = catalogue /\ workload' = workload
  BY DEF ConfigureMultibus
<1>2. /\ workload \in Workloads /\ network \in NetworkRow /\ DestinationsDeclared
  BY DEF IInv, RowsOK
<1>3. /\ network.version \in Nat \ {0} /\ network.time \in Nat /\ network.next \in Nat \ {0}
  BY <1>2, RowTyped
<1>4. /\ network'.version = network.version + 1 /\ network'.time = network.time
      /\ network'.next = network.next /\ network'.errors = network.errors
      /\ network'.routes = g.routes /\ network'.lin = g.lin /\ network'.ethernet = g.ethernet
      /\ network' \in NetworkRow
  <2>1. network.version + 1 \in Nat \ {0}
    BY <1>3
  <2>2. g.lin \subseteq BusFrame /\ g.ethernet \subseteq BusFrame
    <3>1. g.lin \cup g.ethernet \subseteq BusFrame
      BY NetworkAssumption
    <3> QED
      BY <3>1
  <2>3. g.routes \subseteq UNION {h.routes : h \in Configurations}
    OBVIOUS
  <2>4. network' = [network EXCEPT !.version = @ + 1, !.routes = g.routes,
                                   !.lin = g.lin, !.ethernet = g.ethernet]
    BY <1>1
  <2>5. g.lin \in SUBSET BusFrame /\ g.ethernet \in SUBSET BusFrame
        /\ g.routes \in SUBSET UNION {h.routes : h \in Configurations}
    BY ONLY <2>2, <2>3
  <2> QED
    BY ONLY <1>2, <2>1, <2>4, <2>5 DEF NetworkRow
<1>5. DestinationsDeclared'
  <2> SUFFICES ASSUME NEW r \in g.routes
               PROVE  r.destination[1] \in Protocols /\ Named(network', r.destination) # {}
    BY <1>4 DEF DestinationsDeclared, Named, Declared
  <2>1. r.destination[1] \in Protocols /\ Named(g, r.destination) # {}
    BY <1>1 DEF ValidConfiguration
  <2>2. Declared(network', r.destination[1]) = Declared(g, r.destination[1])
    BY <1>4 DEF Declared
  <2> QED
    BY <2>1, <2>2 DEF Named
<1>6. PICK e : /\ executions' = executions \cup {e} /\ e.service = "gateway"
               /\ e.version = network'.version /\ e.result = result
  BY <1>1, StoreAdds
<1>7. e.result.elapsed = 0 /\ e.result.sequences = {}
  BY <1>6
<1> HIDE DEF result
<1> DEFINE E == {e}
           T == {}
<1>8. Change(E, T)
  <2>1. network.version <= workload.commands
    BY <1>1 DEF Uses
  <2>2. IsFiniteSet(E) /\ IsFiniteSet(T)
    BY OneMember, FS_EmptySet
  <2>3. Recorded(e)
    BY <1>6, <1>7, FS_EmptySet DEF Recorded
  <2> QED
    BY <1>1, <1>4, <1>5, <1>6, <2>1, <2>2, <2>3 DEF Change
<1>9. Timed(E, T)
  <2>1. Elapsed(e) = 0
    BY <1>6, <1>7 DEF Elapsed
  <2> QED
    BY <1>3, <1>4, <2>1 DEF Timed
<1>10. Counted(E, T)
  BY <1>4, <1>6 DEF Counted
<1>11. SequencesFollow(E, T, network.next, network.time, network'.next, network'.time)
  <2>1. Pairs(E, T) = {} /\ Routed(E) = {}
    BY <1>6, <1>7 DEF Pairs, FramePairs, CampaignPairs, Routed
  <2>2. /\ network.next..network.next - 1 = {} /\ IsFiniteSet({})
        /\ network.next <= network.next /\ network.time <= network.time
    BY <1>3, FS_EmptySet
  <2> QED
    BY ONLY <1>4, <2>1, <2>2 DEF SequencesFollow
<1> QED
  BY <1>8, <1>9, <1>10, <1>11 DEF Command

\* A routed message stores one execution with the next sequence.
LEMMA ExecuteRouteCommands ==
    ASSUME IInv, NEW route \in network.routes, NEW a \in Advances, ExecuteRoute(route, a)
    PROVE  \E E, T : Command(E, T)
<1> DEFINE elapsed == a + RouteDuration(route)
           result == [elapsed |-> elapsed, sequences |-> {network.next}]
<1>1. /\ Uses("gateway")
      /\ network' = [network EXCEPT !.version = @ + 1, !.next = @ + 1, !.time = @ + elapsed]
      /\ Store("gateway", result)
      /\ transmissions' = transmissions /\ catalogue' = catalogue /\ workload' = workload
  BY DEF ExecuteRoute
<1>2. /\ workload \in Workloads /\ network \in NetworkRow /\ DestinationsDeclared
  BY DEF IInv, RowsOK
<1>3. /\ network.version \in Nat \ {0} /\ network.time \in Nat /\ network.next \in Nat \ {0}
      /\ a \in Nat
  BY <1>2, RowTyped, AdvancesAreNatural
<1>4. elapsed \in Nat
  <2>1. RouteDuration(route) \in Nat
    BY <1>2, RouteDurationIsNatural
  <2> QED
    BY <1>3, <2>1
<1> HIDE DEF elapsed
<1>5. /\ network'.version = network.version + 1 /\ network'.time = network.time + elapsed
      /\ network'.next = network.next + 1 /\ network'.errors = network.errors
      /\ network'.routes = network.routes /\ network'.lin = network.lin
      /\ network'.ethernet = network.ethernet /\ network' \in NetworkRow
  <2> DEFINE v == network.version + 1
             m == network.next + 1
             clock == network.time + elapsed
  <2>1. v \in Nat \ {0} /\ m \in Nat \ {0} /\ clock \in Nat
    BY ONLY <1>3, <1>4
  <2>2. network' = [network EXCEPT !.version = v, !.next = m, !.time = clock]
    BY <1>1
  <2> HIDE DEF v, m, clock
  <2>3. /\ network' \in NetworkRow
        /\ network'.version = v /\ network'.next = m /\ network'.time = clock
        /\ network'.errors = network.errors /\ network'.routes = network.routes
        /\ network'.lin = network.lin /\ network'.ethernet = network.ethernet
    BY ONLY <1>2, <2>1, <2>2, RowMoves
  <2> QED
    BY ONLY <2>3 DEF v, m, clock
<1>6. PICK e : /\ executions' = executions \cup {e} /\ e.service = "gateway"
               /\ e.version = network'.version /\ e.result = result
  BY <1>1, StoreAdds
<1>7. e.result.elapsed = elapsed /\ e.result.sequences = {network.next}
  BY <1>6
<1> HIDE DEF result
<1> DEFINE E == {e}
           T == {}
<1>8. Change(E, T)
  <2>1. network.version <= workload.commands
    BY <1>1 DEF Uses
  <2>2. IsFiniteSet(E) /\ IsFiniteSet(T)
    BY OneMember, FS_EmptySet
  <2>3. Recorded(e)
    <3>1. IsFiniteSet({network.next})
      BY OneMember
    <3> QED
      BY <1>4, <1>6, <1>7, <3>1 DEF Recorded
  <2>4. DestinationsDeclared'
    BY <1>2, <1>5, RoutesStay
  <2> QED
    BY <1>1, <1>5, <1>6, <2>1, <2>2, <2>3, <2>4 DEF Change
<1>9. Timed(E, T)
  <2>1. Elapsed(e) = elapsed
    BY <1>6, <1>7 DEF Elapsed
  <2> QED
    BY <1>4, <1>5, <2>1 DEF Timed
<1>10. Counted(E, T)
  BY <1>5, <1>6 DEF Counted
<1>11. SequencesFollow(E, T, network.next, network.time, network'.next, network'.time)
  <2>1. Pairs(E, T) = {} /\ Routed(E) = {network.next}
    BY <1>6, <1>7 DEF Pairs, FramePairs, CampaignPairs, Routed
  <2>2. /\ network.next..(network.next + 1) - 1 = {network.next}
        /\ network.next <= network.next + 1 /\ network.time <= network.time + elapsed
    BY <1>3, <1>4
  <2>3. IsFiniteSet({}) /\ IsFiniteSet({network.next})
    BY OneMember, FS_EmptySet
  <2> QED
    BY ONLY <1>5, <2>1, <2>2, <2>3 DEF SequencesFollow
<1> QED
  BY <1>8, <1>9, <1>10, <1>11 DEF Command

\* A campaign stores its trace, whose messages have the next sequences.
LEMMA RunCampaignCommands ==
    ASSUME IInv, NEW steps \in BoundedSeq(CampaignStep, 2), steps # <<>>, RunCampaign(steps)
    PROVE  \E E, T : Command(E, T)
<1> DEFINE o == CampaignTrace(steps)
           f == o.trace
           result == [start |-> network.time, trace |-> f, status |-> CampaignStatus(f)]
<1>1. /\ Uses("campaign")
      /\ network' = [network EXCEPT !.version = @ + 1, !.next = o.next, !.time = o.time]
      /\ Store("campaign", result)
      /\ transmissions' = transmissions /\ catalogue' = catalogue /\ workload' = workload
  BY DEF RunCampaign
<1>2. /\ workload \in Workloads /\ network \in NetworkRow /\ DestinationsDeclared
  BY DEF IInv, RowsOK
<1>3. /\ network.version \in Nat \ {0} /\ network.time \in Nat /\ network.next \in Nat \ {0}
      /\ workload.advances \subseteq Nat
  BY <1>2, RowTyped, AdvancesAreNatural
<1>4. PICK n \in Nat : n # 0 /\ steps \in [1..n -> CampaignStep]
  <2>1. PICK m \in 0..2 : steps \in [1..m -> CampaignStep]
    BY DEF BoundedSeq, SeqOf
  <2>2. m # 0
    BY <2>1
  <2> QED
    BY <2>1, <2>2
<1>5. TraceInv(n, o)
  <2> HIDE DEF o
  <2> QED
    BY <1>2, <1>3, <1>4, CampaignIsTraced DEF o
<1> HIDE DEF o
<1>6. /\ o.time \in Nat /\ o.next \in Nat /\ network.next <= o.next
      /\ f \in Seq(TraceRow) /\ Len(f) = n /\ n \in 1..n /\ o.time = f[n].end
      /\ {f[i].sequence : i \in SentIn(f)} = network.next..o.next - 1
      /\ \A i \in 1..n : /\ network.time <= f[i].start
                         /\ f[i].start <= f[i].end /\ f[i].end <= o.time
                         /\ f[i].outcome = "delivered" =>
                              f[i].sequence # None /\ f[i].end - f[i].start <= Budget
      /\ \A i, j \in 1..n : i < j => f[i].end <= f[j].end
      /\ \A i, j \in SentIn(f) : i < j => f[i].sequence < f[j].sequence
  BY <1>4, <1>5 DEF TraceInv
<1> HIDE DEF f
<1>7. /\ DOMAIN f = 1..n /\ SentIn(f) \subseteq 1..n
      /\ \A i \in 1..n : /\ f[i] \in TraceRow /\ f[i].start \in Nat /\ f[i].end \in Nat
                         /\ f[i].outcome \in {"failed", "performance_violation", "delivered"}
  <2>1. DOMAIN f = 1..n /\ \A i \in 1..n : f[i] \in TraceRow
    BY <1>6, LenProperties, ElementOfSeq
  <2> QED
    BY <2>1 DEF SentIn, TraceRow
<1>8. network.time <= o.time
  BY <1>3, <1>6, <1>7
<1>9. /\ network'.version = network.version + 1 /\ network'.time = o.time
      /\ network'.next = o.next /\ network'.errors = network.errors
      /\ network'.routes = network.routes /\ network'.lin = network.lin
      /\ network'.ethernet = network.ethernet /\ network' \in NetworkRow
  <2> DEFINE v == network.version + 1
             m == o.next
             clock == o.time
  <2>1. v \in Nat \ {0} /\ m \in Nat \ {0} /\ clock \in Nat
    BY ONLY <1>3, <1>6
  <2>2. network' = [network EXCEPT !.version = v, !.next = m, !.time = clock]
    BY <1>1
  <2> HIDE DEF v, m, clock
  <2>3. /\ network' \in NetworkRow
        /\ network'.version = v /\ network'.next = m /\ network'.time = clock
        /\ network'.errors = network.errors /\ network'.routes = network.routes
        /\ network'.lin = network.lin /\ network'.ethernet = network.ethernet
    BY ONLY <1>2, <2>1, <2>2, RowMoves
  <2> QED
    BY ONLY <2>3 DEF v, m, clock
<1>10. PICK e : /\ executions' = executions \cup {e} /\ e.service = "campaign"
                /\ e.version = network'.version /\ e.result = result
  BY <1>1, StoreAdds
<1>11. /\ e.result.start = network.time /\ e.result.trace = f
       /\ e.result.status = CampaignStatus(f)
  BY <1>10
<1> HIDE DEF result
<1>12. Recorded(e)
  <2>1. Len(f) > 0
    BY <1>4, <1>6
  <2>2. ASSUME CampaignStatus(f) = "passed", NEW i \in DOMAIN f
        PROVE  f[i].sequence # None /\ f[i].end - f[i].start <= Budget
    <3>1. f[i].outcome # "failed" /\ f[i].outcome # "performance_violation"
      BY <2>2 DEF CampaignStatus
    <3> QED
      BY <1>6, <1>7, <3>1
  <2> QED
    BY <1>3, <1>6, <1>10, <1>11, <2>1, <2>2 DEF Recorded
<1> DEFINE E == {e}
           T == {}
<1>13. Change(E, T)
  <2>1. network.version <= workload.commands
    BY <1>1 DEF Uses
  <2>2. IsFiniteSet(E) /\ IsFiniteSet(T)
    BY OneMember, FS_EmptySet
  <2>3. DestinationsDeclared'
    BY <1>2, <1>9, RoutesStay
  <2> QED
    BY <1>1, <1>9, <1>10, <1>12, <2>1, <2>2, <2>3 DEF Change
<1>14. Timed(E, T)
  <2>1. Elapsed(e) = f[n].end - network.time
    BY <1>6, <1>10, <1>11 DEF Elapsed, Last
  <2>2. network'.time = network.time + Elapsed(e) /\ Elapsed(e) \in Int
    BY ONLY <1>3, <1>6, <1>9, <2>1
  <2> QED
    BY <2>2 DEF Timed
<1>15. Counted(E, T)
  BY <1>9, <1>10 DEF Counted
<1>16. SequencesFollow(E, T, network.next, network.time, network'.next, network'.time)
  <2> DEFINE p(i) == <<f[i].sequence, f[i].end>>
             I == SentIn(f)
             P == {p(i) : i \in I}
  <2>1. Pairs(E, T) = P /\ Routed(E) = {}
    <3>1. {x \in E : x.service = "campaign"} = {e} /\ Routed(E) = {}
      BY <1>10 DEF Routed
    <3>2. CampaignPairs(E) = P
      BY <1>11, <3>1 DEF CampaignPairs
    <3>3. FramePairs(T) = {}
      BY DEF FramePairs
    <3> QED
      BY <3>1, <3>2, <3>3 DEF Pairs
  <2>2. \A i \in I : p(i)[1] = f[i].sequence /\ p(i)[2] = f[i].end
    OBVIOUS
  <2>3. IsFiniteSet(P) /\ IsFiniteSet({})
    <3> DEFINE g == [i \in I |-> p(i)]
    <3>1. IsFiniteSet(I)
      <4>1. IsFiniteSet(1..n)
        BY <1>4, FS_Interval
      <4> QED
        BY <1>7, <4>1, FS_Subset
    <3>2. {g[i] : i \in I} = P
      OBVIOUS
    <3> HIDE DEF g, I
    <3>3. IsFiniteSet({g[i] : i \in I})
      BY ONLY <3>1, ImageIsFinite
    <3> QED
      BY <3>2, <3>3, FS_EmptySet
  <2> HIDE DEF p
  <2>4. {x[1] : x \in P} = network.next..o.next - 1
    <3>1. {x[1] : x \in P} = {f[i].sequence : i \in I}
      BY <2>2
    <3> QED
      BY <1>6, <3>1
  <2>5. \A x \in P : network.time <= x[2] /\ x[2] <= o.time /\ x[2] \in Nat
    <3>1. \A i \in I : network.time <= f[i].end /\ f[i].end <= o.time /\ f[i].end \in Nat
      BY <1>3, <1>6, <1>7
    <3> QED
      BY <2>2, <3>1
  <2>6. \A x, y \in P : /\ x[1] < y[1] => x[2] <= y[2]
                        /\ x[1] = y[1] => x = y
    <3> SUFFICES ASSUME NEW x \in P, NEW y \in P
                 PROVE  (x[1] < y[1] => x[2] <= y[2]) /\ (x[1] = y[1] => x = y)
      OBVIOUS
    <3>1. PICK i \in I : x = p(i)
      OBVIOUS
    <3>2. PICK j \in I : y = p(j)
      OBVIOUS
    <3>3. /\ x[1] = f[i].sequence /\ x[2] = f[i].end /\ y[1] = f[j].sequence /\ y[2] = f[j].end
          /\ i \in 1..n /\ j \in 1..n
      BY <1>7, <2>2, <3>1, <3>2
    <3>4. f[i].sequence \in Nat /\ f[j].sequence \in Nat
      <4>1. f[i].sequence \in network.next..o.next - 1 /\ f[j].sequence \in network.next..o.next - 1
        BY <1>6
      <4> QED
        BY <1>3, <1>6, <4>1
    <3>5. (i < j => f[i].sequence < f[j].sequence) /\ (j < i => f[j].sequence < f[i].sequence)
      BY <1>6
    <3>6. i < j \/ j < i \/ i = j
      BY ONLY <1>4, <3>3
    <3>7. /\ x[1] < y[1] => i < j
          /\ x[1] = y[1] => i = j
      BY ONLY <3>3, <3>4, <3>5, <3>6
    <3> QED
      BY <1>6, <3>1, <3>2, <3>3, <3>7
  <2> HIDE DEF P, E, T
  <2>7. SequencesFollow(E, T, network.next, network.time, o.next, o.time)
    BY ONLY <1>6, <1>8, <2>1, <2>3, <2>4, <2>5, <2>6 DEF SequencesFollow
  <2> QED
    BY ONLY <1>9, <2>7
<1> QED
  BY <1>13, <1>14, <1>15, <1>16 DEF Command

\* The catalogue is a version without an execution.
LEMMA CreateCatalogueCommands ==
    ASSUME IInv, NEW c \in Contracts, NEW message \in Messages, CreateCatalogue(c, message)
    PROVE  Command({}, {})
<1>1. /\ Uses("dbc") /\ catalogue = None
      /\ network' = [network EXCEPT !.version = @ + 1]
      /\ catalogue' = [contract |-> c, message |-> message, version |-> network'.version]
      /\ transmissions' = transmissions /\ executions' = executions /\ workload' = workload
  BY DEF CreateCatalogue
<1>2. /\ workload \in Workloads /\ network \in NetworkRow /\ DestinationsDeclared
  BY DEF IInv, RowsOK
<1>3. /\ network.version \in Nat \ {0} /\ network.time \in Nat /\ network.next \in Nat \ {0}
  BY <1>2, RowTyped
<1>4. /\ network'.version = network.version + 1 /\ network'.time = network.time
      /\ network'.next = network.next /\ network'.errors = network.errors
      /\ network'.routes = network.routes /\ network'.lin = network.lin
      /\ network'.ethernet = network.ethernet /\ network' \in NetworkRow
  <2>1. network.version + 1 \in Nat \ {0}
    BY <1>3
  <2> QED
    BY <1>1, <1>2, <2>1 DEF NetworkRow
<1>5. catalogue' # None /\ catalogue'.version = network.version + 1
  <2>1. network.version + 1 \in Nat
    BY <1>3
  <2>2. catalogue' \in [contract : Contracts, message : Messages, version : Nat]
    BY <1>1, <1>4, <2>1
  <2>3. catalogue'.version = network.version + 1
    BY <1>1, <1>4
  <2> QED
    BY <2>2, <2>3, NetworkAssumption
<1> DEFINE E == {}
           T == {}
<1>6. executions' = executions \cup E /\ transmissions' = transmissions \cup T
  BY <1>1
<1>7. IsFiniteSet(E) /\ IsFiniteSet(T)
  BY FS_EmptySet
<1>8. Change(E, T)
  <2>1. network.version <= workload.commands
    BY <1>1 DEF Uses
  <2>2. DestinationsDeclared'
    BY <1>2, <1>4, RoutesStay
  <2> QED
    BY <1>1, <1>4, <1>5, <1>6, <1>7, <2>1, <2>2 DEF Change
<1>9. Timed(E, T)
  BY <1>4 DEF Timed
<1>10. Counted(E, T)
  BY <1>4 DEF Counted
<1>11. SequencesFollow(E, T, network.next, network.time, network'.next, network'.time)
  <2>1. network.time <= network.time
    BY <1>3
  <2>2. \A x \in E : x.service \notin {"campaign", "gateway"}
    OBVIOUS
  <2> QED
    BY <1>3, <1>4, <2>1, <2>2, NothingFollows
<1> QED
  BY <1>8, <1>9, <1>10, <1>11 DEF Command

\* Encoding and decoding only differ in what they report.
LEMMA CodecCommands ==
    ASSUME NEW operation, NEW values, NEW payload, StoreCodec(operation, values, payload)
    PROVE  CodecStores
<1>1. PICK e : /\ executions' = executions \cup {e} /\ e.service = "codec"
               /\ e.version = network'.version
               /\ e.result = [operation |-> operation, values |-> values, payload |-> payload]
  BY StoreAdds DEF StoreCodec
<1>2. Recorded(e)
  BY <1>1 DEF Recorded
<1> QED
  BY <1>1, <1>2 DEF CodecStores, StoreCodec

\* Every step keeps the invariant.
LEMMA NextKeeps ==
    ASSUME IInv, [Next]_vars
    PROVE  IInv'
<1>1. ASSUME \E E, T : Command(E, T) PROVE IInv'
  BY <1>1, CommandKeeps
<1>2. ASSUME FrameCommand PROVE IInv'
  BY <1>1, <1>2, SubmitFrameCommands DEF FrameCommand
<1>3. ASSUME ArbitrationCommand PROVE IInv'
  <2>1. PICK S \in (SUBSET Contracts) \ {{}} : \E offset \in [S -> Advances] :
               \E order \in SetToSeqs(S) : Arbitrate(order, offset)
    BY <1>3 DEF ArbitrationCommand
  <2>2. PICK offset \in [S -> Advances], order \in SetToSeqs(S) : Arbitrate(order, offset)
    BY <2>1
  <2> QED
    <3>1. S \in SUBSET Contracts /\ S # {}
      OBVIOUS
    <3>2. \E E, T : Command(E, T)
      BY ONLY IInv, <2>2, <3>1, ArbitrateCommands
    <3> QED
      BY <1>1, <3>2
<1>4. ASSUME FaultCommand PROVE IInv'
  <2>1. CASE \E n \in Nodes : RecoverNode(n)
    BY <1>1, <2>1, RecoverNodeCommands
  <2>2. CASE \E c \in Contracts, n \in Nodes, count \in Occurrences, a \in Advances :
               \E type \in {"transmission_error", "reception_error", "frame_loss"} :
                  InjectFault(c, n, type, count, a)
    BY <1>1, <2>2, InjectFaultCommands
  <2> QED
    BY <1>4, <2>1, <2>2 DEF FaultCommand
<1>5. ASSUME GatewayCommand PROVE IInv'
  <2>1. CASE \E g \in Configurations : ConfigureMultibus(g)
    BY <1>1, <2>1, ConfigureMultibusCommands
  <2>2. CASE \E route \in network.routes, a \in Advances : ExecuteRoute(route, a)
    BY <1>1, <2>2, ExecuteRouteCommands
  <2> QED
    BY <1>5, <2>1, <2>2 DEF GatewayCommand
<1>6. ASSUME CampaignCommand PROVE IInv'
  BY <1>1, <1>6, RunCampaignCommands DEF CampaignCommand
<1>7. ASSUME DbcCommand PROVE IInv'
  <2>1. CASE \E c \in Contracts, message \in Messages : CreateCatalogue(c, message)
    BY <1>1, <2>1, CreateCatalogueCommands
  <2>2. CASE \E values, payload : \E operation : StoreCodec(operation, values, payload)
    BY <2>2, CodecCommands, CodecKeeps
  <2> QED
    BY <1>7, <2>1, <2>2 DEF DbcCommand, EncodeSignals, DecodeSignals
<1>8. ASSUME UNCHANGED vars PROVE IInv'
  <2>1. /\ network' = network /\ transmissions' = transmissions /\ executions' = executions
        /\ catalogue' = catalogue /\ workload' = workload
    BY <1>8 DEF vars
  <2>2. RowsOK'
    BY <2>1 DEF IInv, RowsOK, DestinationsDeclared, Named, Declared
  <2> QED
    BY <2>1, <2>2 DEF IInv
<1> QED
  BY <1>2, <1>3, <1>4, <1>5, <1>6, <1>7, <1>8 DEF Next

-----------------------------------------------------------------------------

\* The invariant holds in every reachable state.
THEOREM Invariance == Spec => []IInv
<1>1. Init => IInv
  BY InitHolds
<1>2. IInv /\ [Next]_vars => IInv'
  BY NextKeeps
<1> QED
  BY <1>1, <1>2, PTL DEF Spec

\* A network has one history of versions, one of sequences, and a clock that
\* accounts for every command (can_network/).
THEOREM HistoryHolds == Spec => []HistoryIsOne
<1>1. IInv => HistoryIsOne
  BY HistoryFollows
<1> QED
  BY <1>1, Invariance, PTL

\* A producer that is bus-off sends nothing, and an arbitration serves its
\* frames in order, each with its own payload.
THEOREM FramesHold == Spec => []FramesAreSound
<1>1. IInv => FramesAreSound
  BY FramesFollow
<1> QED
  BY <1>1, Invariance, PTL
=============================================================================
