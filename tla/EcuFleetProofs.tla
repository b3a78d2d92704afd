---------------------------- MODULE EcuFleetProofs ----------------------------
(* What TLAPS proves of EcuFleet: sums over finite sets, the arithmetic of   *)
(* cyclic tasks, the commands of one ECU (EcuCommands) and the transactions  *)
(* on several ECUs (EcuNetwork), however many requests are in flight.        *)
EXTENDS EcuFleet, FiniteSetTheorems, FunctionTheorems, SequenceTheorems,
        WellFoundedInduction, TLAPS

\* Every family of subsets of a finite set has a minimal member.
LEMMA MinimalSubset ==
    ASSUME NEW S, IsFiniteSet(S), NEW C \in SUBSET SUBSET S, C # {}
    PROVE  \E T \in C : \A U \in C : U \subseteq T => U = T
<1> DEFINE Sizes == {Cardinality(T) : T \in C}
<1>1. \A T \in C : IsFiniteSet(T) /\ Cardinality(T) \in Nat
  BY FS_Subset, FS_CardinalityType
<1>2. Sizes \subseteq Nat /\ Sizes # {}
  BY <1>1
<1>3. PICK n \in Sizes : \A m \in Sizes : ~(<<m, n>> \in OpToRel(<, Nat))
  <2> HIDE DEF Sizes
  <2> QED
    BY ONLY <1>2, NatLessThanWellFounded, WFMin
<1>4. \A m \in Sizes : ~(m < n)
  BY <1>2, <1>3 DEF OpToRel
<1>5. PICK T \in C : Cardinality(T) = n
  BY <1>3
<1>6. ASSUME NEW U \in C, U \subseteq T
      PROVE  U = T
  <2>1. ~(Cardinality(U) < Cardinality(T)) /\ Cardinality(U) \in Nat /\ Cardinality(T) \in Nat
    BY <1>1, <1>4, <1>5
  <2>2. Cardinality(U) <= Cardinality(T) /\ (Cardinality(U) = Cardinality(T) => T = U)
    BY ONLY <1>1, <1>6, FS_Subset
  <2> QED
    BY <2>1, <2>2
<1> QED
  BY <1>5, <1>6

-----------------------------------------------------------------------------
(* Sums over finite sets: MapThenSumSet, for a summand given as a function *)

Pick(s) == CHOOSE x \in s : TRUE

\* The function that MapThenFoldSet recurses with.
Sums(f, T, g) ==
    g = [s \in SUBSET T |-> IF s = {} THEN 0 ELSE f[Pick(s)] + g[s \ {Pick(s)}]]

SumOn(f, T) == (CHOOSE g : Sums(f, T, g))[T]

\* The recursive functions over two finite sets agree on the subsets of both.
LEMMA SumsAgree ==
    ASSUME NEW f, NEW T, IsFiniteSet(T), NEW U, NEW g, NEW h, Sums(f, T, g), Sums(f, U, h)
    PROVE  \A s \in SUBSET T : s \in SUBSET U => g[s] = h[s]
<1> DEFINE C == {s \in SUBSET T : s \in SUBSET U /\ g[s] # h[s]}
<1>1. SUFFICES ASSUME C # {} PROVE FALSE
  OBVIOUS
<1>2. PICK s \in C : \A u \in C : u \subseteq s => u = s
  <2> HIDE DEF C
  <2>1. C \in SUBSET SUBSET T
    BY DEF C
  <2> QED
    BY ONLY <1>1, <2>1, IsFiniteSet(T), MinimalSubset
<1>3. CASE s = {}
  BY <1>2, <1>3 DEF Sums
<1>4. CASE s # {}
  <2>1. Pick(s) \in s
    BY <1>4 DEF Pick
  <2>2. s \ {Pick(s)} \notin C
    BY <1>2, <2>1
  <2>3. g[s \ {Pick(s)}] = h[s \ {Pick(s)}]
    BY <1>2, <2>2
  <2>4. /\ g[s] = f[Pick(s)] + g[s \ {Pick(s)}]
        /\ h[s] = f[Pick(s)] + h[s \ {Pick(s)}]
    BY <1>2, <1>4 DEF Sums
  <2> QED
    BY <1>2, <2>3, <2>4
<1> QED
  BY <1>3, <1>4

\* The recursive function of a finite set exists.
LEMMA SumsExist ==
    ASSUME NEW f, NEW S, IsFiniteSet(S)
    PROVE  \E g : Sums(f, S, g)
<1> DEFINE C == {T \in SUBSET S : ~ \E g : Sums(f, T, g)}
           W(T) == CHOOSE g : Sums(f, T, g)
<1>1. SUFFICES ASSUME C # {} PROVE FALSE
  OBVIOUS
<1>2. PICK T \in C : \A U \in C : U \subseteq T => U = T
  <2> HIDE DEF C
  <2>1. C \in SUBSET SUBSET S
    BY DEF C
  <2> QED
    BY ONLY <1>1, <2>1, IsFiniteSet(S), MinimalSubset
<1>3. \A U \in SUBSET T : U # T => Sums(f, U, W(U)) /\ IsFiniteSet(U)
  <2> TAKE U \in SUBSET T
  <2> HAVE U # T
  <2>1. \E g : Sums(f, U, g)
    BY <1>2
  <2>2. IsFiniteSet(U)
    BY <1>2, FS_Subset
  <2> QED
    BY ONLY <2>1, <2>2
<1> DEFINE h == [s \in SUBSET T |-> IF s = {} THEN 0
                                    ELSE f[Pick(s)] + SumOn(f, s \ {Pick(s)})]
<1>4. \A s \in SUBSET T : s # {} => Pick(s) \in s /\ s \ {Pick(s)} \in SUBSET T /\ s \ {Pick(s)} # T
  BY DEF Pick
<1>5. \A s \in SUBSET T : s # T => h[s] = SumOn(f, s)
  <2> TAKE s \in SUBSET T
  <2> HAVE s # T
  <2>1. Sums(f, s, W(s)) /\ IsFiniteSet(s)
    BY <1>3
  <2>2. CASE s = {}
    BY <2>1, <2>2 DEF Sums, SumOn
  <2>3. CASE s # {}
    <3> DEFINE u == s \ {Pick(s)}
    <3>1. Sums(f, u, W(u)) /\ u \subseteq s
      BY <1>3, <1>4, <2>3
    <3>2. W(s)[u] = W(u)[u]
      BY ONLY <2>1, <3>1, SumsAgree
    <3>3. W(s)[s] = f[Pick(s)] + W(s)[u]
      BY ONLY <2>1, <2>3 DEF Sums
    <3>4. SumOn(f, s) = W(s)[s] /\ SumOn(f, u) = W(u)[u]
      BY DEF SumOn
    <3>5. h[s] = f[Pick(s)] + SumOn(f, u)
      BY <2>3
    <3> QED
      BY ONLY <3>2, <3>3, <3>4, <3>5
  <2> QED
    BY <2>2, <2>3
<1>6. \A s \in SUBSET T : s # {} => h[s \ {Pick(s)}] = SumOn(f, s \ {Pick(s)})
  <2> HIDE DEF h
  <2> QED
    BY ONLY <1>4, <1>5
<1>7. Sums(f, T, h)
  BY <1>6 DEF Sums
<1> QED
  BY <1>2, <1>7

\* What MapThenSumSet computes: nothing for no element, and one element more
\* adds its summand, whichever element is chosen first.
LEMMA SumEmpty == ASSUME NEW f PROVE SumOn(f, {}) = 0
<1>1. Sums(f, {}, CHOOSE g : Sums(f, {}, g))
  BY SumsExist, FS_EmptySet
<1> QED
  BY <1>1 DEF Sums, SumOn

\* The sum over a set that is not empty is that of one member and the rest.
LEMMA SumUnfolds ==
    ASSUME NEW f, NEW T, IsFiniteSet(T), T # {}
    PROVE  /\ Pick(T) \in T
           /\ SumOn(f, T) = f[Pick(T)] + SumOn(f, T \ {Pick(T)})
<1> DEFINE u == T \ {Pick(T)}
           W(s) == CHOOSE g : Sums(f, s, g)
<1>1. Pick(T) \in T /\ IsFiniteSet(u) /\ u \in SUBSET T
  BY FS_Subset DEF Pick
<1>2. Sums(f, T, W(T)) /\ Sums(f, u, W(u))
  BY <1>1, SumsExist
<1>3. W(T)[u] = W(u)[u]
  <2>1. u \in SUBSET u
    OBVIOUS
  <2> HIDE DEF u, W
  <2> QED
    BY ONLY <1>1, <1>2, <2>1, IsFiniteSet(T), SumsAgree
<1>4. W(T)[T] = f[Pick(T)] + W(T)[u]
  BY ONLY <1>2, T # {} DEF Sums
<1> QED
  BY <1>1, <1>3, <1>4 DEF SumOn

\* Every solution of the recursive equation over a finite set gives its sum.
LEMMA SumIsAny ==
    ASSUME NEW f, NEW S, IsFiniteSet(S), NEW w, Sums(f, S, w)
    PROVE  w[S] = SumOn(f, S)
<1> DEFINE v == CHOOSE g : Sums(f, S, g)
<1>1. Sums(f, S, v)
  BY SumsExist
<1>2. S \in SUBSET S
  OBVIOUS
<1>3. w[S] = v[S]
  <2> HIDE DEF v
  <2> QED
    BY ONLY <1>1, <1>2, IsFiniteSet(S), Sums(f, S, w), SumsAgree
<1> QED
  BY <1>3 DEF SumOn

\* A sum of integers is an integer.
LEMMA SumIsInt ==
    ASSUME NEW f, NEW S, IsFiniteSet(S), \A x \in S : f[x] \in Int
    PROVE  \A T \in SUBSET S : SumOn(f, T) \in Int
<1> DEFINE C == {T \in SUBSET S : SumOn(f, T) \notin Int}
<1>1. SUFFICES ASSUME C # {} PROVE FALSE
  OBVIOUS
<1>2. PICK T \in C : \A U \in C : U \subseteq T => U = T
  <2> HIDE DEF C
  <2>1. C \in SUBSET SUBSET S
    BY DEF C
  <2> QED
    BY ONLY <1>1, <2>1, IsFiniteSet(S), MinimalSubset
<1>3. T # {}
  <2>1. SumOn(f, {}) \in Int
    BY SumEmpty
  <2> QED
    BY <1>2, <2>1
<1>4. T \in SUBSET S /\ IsFiniteSet(T)
  BY <1>2, FS_Subset
<1>5. Pick(T) \in T /\ SumOn(f, T) = f[Pick(T)] + SumOn(f, T \ {Pick(T)})
  BY ONLY <1>3, <1>4, SumUnfolds
<1>6. T \ {Pick(T)} \notin C
  BY <1>2, <1>5
<1>7. SumOn(f, T \ {Pick(T)}) \in Int
  BY <1>4, <1>6
<1>8. f[Pick(T)] \in Int
  BY <1>4, <1>5
<1>9. SumOn(f, T) \in Int
  BY ONLY <1>5, <1>7, <1>8
<1> QED
  BY <1>2, <1>9

\* Any member of the set may be the one that is taken from the sum.
LEMMA SumAdds ==
    ASSUME NEW f, NEW S, IsFiniteSet(S), \A x \in S : f[x] \in Int
    PROVE  \A T \in SUBSET S : \A x \in T : SumOn(f, T) = f[x] + SumOn(f, T \ {x})
<1> DEFINE C == {T \in SUBSET S : \E x \in T : SumOn(f, T) # f[x] + SumOn(f, T \ {x})}
<1>1. SUFFICES ASSUME C # {} PROVE FALSE
  OBVIOUS
<1>2. PICK T \in C : \A U \in C : U \subseteq T => U = T
  <2> HIDE DEF C
  <2>1. C \in SUBSET SUBSET S
    BY DEF C
  <2> QED
    BY ONLY <1>1, <2>1, IsFiniteSet(S), MinimalSubset
<1>3. PICK x \in T : SumOn(f, T) # f[x] + SumOn(f, T \ {x})
  BY <1>2
<1>4. T \in SUBSET S /\ IsFiniteSet(T)
  BY <1>2, FS_Subset
<1> DEFINE p == Pick(T)
<1>5. p \in T /\ SumOn(f, T) = f[p] + SumOn(f, T \ {p})
  BY ONLY <1>3, <1>4, SumUnfolds
<1>6. x # p
  BY <1>3, <1>5
<1> DEFINE u == T \ {p}
           v == T \ {x}
           w == T \ {p, x}
<1>7. /\ x \in u /\ u \ {x} = w /\ u \in SUBSET S /\ u \notin C
      /\ p \in v /\ v \ {p} = w /\ v \in SUBSET S /\ v \notin C
      /\ w \in SUBSET S
  BY <1>2, <1>3, <1>4, <1>5, <1>6
<1>8. SumOn(f, u) = f[x] + SumOn(f, w) /\ SumOn(f, v) = f[p] + SumOn(f, w)
  <2> HIDE DEF u, v, w, p
  <2> QED
    BY <1>7
<1>9. SumOn(f, w) \in Int /\ f[x] \in Int /\ f[p] \in Int
  <2> HIDE DEF w, p
  <2>1. SumOn(f, w) \in Int
    BY ONLY <1>7, SumIsInt, IsFiniteSet(S), \A y \in S : f[y] \in Int
  <2> QED
    BY <1>3, <1>4, <1>5, <2>1
<1> QED
  BY ONLY <1>3, <1>5, <1>8, <1>9

\* Summands that agree have the same sum.
LEMMA SumAgrees ==
    ASSUME NEW f, NEW g, NEW S, IsFiniteSet(S), \A x \in S : f[x] = g[x]
    PROVE  \A T \in SUBSET S : SumOn(f, T) = SumOn(g, T)
<1> DEFINE C == {T \in SUBSET S : SumOn(f, T) # SumOn(g, T)}
<1>1. SUFFICES ASSUME C # {} PROVE FALSE
  OBVIOUS
<1>2. PICK T \in C : \A U \in C : U \subseteq T => U = T
  <2> HIDE DEF C
  <2>1. C \in SUBSET SUBSET S
    BY DEF C
  <2> QED
    BY ONLY <1>1, <2>1, IsFiniteSet(S), MinimalSubset
<1>3. T # {}
  BY <1>2, SumEmpty
<1>4. T \in SUBSET S /\ IsFiniteSet(T)
  BY <1>2, FS_Subset
<1>5. /\ Pick(T) \in T
      /\ SumOn(f, T) = f[Pick(T)] + SumOn(f, T \ {Pick(T)})
      /\ SumOn(g, T) = g[Pick(T)] + SumOn(g, T \ {Pick(T)})
  BY ONLY <1>3, <1>4, SumUnfolds
<1>6. T \ {Pick(T)} \notin C
  BY <1>2, <1>5
<1> QED
  BY <1>2, <1>4, <1>5, <1>6

\* What the members of a finite family of disjoint finite sets have together.
LEMMA SumOfCardinalities ==
    ASSUME NEW A, NEW S, IsFiniteSet(S), \A x \in S : IsFiniteSet(A[x]),
           \A x, y \in S : x # y => A[x] \cap A[y] = {}
    PROVE  LET f == [x \in S |-> Cardinality(A[x])]
           IN  SumOn(f, S) = Cardinality(UNION {A[x] : x \in S})
<1> DEFINE f == [x \in S |-> Cardinality(A[x])]
           All(T) == UNION {A[x] : x \in T}
           C == {T \in SUBSET S : ~(IsFiniteSet(All(T)) /\ SumOn(f, T) = Cardinality(All(T)))}
<1>1. SUFFICES ASSUME C # {} PROVE FALSE
  BY <1>1
<1>2. PICK T \in C : \A U \in C : U \subseteq T => U = T
  <2> HIDE DEF C
  <2>1. C \in SUBSET SUBSET S
    BY DEF C
  <2> QED
    BY ONLY <1>1, <2>1, IsFiniteSet(S), MinimalSubset
<1>3. T # {}
  <2>1. All({}) = {}
    OBVIOUS
  <2>2. SumOn(f, {}) = Cardinality(All({})) /\ IsFiniteSet(All({}))
    BY <2>1, SumEmpty, FS_EmptySet
  <2> QED
    BY <1>2, <2>2
<1>4. T \in SUBSET S /\ IsFiniteSet(T)
  BY <1>2, FS_Subset
<1> DEFINE p == Pick(T)
           u == T \ {p}
<1>5. p \in T /\ SumOn(f, T) = f[p] + SumOn(f, u)
  <2> HIDE DEF f
  <2> QED
    BY ONLY <1>3, <1>4, SumUnfolds
<1>6. u \notin C /\ u \in SUBSET S /\ p \in S
  BY <1>2, <1>4, <1>5
<1>7. IsFiniteSet(All(u)) /\ SumOn(f, u) = Cardinality(All(u))
  BY <1>6
<1>8. All(T) = All(u) \cup A[p] /\ All(u) \cap A[p] = {}
  BY <1>4, <1>5, <1>6
<1>9. /\ IsFiniteSet(All(T))
      /\ Cardinality(All(T)) = Cardinality(All(u)) + Cardinality(A[p])
  <2>1. IsFiniteSet(A[p])
    BY <1>6
  <2>2. Cardinality({}) = 0 /\ Cardinality(All(u)) \in Nat /\ Cardinality(A[p]) \in Nat
    BY <1>7, <2>1, FS_EmptySet, FS_CardinalityType
  <2> HIDE DEF All, u, p
  <2>3. /\ IsFiniteSet(All(u) \cup A[p])
        /\ Cardinality(All(u) \cup A[p]) = Cardinality(All(u)) + Cardinality(A[p])
                                           - Cardinality(All(u) \cap A[p])
    BY ONLY <1>7, <2>1, FS_Union
  <2>4. Cardinality(All(u) \cap A[p]) = 0
    BY ONLY <1>8, <2>2
  <2>5. Cardinality(All(u) \cup A[p]) = Cardinality(All(u)) + Cardinality(A[p])
    BY ONLY <2>2, <2>3, <2>4
  <2> QED
    BY ONLY <1>8, <2>3, <2>5
<1>10. f[p] = Cardinality(A[p]) /\ f[p] \in Nat /\ Cardinality(All(u)) \in Nat
  BY <1>6, <1>7, FS_CardinalityType
<1>11. SumOn(f, T) = Cardinality(All(T))
  <2> HIDE DEF f, All, u, p
  <2> QED
    BY ONLY <1>5, <1>7, <1>9, <1>10
<1> QED
  BY <1>2, <1>9, <1>11

-----------------------------------------------------------------------------
(* The cyclic tasks *)

\* The k-th release of a task, counted from 0, and the releases up to an instant.
Release(t, k) == FirstSchedule(t) + k * t.period

\* The period, offset and first release of a task, as the schema bounds them.
LEMMA TaskTyped ==
    ASSUME NEW t \in Tasks
    PROVE  /\ t.period \in Nat \ {0} /\ t.offset \in Nat /\ t.offset < t.period
           /\ FirstSchedule(t) \in Nat \ {0}
           /\ FirstSchedule(t) = t.offset \/ (FirstSchedule(t) = t.period /\ t.offset = 0)
<1>1. /\ t.period \in 1 .. MaxPeriod /\ t.offset \in 0 .. MaxPeriod - 1
      /\ t.offset < t.period
  BY DEF Tasks
<1>2. t.period \in Nat \ {0} /\ t.offset \in Nat
  BY ONLY <1>1, ScheduleAssumption
<1>3. CASE t.offset > 0
  <2>1. FirstSchedule(t) = t.offset
    BY <1>3 DEF FirstSchedule
  <2> QED
    BY <1>1, <1>2, <1>3, <2>1
<1>4. CASE ~(t.offset > 0)
  <2>1. FirstSchedule(t) = t.period /\ t.offset = 0
    BY <1>2, <1>4 DEF FirstSchedule
  <2> QED
    BY <1>1, <1>2, <2>1
<1> QED
  BY <1>3, <1>4

\* What the floor division of executions_at_or_before yields.
LEMMA DivisionBounds ==
    ASSUME NEW a \in Nat, NEW p \in Nat \ {0}, NEW k \in Nat
    PROVE  a \div p \in Nat /\ (k <= a \div p <=> k * p <= a)
<1> DEFINE d == a \div p
<1>1. d \in Nat /\ d * p <= a /\ a < d * p + p
  <2>1. a \div p \in Nat
    OBVIOUS
  <2>2. (a \div p) * p <= a /\ a < (a \div p) * p + p
    OBVIOUS
  <2> QED
    BY <2>1, <2>2
<1> HIDE DEF d
<1>2. ASSUME k <= d PROVE k * p <= a
  <2>1. (d - k) * p >= 0 /\ d * p = k * p + (d - k) * p
    BY ONLY <1>1, <1>2, k \in Nat, p \in Nat \ {0}
  <2> QED
    BY ONLY <1>1, <2>1, k \in Nat, p \in Nat \ {0}, a \in Nat
<1>3. ASSUME ~(k <= d) PROVE ~(k * p <= a)
  <2>1. (k - d - 1) * p >= 0 /\ k * p = d * p + p + (k - d - 1) * p
    BY ONLY <1>1, <1>3, k \in Nat, p \in Nat \ {0}
  <2> QED
    BY ONLY <1>1, <2>1, k \in Nat, p \in Nat \ {0}, a \in Nat
<1> QED
  BY <1>1, <1>2, <1>3 DEF d

\* What a remainder of zero in _task_run_summary means.
LEMMA Multiples ==
    ASSUME NEW a \in Nat, NEW p \in Nat \ {0}
    PROVE  a % p = 0 <=> \E k \in Nat : a = k * p
<1>1. a % p = 0 => a = (a \div p) * p
  OBVIOUS
<1>2. a \div p \in Nat
  OBVIOUS
<1>3. ASSUME NEW k \in Nat PROVE (k * p) % p = 0
  OBVIOUS
<1> QED
  BY <1>1, <1>2, <1>3

\* The instants that are due are the task's releases, one every period.
LEMMA ReleasesAreDue ==
    ASSUME NEW t \in Tasks, NEW at \in Nat
    PROVE  at >= FirstSchedule(t) /\ (at - t.offset) % t.period = 0
             <=> \E k \in Nat : at = Release(t, k)
<1> DEFINE p == t.period
           o == t.offset
           F == FirstSchedule(t)
<1>1. /\ p \in Nat \ {0} /\ o \in Nat /\ F \in Nat
      /\ F = o \/ (F = p /\ o = 0)
  BY TaskTyped
<1> HIDE DEF p, o, F
<1>2. ASSUME at >= F, (at - o) % p = 0
      PROVE  \E k \in Nat : at = F + k * p
  <2>1. at - o \in Nat
    BY <1>1, <1>2
  <2>2. PICK k \in Nat : at - o = k * p
    BY ONLY <1>1, <1>2, <2>1, Multiples
  <2>3. CASE F = o
    BY ONLY <1>1, <2>2, <2>3, at \in Nat, k \in Nat
  <2>4. CASE F = p /\ o = 0
    <3>1. k # 0
      BY ONLY <1>1, <1>2, <2>2, <2>4, at \in Nat, k \in Nat
    <3>2. k - 1 \in Nat /\ k * p = p + (k - 1) * p
      BY ONLY <1>1, <3>1, k \in Nat
    <3> QED
      BY ONLY <1>1, <2>2, <2>4, <3>2, at \in Nat, k \in Nat
  <2> QED
    BY <1>1, <2>3, <2>4
<1>3. ASSUME NEW k \in Nat, at = F + k * p
      PROVE  at >= F /\ (at - o) % p = 0
  <2>1. k * p \in Nat /\ at >= F
    <3>1. k * p \in Nat
      BY ONLY <1>1, k \in Nat
    <3> QED
      BY ONLY <1>1, <1>3, <3>1
  <2>2. \E j \in Nat : at - o = j * p
    <3>1. CASE F = o
      BY ONLY <1>1, <1>3, <2>1, <3>1, k \in Nat
    <3>2. CASE F = p /\ o = 0
      <4>1. k + 1 \in Nat /\ (k + 1) * p = p + k * p
        BY ONLY <1>1, k \in Nat
      <4> QED
        BY ONLY <1>1, <1>3, <2>1, <3>2, <4>1
    <3> QED
      BY <1>1, <3>1, <3>2
  <2>3. at - o \in Nat
    BY ONLY <1>1, <1>3, <2>1
  <2> QED
    BY ONLY <1>1, <2>1, <2>2, <2>3, Multiples
<1> QED
  BY <1>2, <1>3 DEF Release, p, o, F

\* executions_at_or_before counts the releases up to an instant.
LEMMA ExecutionsCount ==
    ASSUME NEW t \in Tasks, NEW at \in Nat
    PROVE  /\ ExecutionsAtOrBefore(t, at) \in Nat
           /\ \A k \in Nat : k < ExecutionsAtOrBefore(t, at) <=> Release(t, k) <= at
<1> DEFINE p == t.period
           F == FirstSchedule(t)
<1>1. p \in Nat \ {0} /\ F \in Nat
  BY TaskTyped
<1>2. CASE at < F
  <2>1. ASSUME NEW k \in Nat PROVE ~(F + k * p <= at)
    <3>1. k * p \in Nat
      BY ONLY <1>1, k \in Nat
    <3> QED
      BY ONLY <1>1, <1>2, <3>1, at \in Nat
  <2> QED
    BY <1>2, <2>1 DEF ExecutionsAtOrBefore, Release
<1>3. CASE ~(at < F)
  <2>1. at - F \in Nat
    BY <1>1, <1>3
  <2> DEFINE d == (at - F) \div p
  <2>2. d \in Nat /\ \A k \in Nat : k <= d <=> k * p <= at - F
    BY ONLY <1>1, <2>1, DivisionBounds
  <2>3. ExecutionsAtOrBefore(t, at) = d + 1
    BY <1>3 DEF ExecutionsAtOrBefore
  <2> HIDE DEF d, p, F
  <2>4. ASSUME NEW k \in Nat PROVE k < d + 1 <=> F + k * p <= at
    <3>1. k < d + 1 <=> k <= d
      BY <2>2
    <3>2. k * p \in Nat
      BY ONLY <1>1, k \in Nat
    <3>3. k * p <= at - F <=> F + k * p <= at
      BY ONLY <1>1, <3>2, at \in Nat
    <3> QED
      BY <2>2, <3>1, <3>3
  <2> QED
    BY <2>2, <2>3, <2>4 DEF Release, p, F
<1> QED
  BY <1>2, <1>3

\* _task_run_summary counts the due instants of a window and names the first
\* and the last of them.
LEMMA SummaryIsExact ==
    ASSUME NEW t \in Tasks, NEW from \in Nat, NEW to \in Nat, from <= to
    PROVE  LET summary == TaskRunSummary(t, from, to)
               instants == DueInstants(t, from, to)
           IN  /\ IsFiniteSet(instants) /\ summary.count = Cardinality(instants)
               /\ IF instants = {} THEN summary.first = None /\ summary.last = None
                  ELSE /\ summary.first \in instants /\ summary.last \in instants
                       /\ instants \subseteq summary.first .. summary.last
<1> DEFINE a == ExecutionsAtOrBefore(t, from)
           b == ExecutionsAtOrBefore(t, to)
           instants == DueInstants(t, from, to)
           summary == TaskRunSummary(t, from, to)
           R(k) == Release(t, k)
<1>1. /\ a \in Nat /\ \A k \in Nat : k < a <=> R(k) <= from
      /\ b \in Nat /\ \A k \in Nat : k < b <=> R(k) <= to
  BY ExecutionsCount
<1>2. /\ summary.count = b - a
      /\ summary.first = IF b = a THEN None ELSE R(a)
      /\ summary.last = IF b = a THEN None ELSE R(b - 1)
  BY DEF TaskRunSummary, Release
<1>3. \A k \in Nat : R(k) \in Nat
  <2> TAKE k \in Nat
  <2>1. t.period \in Nat /\ FirstSchedule(t) \in Nat
    BY TaskTyped
  <2>2. k * t.period \in Nat
    BY ONLY <2>1, k \in Nat
  <2> QED
    BY ONLY <2>1, <2>2 DEF Release
<1>4. \A j, k \in Nat : j < k => R(j) < R(k)
  <2> SUFFICES ASSUME NEW j \in Nat, NEW k \in Nat, j < k PROVE R(j) < R(k)
    OBVIOUS
  <2> DEFINE p == t.period
             F == FirstSchedule(t)
  <2>1. p \in Nat \ {0} /\ F \in Nat
    BY TaskTyped
  <2> HIDE DEF p, F
  <2>2. /\ (k - j - 1) * p >= 0 /\ k * p = j * p + p + (k - j - 1) * p
        /\ j * p \in Nat /\ k * p \in Nat
    BY ONLY <2>1, j < k, j \in Nat, k \in Nat
  <2>3. F + j * p < F + k * p
    BY ONLY <2>1, <2>2
  <2> QED
    BY <2>3 DEF Release, p, F
<1>5. \A at : at \in instants <=> \E k \in a .. b - 1 : at = R(k)
  <2> TAKE at
  <2>1. ASSUME at \in instants PROVE \E k \in a .. b - 1 : at = R(k)
    <3>1. /\ at \in Nat /\ from < at /\ at <= to
          /\ at >= FirstSchedule(t) /\ (at - t.offset) % t.period = 0
      BY <2>1 DEF DueInstants
    <3>2. PICK k \in Nat : at = R(k)
      BY ONLY <3>1, t \in Tasks, ReleasesAreDue
    <3>3. ~(k < a) /\ k < b
      BY <1>1, <3>1, <3>2
    <3> QED
      BY <1>1, <3>2, <3>3
  <2>2. ASSUME NEW k \in a .. b - 1, at = R(k) PROVE at \in instants
    <3>1. k \in Nat /\ ~(k < a) /\ k < b
      BY <1>1
    <3>2. at \in Nat /\ ~(at <= from) /\ at <= to
      BY <1>1, <1>3, <2>2, <3>1
    <3>3. at >= FirstSchedule(t) /\ (at - t.offset) % t.period = 0
      BY <2>2, <3>1, <3>2, ReleasesAreDue
    <3> QED
      BY <3>2, <3>3 DEF DueInstants
  <2> QED
    BY <2>1, <2>2
<1> HIDE DEF a, b, instants, summary, R
<1>6. a <= b
  <2>1. ASSUME b < a PROVE FALSE
    <3>1. R(b) <= from /\ ~(R(b) <= to) /\ R(b) \in Nat
      BY <1>1, <1>3, <2>1
    <3> QED
      BY <3>1
  <2> QED
    BY <1>1, <2>1
<1> DEFINE S == a .. b - 1
<1>7. IsFiniteSet(S) /\ Cardinality(S) = b - a
  <2>1. a \in Int /\ b - 1 \in Int
    BY <1>1
  <2>2. IsFiniteSet(S) /\ Cardinality(S) = IF a > b - 1 THEN 0 ELSE b - 1 - a + 1
    BY ONLY <2>1, FS_Interval
  <2> QED
    BY ONLY <1>1, <1>6, <2>2
<1>8. IsFiniteSet(instants) /\ Cardinality(instants) = b - a
  <2> DEFINE f == [k \in S |-> R(k)]
  <2>1. f \in [S -> instants] /\ \A at \in instants : \E k \in S : f[k] = at
    BY <1>5
  <2>2. \A j, k \in S : f[j] = f[k] => j = k
    <3> SUFFICES ASSUME NEW j \in S, NEW k \in S, f[j] = f[k], j # k PROVE FALSE
      OBVIOUS
    <3>1. j \in Nat /\ k \in Nat /\ R(j) = R(k)
      BY <1>1
    <3>2. R(j) \in Nat /\ R(k) \in Nat /\ (j < k \/ k < j)
      BY <1>3, <3>1
    <3> QED
      BY <1>4, <3>1, <3>2
  <2> HIDE DEF f, S
  <2>3. f \in Bijection(S, instants)
    BY ONLY <2>1, <2>2, Fun_IsBij
  <2>4. ExistsBijection(S, instants)
    BY <2>3 DEF ExistsBijection
  <2> QED
    BY ONLY <1>7, <2>4, FS_Bijection
<1>9. CASE a = b
  <2>1. instants = {}
    BY <1>1, <1>5, <1>9
  <2> QED
    BY <1>2, <1>8, <1>9, <2>1 DEF instants, summary
<1>10. CASE a # b
  <2>1. a \in S /\ b - 1 \in S /\ a \in Nat /\ b - 1 \in Nat
    BY <1>1, <1>6, <1>10
  <2>2. R(a) \in instants /\ R(b - 1) \in instants
    BY <1>5, <2>1
  <2>3. instants \subseteq R(a) .. R(b - 1)
    <3> SUFFICES ASSUME NEW at \in instants PROVE at \in R(a) .. R(b - 1)
      OBVIOUS
    <3>1. PICK k \in S : at = R(k)
      BY <1>5
    <3>2. k \in Nat /\ (k = a \/ a < k) /\ (k = b - 1 \/ k < b - 1)
      BY <1>1
    <3>3. R(a) <= R(k) /\ R(k) <= R(b - 1) /\ R(k) \in Nat
      BY <1>3, <1>4, <2>1, <3>2
    <3>4. R(a) \in Nat /\ R(b - 1) \in Nat
      BY <1>3, <2>1
    <3> QED
      BY <3>1, <3>3, <3>4
  <2>4. summary.first = R(a) /\ summary.last = R(b - 1) /\ instants # {}
    BY <1>2, <1>10, <2>2
  <2> QED
    BY <1>2, <1>8, <2>2, <2>3, <2>4 DEF instants, summary
<1> QED
  BY <1>9, <1>10

-----------------------------------------------------------------------------
(* The commands of one ECU *)

BoundedFaults(row) ==
    \A c \in Codes : row.faults[c] # None => row.faults[c].occurrences <= MaxCount + 1

\* What ActiveCriticalMeansFault says, of any row.
FaultsHoldState(row) ==
    \A c \in Codes :
        LET f == row.faults[c]
        IN  f # None /\ f.critical /\ f.active /\ f.status = "confirmed" => row.state = "fault"

\* What every command makes of the row it has read.
Offers(old, new) ==
    /\ new \in Row
    /\ new.version = old.version + 1
    /\ old.time <= new.time
    /\ BoundedFaults(new)
    /\ FaultsHoldState(old) => FaultsHoldState(new)

\* A latched confirmed fault stays confirmed.
Keeps(old, new) ==
    \A c \in Codes :
        LET f == old.faults[c]
        IN  f # None /\ f.status = "confirmed" /\ f.latched =>
              new.faults[c] # None /\ new.faults[c].status = "confirmed"

\* What a request has read: a row that has a next version.
Readable(row) == row \in Row /\ row.version < MaxVersion /\ BoundedFaults(row)

\* What is stored or read is told apart from what is absent.
LEMMA RowsAreNotNone ==
    /\ \A row \in Row : row # None
    /\ \A f \in Fault : f # None
    /\ \A k \in Command : k # None
BY EcuAssumption

\* A row with its version advanced is what a command offers, if its components are.
LEMMA BumpOffers ==
    ASSUME NEW old \in Row, NEW new \in Row, Bump(new) \in Row, 
           new.version = old.version,  old.time <= new.time, BoundedFaults(new), 
           FaultsHoldState(old) => FaultsHoldState(new)
    PROVE  Offers(old, Bump(new))
BY DEF Offers, Row, Bump, BoundedFaults, FaultsHoldState

\* Advancing the version changes nothing else.
LEMMA BumpIsRow ==
    ASSUME NEW row \in Row
    PROVE  /\ Bump(row) \in Row
           /\ Bump(row).version = row.version + 1
           /\ Bump(row).state = row.state /\ Bump(row).faults = row.faults
           /\ Bump(row).memory = row.memory /\ Bump(row).signal = row.signal
           /\ Bump(row).time = row.time /\ Bump(row).boots = row.boots
BY DEF Row, Bump

Observed(f, status, active, occurrences, healing) ==
    [f EXCEPT !.status = status, !.active = active,
              !.occurrences = occurrences, !.healing = healing]

\* An observation leaves a fault of the type.
LEMMA FaultWith ==
    \A f \in Fault, status \in {"pending", "confirmed", "healed"}, active \in BOOLEAN,
       occurrences \in Nat, healing \in Nat :
        Observed(f, status, active, occurrences, healing) \in Fault
<1> TAKE f \in Fault, status \in {"pending", "confirmed", "healed"}, active \in BOOLEAN,
         occurrences \in Nat, healing \in Nat
<1> QED
  BY DEF Fault, Observed

\* A detection counts one more occurrence and never unconfirms a fault.
LEMMA DetectionIsFault ==
    ASSUME NEW f \in Fault
    PROVE  /\ Detection(f) \in Fault
           /\ f.status = "confirmed" => Detection(f).status = "confirmed"
           /\ Detection(f).occurrences = f.occurrences + 1
<1> DEFINE status == Status(f.status = "confirmed" \/ f.occurrences + 1 >= f.confirm)
           g == Observed(f, status, TRUE, f.occurrences + 1, 0)
<1>1. Detection(f) = g
  BY DEF Detection, Fault, Observed
<1>2. /\ status \in {"pending", "confirmed", "healed"}
      /\ f.status = "confirmed" => status = "confirmed"
  BY DEF Status
<1> HIDE DEF status
<1>3. g.status = status /\ g.occurrences = f.occurrences + 1
  BY DEF Observed, Fault
<1>4. g \in Fault
  <2>1. f \in Fault /\ TRUE \in BOOLEAN /\ 0 \in Nat /\ f.occurrences + 1 \in Nat
    BY DEF Fault
  <2> QED
    BY ONLY <1>2, <2>1, FaultWith, Zenon
<1> HIDE DEF g
<1> QED
  BY <1>1, <1>2, <1>3, <1>4

\* An absence counts no occurrence; only an unlatched fault heals by it.
LEMMA AbsenceIsFault ==
    ASSUME NEW f \in Fault
    PROVE  /\ Absence(f) \in Fault
           /\ f.latched /\ f.status = "confirmed" => Absence(f).status = "confirmed"
           /\ Absence(f).occurrences <= f.occurrences
<1> DEFINE healed == ~(f.latched /\ f.status = "confirmed") /\ f.healing + 1 >= f.heal
           status == IF healed THEN "healed" ELSE f.status
           active == ~healed
           occurrences == IF f.status = "pending" THEN 0 ELSE f.occurrences
           g == Observed(f, status, active, occurrences, f.healing + 1)
<1>1. Absence(f) = g
  BY DEF Absence, Fault, Observed
<1>2. /\ status \in {"pending", "confirmed", "healed"}
      /\ f.latched /\ f.status = "confirmed" => status = "confirmed"
      /\ active \in BOOLEAN
      /\ occurrences \in Nat /\ occurrences <= f.occurrences
  BY DEF Fault
<1> HIDE DEF active, status, occurrences
<1>3. g.status = status /\ g.occurrences = occurrences
  BY DEF Observed, Fault
<1>4. g \in Fault
  <2>1. f \in Fault /\ f.healing + 1 \in Nat
    BY DEF Fault
  <2> QED
    BY ONLY <1>2, <2>1, FaultWith, Zenon
<1> HIDE DEF g
<1> QED
  BY <1>1, <1>2, <1>3, <1>4

\* A cleared fault is of the type, with its occurrences as they were.
LEMMA ClearedIsFault ==
    ASSUME NEW f \in Fault
    PROVE  /\ [f EXCEPT !.status = "healed", !.active = FALSE, !.latched = FALSE] \in Fault
           /\ [f EXCEPT !.status = "healed", !.active = FALSE,
                        !.latched = FALSE].occurrences = f.occurrences
BY DEF Fault

\* The first detection of a fault code.
LEMMA FirstIsFault ==
    ASSUME NEW p \in Policies
    PROVE  /\ FirstDetection(p) \in Fault /\ FirstDetection(p).occurrences = 1
BY EcuAssumption DEF Fault, Policy, FirstDetection, Status

\* _apply_fault_operational_state: a row with one fault replaced, and the state that follows
\* from its faults.
LEMMA WithFaultOffers ==
    ASSUME NEW old \in Row, BoundedFaults(old), NEW c \in Codes, NEW fault \in Fault,
           fault.occurrences <= MaxCount + 1
    PROVE  LET new == WithFault(old, c, fault)
           IN  /\ Offers(old, new)
               /\ new.faults = [old.faults EXCEPT ![c] = fault]
<1> DEFINE faults == [old.faults EXCEPT ![c] = fault]
           state == FaultState(old.state, faults)
           changed == [old EXCEPT !.faults = faults, !.state = state]
<1>1. /\ faults \in [Codes -> Fault \cup {None}]
      /\ \A d \in Codes : faults[d] = IF d = c THEN fault ELSE old.faults[d]
  BY DEF Row
<1>2. /\ state \in OperationalStates
      /\ \A d \in Codes : faults[d] # None /\ faults[d].active /\ faults[d].critical
                          /\ faults[d].status = "confirmed" => state = "fault"
  BY DEF FaultState, Row, OperationalStates
<1> HIDE DEF faults, state
<1>3. changed \in Row /\ changed.faults = faults /\ changed.state = state
      /\ changed.version = old.version /\ changed.time = old.time
  BY <1>1, <1>2 DEF Row
<1> HIDE DEF changed
<1>4. WithFault(old, c, fault) = Bump(changed)
  BY DEF WithFault, changed, faults, state
<1>5. /\ Bump(changed) \in Row /\ Bump(changed).version = old.version + 1
      /\ Bump(changed).faults = faults /\ Bump(changed).state = state
      /\ Bump(changed).time = old.time
  BY <1>3, BumpIsRow
<1>6. BoundedFaults(Bump(changed))
  BY <1>1, <1>5 DEF BoundedFaults
<1>7. FaultsHoldState(Bump(changed))
  BY <1>2, <1>5 DEF FaultsHoldState
<1>8. old.time <= old.time
  BY DEF Row
<1> QED
  BY <1>4, <1>5, <1>6, <1>7, <1>8 DEF Offers, faults

-----------------------------------------------------------------------------

\* A command that writes the ECU: what it makes of what it has read, what it
\* stores of itself, and how it treats latched faults.
Writes(q, new) ==
    /\ request[q] # None
    /\ Offers(request[q], new)
    /\ Store(q, new)
    /\ snapshots' = snapshots
    /\ \/ commands' = commands
       \/ \E kind \in Kinds, image \in Image : RecordWith(q, kind, new, image)
    /\ \/ Keeps(request[q], new)
       \/ new.faults \in ReplacementFaults
       \/ \E image \in Image : RecordWith(q, "fault_clear", new, image)

\* The types, for any number of requests in flight.
EcuTypeInv ==
    /\ EcuTypeOK
    /\ IsFiniteSet({i \in CommandIds : Stored(i)})
    /\ \A q \in Requests : request[q] # None => Readable(request[q])
    /\ \A i \in CommandIds :
         Stored(i) => commands[i].previous < commands[i].version
                      /\ commands[i].from <= commands[i].to

\* A row with other components in place of some, as the commands make it.
LEMMA SameFaultsOffer ==
    ASSUME NEW old \in Row, BoundedFaults(old), NEW new \in Row,
           new.version = old.version, old.time <= new.time, new.faults = old.faults,
           FaultsHoldState(old) => FaultsHoldState(new)
    PROVE  Offers(old, Bump(new)) /\ Keeps(old, Bump(new))
<1>1. /\ Bump(new) \in Row /\ Bump(new).version = new.version + 1
      /\ Bump(new).state = new.state /\ Bump(new).faults = new.faults
      /\ Bump(new).time = new.time
  BY BumpIsRow
<1>2. BoundedFaults(Bump(new))
  BY <1>1 DEF BoundedFaults
<1>3. FaultsHoldState(old) => FaultsHoldState(Bump(new))
  BY <1>1 DEF FaultsHoldState
<1>4. Keeps(old, Bump(new))
  BY <1>1 DEF Keeps
<1> QED
  BY <1>1, <1>2, <1>3, <1>4 DEF Offers

\* replace_ecu_state, execute_ecu_advance and execute_ecu_reset: each stores one row, made
\* from the row that was read.
LEMMA StateCommandWrites ==
    ASSUME EcuTypeInv, NEW q \in Requests, StateCommand(q)
    PROVE  \E new : Writes(q, new)
<1> DEFINE old == request[q]
<1>1. old \in Row /\ old # None /\ Readable(old) /\ BoundedFaults(old)
  BY DEF EcuTypeInv, EcuTypeOK, StateCommand, ReplaceState, Advance, Reset, Readable
<1>2. CASE ReplaceState(q)
  <2>1. PICK state \in OperationalStates, faults \in ReplacementFaults, image \in Image :
          LET new == [old EXCEPT !.state = state, !.faults = faults, !.memory = image]
          IN  ValidState(new) /\ Store(q, Bump(new))
    BY <1>2 DEF ReplaceState
  <2> DEFINE new == [old EXCEPT !.state = state, !.faults = faults, !.memory = image]
  <2>2. /\ new \in Row /\ new.faults = faults /\ new.version = old.version
        /\ new.time = old.time
    BY <1>1, EcuAssumption DEF Row
  <2>3. BoundedFaults(new)
    <3>1. \A c \in Codes : faults[c] # None => faults[c].occurrences <= MaxCount /\ faults[c] \in Fault
      BY <2>1, <2>2, EcuAssumption DEF ValidState, ValidFaults, ValidFault
    <3> QED
      BY <2>2, <3>1, EcuAssumption DEF BoundedFaults, Fault
  <2>4. FaultsHoldState(new)
    BY <2>1 DEF FaultsHoldState, ValidState, CriticalFault
  <2> HIDE DEF new
  <2>5. Offers(old, Bump(new)) /\ Bump(new).faults = faults
    <3>1. Bump(new) \in Row /\ Bump(new).version = old.version + 1 /\ Bump(new).time = old.time
          /\ Bump(new).faults = new.faults /\ Bump(new).state = new.state
      BY <2>2, BumpIsRow
    <3>2. BoundedFaults(Bump(new)) /\ FaultsHoldState(Bump(new))
      BY <2>3, <2>4, <3>1 DEF BoundedFaults, FaultsHoldState
    <3>3. old.time <= old.time
      BY <1>1 DEF Row
    <3> QED
      BY <2>2, <3>1, <3>2, <3>3 DEF Offers
  <2> QED
    BY <1>1, <1>2, <2>1, <2>5 DEF Writes, ReplaceState, new
<1>3. ASSUME NEW duration \in 1 .. 2, Advance(q, duration)
      PROVE  \E new : Writes(q, new)
  <2> DEFINE new == [old EXCEPT !.time = @ + duration]
  <2>1. /\ new \in Row /\ new.version = old.version /\ old.time <= new.time
        /\ new.faults = old.faults /\ new.state = old.state
    BY <1>1 DEF Row
  <2>2. RecordWith(q, "advance", Bump(new), Bump(new).memory)
    BY <1>3 DEF Advance, Record
  <2> HIDE DEF new
  <2>3. FaultsHoldState(old) => FaultsHoldState(new)
    BY <2>1 DEF FaultsHoldState
  <2>4. Offers(old, Bump(new)) /\ Keeps(old, Bump(new))
    BY <1>1, <2>1, <2>3, SameFaultsOffer
  <2>5. Bump(new).memory \in Image /\ "advance" \in Kinds
    BY <2>1, BumpIsRow DEF Row, Kinds
  <2> QED
    BY <1>1, <2>2, <2>4, <2>5 DEF Writes, RecordWith
<1>4. ASSUME NEW hard \in BOOLEAN, Reset(q, hard)
      PROVE  \E new : Writes(q, new)
  <2> DEFINE state == IF CriticalFault(old.faults) THEN "fault" ELSE "offline"
             new == [old EXCEPT !.state = state, !.memory.volatile = @ /\ ~hard,
                                !.time = @ + (IF hard THEN 2 ELSE 1), !.boots = @ + 1]
  <2>1. state \in OperationalStates /\ (CriticalFault(old.faults) => state = "fault")
    BY DEF OperationalStates
  <2>2. RecordWith(q, "reset", Bump(new), Bump(new).memory)
    BY <1>4 DEF Reset, Record
  <2> DEFINE memory == [old.memory EXCEPT !.volatile = @ /\ ~hard]
             time == old.time + (IF hard THEN 2 ELSE 1)
             other == [old EXCEPT !.state = state, !.memory = memory, !.time = time,
                                  !.boots = old.boots + 1]
  <2>3. time \in Nat /\ old.time <= time /\ old.boots + 1 \in Nat /\ old.memory \in Image
    BY <1>1 DEF Row
  <2>4. memory \in Image
    <3> DEFINE volatile == old.memory.volatile /\ ~hard
    <3>1. volatile \in BOOLEAN
      OBVIOUS
    <3>2. memory = [old.memory EXCEPT !.volatile = volatile]
      BY <2>3 DEF Image
    <3> HIDE DEF volatile, memory
    <3> QED
      BY ONLY <2>3, <3>1, <3>2 DEF Image
  <2>5. new = other
    BY <1>1 DEF Row
  <2> HIDE DEF state, memory, time
  <2>6. /\ other \in Row /\ other.version = old.version /\ other.time = time
        /\ other.faults = old.faults /\ other.state = state
    BY <1>1, <2>1, <2>3, <2>4 DEF Row
  <2>7. /\ new \in Row /\ new.version = old.version /\ old.time <= new.time
        /\ new.faults = old.faults /\ new.state = state
    BY ONLY <2>3, <2>5, <2>6
  <2> HIDE DEF new
  <2>8. FaultsHoldState(new)
    BY <2>1, <2>7 DEF FaultsHoldState, CriticalFault
  <2>9. Offers(old, Bump(new)) /\ Keeps(old, Bump(new))
    BY <1>1, <2>7, <2>8, SameFaultsOffer
  <2>10. Bump(new).memory \in Image /\ "reset" \in Kinds
    BY <2>7, BumpIsRow DEF Row, Kinds
  <2> QED
    BY <1>1, <2>2, <2>9, <2>10 DEF Writes, RecordWith
<1> QED
  BY <1>2, <1>3, <1>4 DEF StateCommand

\* restore_memory_snapshot and corrupt_ecu_memory: each stores one such row.
LEMMA MemoryCommandWrites ==
    ASSUME EcuTypeInv, NEW q \in Requests, RestoreSnapshot(q) \/ CorruptMemory(q)
    PROVE  \E new : Writes(q, new)
<1> DEFINE old == request[q]
<1>1. old \in Row /\ old # None /\ Readable(old) /\ BoundedFaults(old)
  BY DEF EcuTypeInv, EcuTypeOK, RestoreSnapshot, CorruptMemory, Readable
<1>2. CASE RestoreSnapshot(q)
  <2>1. PICK image \in snapshots : Store(q, Bump([old EXCEPT !.memory = image]))
    BY <1>2 DEF RestoreSnapshot
  <2> DEFINE new == [old EXCEPT !.memory = image]
  <2>2. /\ new \in Row /\ new.version = old.version /\ old.time <= new.time
        /\ new.faults = old.faults /\ new.state = old.state
    BY <1>1 DEF Row, EcuTypeInv, EcuTypeOK
  <2> HIDE DEF new
  <2>3. FaultsHoldState(old) => FaultsHoldState(new)
    BY <2>2 DEF FaultsHoldState
  <2>4. Offers(old, Bump(new)) /\ Keeps(old, Bump(new))
    BY <1>1, <2>2, <2>3, SameFaultsOffer
  <2> QED
    BY <1>1, <1>2, <2>1, <2>4 DEF Writes, RestoreSnapshot, new
<1>3. CASE CorruptMemory(q)
  <2>1. PICK image \in Image : RecordWith(q, "memory_corruption", Bump(old), image)
    BY <1>3 DEF CorruptMemory
  <2>2. old.time <= old.time
    BY <1>1 DEF Row
  <2>3. Offers(old, Bump(old)) /\ Keeps(old, Bump(old))
    BY <1>1, <2>2, SameFaultsOffer
  <2>4. "memory_corruption" \in Kinds
    BY DEF Kinds
  <2> QED
    BY <1>1, <2>1, <2>3, <2>4 DEF Writes, RecordWith
<1> QED
  BY <1>2, <1>3

\* publish_ecu_signal on one ECU stores one such row.
LEMMA PublishWrites ==
    ASSUME EcuTypeInv, NEW q \in Requests, PublishSignal(q)
    PROVE  \E new : Writes(q, new)
<1> DEFINE old == request[q]
<1>1. old \in Row /\ old # None /\ Readable(old) /\ BoundedFaults(old)
  BY DEF EcuTypeInv, EcuTypeOK, PublishSignal, Readable
<1>2. PICK value \in BOOLEAN : Record(q, "signal_publish", Bump([old EXCEPT !.signal = value]))
  BY DEF PublishSignal
<1> DEFINE new == [old EXCEPT !.signal = value]
<1>3. /\ new \in Row /\ new.version = old.version /\ old.time <= new.time
      /\ new.faults = old.faults /\ new.state = old.state
  BY <1>1 DEF Row
<1>4. RecordWith(q, "signal_publish", Bump(new), Bump(new).memory)
  BY <1>2 DEF Record
<1> HIDE DEF new
<1>5. FaultsHoldState(old) => FaultsHoldState(new)
  BY <1>3 DEF FaultsHoldState
<1>6. Offers(old, Bump(new)) /\ Keeps(old, Bump(new))
  BY <1>1, <1>3, <1>5, SameFaultsOffer
<1>7. Bump(new).memory \in Image /\ "signal_publish" \in Kinds
  BY <1>3, BumpIsRow DEF Row, Kinds
<1> QED
  BY <1>1, <1>4, <1>6, <1>7 DEF Writes, RecordWith

\* observe_ecu_fault stores one such row.
LEMMA ObservationWrites ==
    ASSUME EcuTypeInv, NEW q \in Requests, NEW c \in Codes, NEW detected \in BOOLEAN,
           ObserveFault(q, c, detected)
    PROVE  \E new : Writes(q, new)
<1> DEFINE old == request[q]
           current == old.faults[c]
<1>1. old \in Row /\ old # None /\ BoundedFaults(old)
  BY DEF EcuTypeInv, EcuTypeOK, ObserveFault, Readable
<1>2. PICK fault :
        /\ fault \in IF ~Known(current)
                     THEN IF detected THEN {FirstDetection(p) : p \in Policies} ELSE {}
                     ELSE {IF detected THEN Detection(current) ELSE Absence(current)}
        /\ Record(q, "fault_observation", WithFault(old, c, fault))
  BY DEF ObserveFault
<1>3. Known(current) => current \in Fault /\ current.occurrences <= MaxCount
  BY <1>1 DEF ObserveFault, ValidFaults, ValidFault, Known, Row
<1>4. /\ fault \in Fault /\ fault.occurrences <= MaxCount + 1
      /\ current # None /\ current.status = "confirmed" /\ current.latched =>
           fault.status = "confirmed"
  <2>1. CASE ~Known(current)
    <3>1. PICK p \in Policies : fault = FirstDetection(p)
      BY <1>2, <2>1
    <3>2. current = None \/ current.status # "confirmed"
      BY <2>1 DEF Known
    <3> QED
      BY <3>1, <3>2, FirstIsFault, EcuAssumption
  <2>2. CASE Known(current)
    <3>1. fault = Detection(current) \/ fault = Absence(current)
      BY <1>2, <2>2
    <3>2. current \in Fault /\ current.occurrences \in Nat /\ current.occurrences <= MaxCount
      BY <1>3, <2>2 DEF Fault
    <3>3. CASE fault = Detection(current)
      BY <3>2, <3>3, DetectionIsFault, EcuAssumption
    <3>4. CASE fault = Absence(current)
      <4>1. fault \in Fault /\ fault.occurrences \in Nat
        BY <3>2, <3>4, AbsenceIsFault DEF Fault
      <4> QED
        BY <3>2, <3>4, <4>1, AbsenceIsFault, EcuAssumption
    <3> QED
      BY <3>1, <3>3, <3>4
  <2> QED
    BY <2>1, <2>2
<1> DEFINE new == WithFault(old, c, fault)
<1>5. Offers(old, new) /\ new.faults = [old.faults EXCEPT ![c] = fault]
  BY <1>1, <1>4, WithFaultOffers
<1>6. RecordWith(q, "fault_observation", new, new.memory)
  BY <1>2 DEF Record
<1> HIDE DEF new
<1>7. Keeps(old, new)
  <2>1. \A d \in Codes : new.faults[d] = IF d = c THEN fault ELSE old.faults[d]
    BY <1>1, <1>5 DEF Row
  <2>2. fault # None
    BY <1>4, RowsAreNotNone
  <2> QED
    BY <1>4, <2>1, <2>2 DEF Keeps
<1>8. new.memory \in Image /\ "fault_observation" \in Kinds
  BY <1>5 DEF Offers, Row, Kinds
<1> QED
  BY <1>1, <1>5, <1>6, <1>7, <1>8 DEF Writes, RecordWith

\* clear_ecu_fault stores one such row.
LEMMA ClearingWrites ==
    ASSUME EcuTypeInv, NEW q \in Requests, NEW c \in Codes, ClearFault(q, c)
    PROVE  \E new : Writes(q, new)
<1> DEFINE old == request[q]
           fault == [old.faults[c] EXCEPT !.status = "healed", !.active = FALSE,
                                          !.latched = FALSE]
           new == WithFault(old, c, fault)
<1>1. old \in Row /\ old # None /\ BoundedFaults(old)
  BY DEF EcuTypeInv, EcuTypeOK, ClearFault, Readable
<1>2. old.faults[c] \in Fault /\ old.faults[c].occurrences <= MaxCount + 1
  BY <1>1 DEF ClearFault, Known, Row, BoundedFaults
<1>3. fault \in Fault /\ fault.occurrences <= MaxCount + 1
  BY <1>2, ClearedIsFault
<1>4. RecordWith(q, "fault_clear", new, new.memory)
  BY DEF Record, ClearFault
<1> HIDE DEF fault
<1>5. Offers(old, new)
  BY <1>1, <1>3, WithFaultOffers
<1> HIDE DEF new
<1>6. new.memory \in Image /\ "fault_clear" \in Kinds
  BY <1>5 DEF Offers, Row, Kinds
<1> QED
  BY <1>1, <1>4, <1>5, <1>6 DEF Writes, RecordWith

-----------------------------------------------------------------------------

\* The stored commands.
StoredIds == {i \in CommandIds : Stored(i)}

\* What a command stores of itself.
Entry(old, kind, new, image) ==
    [kind |-> kind, previous |-> old.version, version |-> new.version,
     from |-> old.time, to |-> new.time, memory |-> image]

\* A command is stored under an identifier of its own, as the row has it.
LEMMA RecordStores ==
    ASSUME EcuTypeInv, NEW q \in Requests, NEW new, request[q] # None, Offers(request[q], new),
           NEW kind \in Kinds, NEW image \in Image, RecordWith(q, kind, new, image)
    PROVE  \E i \in CommandIds :
             LET entry == Entry(request[q], kind, new, image)
             IN  /\ commands[i] = None /\ entry \in Command
                 /\ commands' = [commands EXCEPT ![i] = entry]
                 /\ commands' \in [CommandIds -> Command \cup {None}]
<1> DEFINE i == CHOOSE i \in Free : TRUE
           entry == Entry(request[q], kind, new, image)
<1>1. i \in CommandIds /\ commands[i] = None
  BY DEF RecordWith, Free
<1>2. commands' = [commands EXCEPT ![i] = entry]
  BY DEF RecordWith, Entry
<1>3. request[q] \in Row /\ new \in Row
  BY DEF EcuTypeInv, EcuTypeOK, Offers
<1>4. entry \in Command
  BY <1>3 DEF Row, Command, Entry
<1> HIDE DEF i, entry
<1>5. commands' \in [CommandIds -> Command \cup {None}]
  BY <1>1, <1>2, <1>4 DEF EcuTypeInv, EcuTypeOK
<1> QED
  BY <1>1, <1>2, <1>4, <1>5 DEF entry

\* Whatever was committed since it read, a command leaves a row of the types.
LEMMA StoreIsRow ==
    ASSUME EcuTypeInv, NEW q \in Requests, NEW new, request[q] # None,
           Offers(request[q], new), Store(q, new)
    PROVE  /\ ecu' \in Row /\ ecu'.version = new.version /\ ecu'.version <= MaxVersion
           /\ BoundedFaults(ecu')
           /\ request' = [request EXCEPT ![q] = None]
           /\ ecu'.faults \in {ecu.faults, new.faults}
           /\ request[q] = ecu => ecu' = new
           /\ overtaken' \in Nat /\ (overtaken' = 0 => overtaken = 0 /\ request[q] = ecu)
<1> DEFINE old == request[q]
<1>1. old \in Row /\ ecu \in Row /\ new \in Row
  BY DEF EcuTypeInv, EcuTypeOK, Offers
<1>2. ecu' = [f \in DOMAIN ecu |-> IF new[f] = old[f] THEN ecu[f] ELSE new[f]]
  BY DEF Store
<1>3. DOMAIN ecu = {"state", "faults", "memory", "signal", "time", "boots", "version"}
  BY <1>1 DEF Row
<1>4. \A f \in DOMAIN ecu : ecu'[f] = IF new[f] = old[f] THEN ecu[f] ELSE new[f]
  BY <1>2
<1>5. ecu' = [state |-> ecu'.state, faults |-> ecu'.faults, memory |-> ecu'.memory,
              signal |-> ecu'.signal, time |-> ecu'.time, boots |-> ecu'.boots,
              version |-> ecu'.version]
  <2>1. DOMAIN ecu' = {"state", "faults", "memory", "signal", "time", "boots", "version"}
    BY <1>2, <1>3
  <2>2. ecu' = [f \in DOMAIN ecu' |-> ecu'[f]]
    BY <1>2
  <2> QED
    BY <2>1, <2>2
<1>6. /\ ecu'.state \in {ecu.state, new.state} /\ ecu'.faults \in {ecu.faults, new.faults}
      /\ ecu'.memory \in {ecu.memory, new.memory} /\ ecu'.signal \in {ecu.signal, new.signal}
      /\ ecu'.time \in {ecu.time, new.time} /\ ecu'.boots \in {ecu.boots, new.boots}
  BY <1>3, <1>4
<1>7. ecu'.version = new.version
  <2>1. new.version # old.version
    BY <1>1 DEF Offers, Row
  <2> QED
    BY <1>3, <1>4, <2>1
<1>8. ecu' \in Row
  BY <1>1, <1>5, <1>6, <1>7 DEF Row
<1>9. new.version <= MaxVersion
  BY <1>1, EcuAssumption DEF Offers, EcuTypeInv, Readable, Row
<1>10. BoundedFaults(ecu')
  BY <1>6 DEF BoundedFaults, EcuTypeInv, EcuTypeOK, Offers
<1>11. ASSUME old = ecu PROVE ecu' = new
  <2>1. \A f \in DOMAIN ecu : ecu'[f] = new[f]
    BY <1>4, <1>11
  <2>2. new = [state |-> new.state, faults |-> new.faults, memory |-> new.memory,
               signal |-> new.signal, time |-> new.time, boots |-> new.boots,
               version |-> new.version]
    BY <1>1 DEF Row
  <2> QED
    BY <1>3, <1>5, <2>1, <2>2
<1>12. overtaken' \in Nat /\ (overtaken' = 0 => overtaken = 0 /\ old = ecu)
  <2>1. overtaken \in Nat /\ overtaken' = overtaken + (IF old = ecu THEN 0 ELSE 1)
    BY DEF EcuTypeInv, EcuTypeOK, Store
  <2> HIDE DEF old
  <2> QED
    BY ONLY <2>1
<1> QED
  BY <1>6, <1>7, <1>8, <1>9, <1>10, <1>11, <1>12 DEF Store

\* A command that stores its row keeps the types.
LEMMA WritesKeepsTypes ==
    ASSUME EcuTypeInv, NEW q \in Requests, NEW new, Writes(q, new)
    PROVE  EcuTypeInv'
<1>1. /\ request[q] # None /\ Offers(request[q], new) /\ Store(q, new)
      /\ snapshots' = snapshots
  BY DEF Writes
<1>2. /\ ecu' \in Row /\ ecu'.version <= MaxVersion /\ BoundedFaults(ecu')
      /\ request' = [request EXCEPT ![q] = None] /\ overtaken' \in Nat
  BY <1>1, StoreIsRow
<1>3. /\ commands' \in [CommandIds -> Command \cup {None}]
      /\ IsFiniteSet({i \in CommandIds : Stored(i)'})
      /\ \A i \in CommandIds :
           Stored(i)' => commands'[i].previous < commands'[i].version
                         /\ commands'[i].from <= commands'[i].to
  <2>1. CASE commands' = commands
    BY <2>1 DEF EcuTypeInv, EcuTypeOK, Stored
  <2>2. ASSUME NEW kind \in Kinds, NEW image \in Image, RecordWith(q, kind, new, image)
        PROVE  <1>3!:
    <3> DEFINE entry == Entry(request[q], kind, new, image)
    <3>1. PICK i \in CommandIds :
             /\ commands[i] = None /\ entry \in Command
             /\ commands' = [commands EXCEPT ![i] = entry]
             /\ commands' \in [CommandIds -> Command \cup {None}]
      BY <1>1, <2>2, RecordStores
    <3>2. request[q] \in Row /\ new \in Row
      BY <1>1 DEF EcuTypeInv, EcuTypeOK, Offers
    <3>3. entry.previous < entry.version /\ entry.from <= entry.to
      BY <1>1, <3>2 DEF Entry, Offers, Row
    <3> HIDE DEF entry
    <3>4. \A j \in CommandIds : commands'[j] = IF j = i THEN entry ELSE commands[j]
      BY <3>1 DEF EcuTypeInv, EcuTypeOK
    <3>5. {j \in CommandIds : Stored(j)'} = {j \in CommandIds : Stored(j)} \cup {i}
      BY <3>1, <3>4, RowsAreNotNone DEF Stored
    <3>6. IsFiniteSet({j \in CommandIds : Stored(j)'})
      BY <3>5, FS_AddElement DEF EcuTypeInv
    <3> QED
      BY <3>1, <3>3, <3>4, <3>6 DEF EcuTypeInv, Stored
  <2> QED
    BY <2>1, <2>2 DEF Writes
<1>4. request' \in [Requests -> Row \cup {None}]
  BY <1>2 DEF EcuTypeInv, EcuTypeOK
<1>5. \A p \in Requests : request'[p] # None => Readable(request'[p])
  BY <1>2 DEF EcuTypeInv, EcuTypeOK
<1>6. EcuTypeOK'
  BY <1>1, <1>2, <1>3, <1>4 DEF EcuTypeInv, EcuTypeOK, BoundedFaults
<1> QED
  BY <1>3, <1>5, <1>6 DEF EcuTypeInv

\* Every command but a snapshot stores one row, made from the row that was read.
LEMMA ExecuteWrites ==
    ASSUME EcuTypeInv, NEW q \in Requests, Execute(q)
    PROVE  CreateSnapshot(q) \/ \E new : Writes(q, new)
BY StateCommandWrites, MemoryCommandWrites, PublishWrites, ObservationWrites, ClearingWrites
   DEF Execute, MemoryCommand, SignalCommand

\* An ECU that was just created.
LEMMA EcuTypesInit == EcuInit => EcuTypeInv
<1> SUFFICES ASSUME EcuInit PROVE EcuTypeInv
  OBVIOUS
<1>1. PICK state \in OperationalStates :
         ecu = [state |-> state, faults |-> [c \in Codes |-> None],
                memory |-> [volatile |-> FALSE, nonvolatile |-> FALSE],
                signal |-> FALSE, time |-> 0, boots |-> 0, version |-> 1]
  BY DEF EcuInit
<1>2. ecu \in Row /\ ecu.version <= MaxVersion /\ \A c \in Codes : ecu.faults[c] = None
  <2>1. [c \in Codes |-> None] \in [Codes -> Fault \cup {None}]
    OBVIOUS
  <2>2. [volatile |-> FALSE, nonvolatile |-> FALSE] \in Image
    BY DEF Image
  <2> QED
    BY <1>1, <2>1, <2>2, EcuAssumption DEF Row
<1>3. {i \in CommandIds : Stored(i)} = {}
  BY DEF EcuInit, Stored
<1>4. IsFiniteSet({i \in CommandIds : Stored(i)})
  BY <1>3, FS_EmptySet
<1>5. EcuTypeOK
  BY <1>2 DEF EcuTypeOK, EcuInit
<1> QED
  BY <1>4, <1>5 DEF EcuTypeInv, EcuInit, Stored

\* Every step of the commands keeps the types.
LEMMA EcuTypesStep ==
    ASSUME EcuTypeInv, EcuStep \/ UNCHANGED ecuVars
    PROVE  EcuTypeInv'
<1>1. CASE UNCHANGED ecuVars
  BY <1>1 DEF ecuVars, EcuTypeInv, EcuTypeOK, Stored
<1>2. ASSUME NEW q \in Requests, LoadEcu(q)
      PROVE  EcuTypeInv'
  <2>1. Readable(ecu)
    BY <1>2 DEF LoadEcu, Readable, BoundedFaults, EcuTypeInv, EcuTypeOK
  <2>2. \A p \in Requests : request'[p] # None => Readable(request'[p])
    BY <1>2, <2>1 DEF LoadEcu, EcuTypeInv, EcuTypeOK
  <2> QED
    BY <1>2, <2>2 DEF LoadEcu, EcuTypeInv, EcuTypeOK, Stored
<1>3. ASSUME NEW q \in Requests, Abandon(q) \/ CreateSnapshot(q)
      PROVE  EcuTypeInv'
  <2>1. /\ request' = [request EXCEPT ![q] = None] /\ request[q] # None
        /\ UNCHANGED <<ecu, commands, overtaken>>
        /\ snapshots' = snapshots \/ snapshots' = snapshots \cup {request[q].memory}
    BY <1>3 DEF Abandon, CreateSnapshot
  <2>2. request[q] \in Row
    BY <2>1 DEF EcuTypeInv, EcuTypeOK
  <2>3. snapshots' \subseteq Image
    BY <2>1, <2>2 DEF EcuTypeInv, EcuTypeOK, Row
  <2>4. \A p \in Requests : request'[p] # None => Readable(request'[p])
    BY <2>1 DEF EcuTypeInv, EcuTypeOK
  <2> QED
    BY <2>1, <2>3, <2>4 DEF EcuTypeInv, EcuTypeOK, Stored
<1>4. ASSUME NEW q \in Requests, Execute(q)
      PROVE  EcuTypeInv'
  BY <1>3, <1>4, ExecuteWrites, WritesKeepsTypes
<1> QED
  BY <1>1, <1>2, <1>3, <1>4 DEF EcuStep

-----------------------------------------------------------------------------
(* Until an overtaken request is stored *)

\* Until then the commands are one history, and no fault is left out of account.
EcuInv ==
    /\ EcuTypeInv
    /\ ActiveCriticalMeansFault
    /\ overtaken = 0 => CommandsAreOneHistory

\* What a step may do to a latched fault, as LatchedNeedsClearing has it.
LatchedStep ==
    \A c \in Codes :
         LET f == ecu.faults[c]
         IN  f # None /\ f.status = "confirmed" /\ f.latched /\ ecu'.faults[c] # f =>
               \/ ecu'.faults[c] # None /\ ecu'.faults[c].status = "confirmed"
               \/ \E q \in Requests : /\ request[q] # None /\ request'[q] = None
                                      /\ request[q].faults # ecu.faults
               \/ ecu'.faults \in ReplacementFaults
               \/ \E i \in CommandIds : commands[i] = None /\ commands'[i] # None
                                       /\ commands'[i].kind = "fault_clear"

\* An ECU that was just created has no history.
LEMMA EcuInvInit == EcuInit => EcuInv
<1> SUFFICES ASSUME EcuInit PROVE EcuInv
  OBVIOUS
<1>1. \A i \in CommandIds : ~Stored(i)
  BY DEF EcuInit, Stored
<1>2. CommandsAreOneHistory
  BY ONLY <1>1 DEF CommandsAreOneHistory, VersionsAreUsedOnce
<1>3. \A c \in Codes : ecu.faults[c] = None
  BY DEF EcuInit
<1> QED
  BY <1>2, <1>3, EcuTypesInit DEF EcuInv, ActiveCriticalMeansFault

\* A command that has read the present row continues the history.
LEMMA WritesContinue ==
    ASSUME EcuInv, NEW q \in Requests, NEW new, Writes(q, new), overtaken = 0, request[q] = ecu
    PROVE  ActiveCriticalMeansFault' /\ CommandsAreOneHistory'
<1>1. /\ request[q] = ecu /\ request[q] # None /\ Offers(ecu, new) /\ Store(q, new)
      /\ EcuTypeInv
  BY DEF Writes, EcuInv
<1>2. ecu' = new /\ request' = [request EXCEPT ![q] = None]
  BY <1>1, StoreIsRow
<1>5. ActiveCriticalMeansFault'
  <2>1. FaultsHoldState(ecu)
    BY DEF EcuInv, ActiveCriticalMeansFault, FaultsHoldState
  <2>2. FaultsHoldState(new)
    BY <1>1, <2>1 DEF Offers
  <2> QED
    BY <1>2, <2>2 DEF ActiveCriticalMeansFault, FaultsHoldState
<1>6. ecu \in Row /\ new \in Row /\ new.version = ecu.version + 1 /\ ecu.time <= new.time
  BY <1>1 DEF EcuTypeInv, EcuTypeOK, Offers
<1>7. ASSUME NEW i \in CommandIds, Stored(i)
      PROVE  /\ commands[i].previous < commands[i].version /\ commands[i].version <= ecu.version
             /\ commands[i].from <= commands[i].to /\ commands[i].to <= ecu.time
             /\ commands[i].previous \in Nat /\ commands[i].version \in Nat
             /\ commands[i].from \in Nat /\ commands[i].to \in Nat
  <2>1. commands[i] \in Command
    BY <1>1, <1>7 DEF Stored, EcuTypeInv, EcuTypeOK
  <2> QED
    BY <1>1, <1>7, <2>1 DEF EcuInv, EcuTypeInv, CommandsAreOneHistory, Command
<1>8. ecu.version \in Nat /\ ecu.time \in Nat /\ new.time \in Nat
  BY <1>6 DEF Row
<1>9. CommandsAreOneHistory'
  <2>1. CASE commands' = commands
    BY <1>2, <1>6, <1>7, <1>8, <2>1
       DEF EcuInv, CommandsAreOneHistory, VersionsAreUsedOnce, Stored
  <2>2. ASSUME NEW kind \in Kinds, NEW image \in Image, RecordWith(q, kind, new, image)
        PROVE  CommandsAreOneHistory'
    <3> DEFINE entry == Entry(ecu, kind, new, image)
    <3>1. PICK i \in CommandIds :
             /\ commands[i] = None /\ entry \in Command
             /\ commands' = [commands EXCEPT ![i] = entry]
      BY <1>1, <2>2, RecordStores
    <3>2. /\ entry.previous = ecu.version /\ entry.version = ecu.version + 1
          /\ entry.from = ecu.time /\ entry.to = new.time
      BY <1>6 DEF Entry
    <3> HIDE DEF entry
    <3>3. \A j \in CommandIds : commands'[j] = IF j = i THEN entry ELSE commands[j]
      BY <1>1, <3>1 DEF EcuTypeInv, EcuTypeOK
    <3>4. entry # None
      BY <3>1, RowsAreNotNone
    <3>5. \A j \in CommandIds : Stored(j)' <=> j = i \/ Stored(j)
      BY <3>1, <3>3, <3>4 DEF Stored
    <3>6. ~Stored(i)
      BY <3>1 DEF Stored
    <3>7. \A j \in CommandIds : Stored(j) => commands'[j] = commands[j] /\ j # i
      BY <3>3, <3>6
    <3>8. VersionsAreUsedOnce'
      BY <1>7, <1>8, <3>2, <3>3, <3>5, <3>7
         DEF EcuInv, CommandsAreOneHistory, VersionsAreUsedOnce
    <3>9. ASSUME NEW j \in CommandIds, NEW k \in CommandIds, Stored(j)', Stored(k)',
                 commands'[j].previous < commands'[k].previous
          PROVE  commands'[j].version <= commands'[k].previous
                 /\ commands'[j].to <= commands'[k].from
      <4>1. j # i
        <5>1. CASE j = i
          <6>1. CASE k = i
            BY <1>8, <3>2, <3>3, <3>9, <5>1, <6>1
          <6>2. CASE k # i
            BY <1>7, <1>8, <3>2, <3>3, <3>5, <3>9, <5>1, <6>2
          <6> QED
            BY <6>1, <6>2
        <5> QED
          BY <5>1
      <4>2. CASE k = i
        BY <1>7, <3>2, <3>3, <3>5, <3>9, <4>1, <4>2
      <4>3. CASE k # i
        BY <3>3, <3>5, <3>9, <4>1, <4>3 DEF EcuInv, CommandsAreOneHistory
      <4> QED
        BY <4>2, <4>3
    <3>10. \A j \in CommandIds : Stored(j)' => commands'[j].version <= ecu'.version
                                              /\ commands'[j].to <= ecu'.time
      BY <1>2, <1>6, <1>7, <1>8, <3>2, <3>3, <3>5
    <3> QED
      BY <3>8, <3>9, <3>10 DEF CommandsAreOneHistory
  <2> QED
    BY <2>1, <2>2 DEF Writes
<1> QED
  BY <1>5, <1>9

\* A command that is stored keeps the invariant: one that was overtaken is counted.
LEMMA WritesKeepHistory ==
    ASSUME EcuInv, NEW q \in Requests, NEW new, Writes(q, new)
    PROVE  EcuInv'
<1>1. EcuTypeInv'
  BY WritesKeepsTypes DEF EcuInv
<1>2. overtaken' = 0 => overtaken = 0 /\ request[q] = ecu
  BY StoreIsRow DEF Writes, EcuInv
<1>3. overtaken' = 0 => ActiveCriticalMeansFault' /\ CommandsAreOneHistory'
  BY <1>2, WritesContinue
<1>4. overtaken' # 0 => ActiveCriticalMeansFault'
  BY DEF ActiveCriticalMeansFault
<1> QED
  BY <1>1, <1>3, <1>4 DEF EcuInv

\* A command that has read the present faults keeps the latched ones, unless it is
\* a clear or a replacement.
LEMMA WritesKeepLatched ==
    ASSUME EcuTypeInv, NEW q \in Requests, NEW new, Writes(q, new)
    PROVE  LatchedStep
<1>1. /\ request[q] # None /\ Offers(request[q], new) /\ Store(q, new)
  BY DEF Writes
<1>2. /\ ecu'.faults \in {ecu.faults, new.faults} /\ request' = [request EXCEPT ![q] = None]
  BY <1>1, StoreIsRow
<1>3. CASE request[q].faults # ecu.faults
  <2>1. request'[q] = None
    BY <1>2 DEF EcuTypeInv, EcuTypeOK
  <2> QED
    BY <1>1, <1>3, <2>1 DEF LatchedStep
<1>4. CASE ecu'.faults = ecu.faults
  BY <1>4 DEF LatchedStep
<1>5. CASE request[q].faults = ecu.faults /\ ecu'.faults = new.faults
  <2>1. CASE Keeps(request[q], new)
    BY <1>5, <2>1 DEF LatchedStep, Keeps
  <2>2. CASE new.faults \in ReplacementFaults
    BY <1>5, <2>2 DEF LatchedStep
  <2>3. ASSUME NEW image \in Image, RecordWith(q, "fault_clear", new, image)
        PROVE  LatchedStep
    <3>1. "fault_clear" \in Kinds
      BY DEF Kinds
    <3> DEFINE entry == Entry(request[q], "fault_clear", new, image)
    <3>2. PICK i \in CommandIds :
             /\ commands[i] = None /\ entry \in Command
             /\ commands' = [commands EXCEPT ![i] = entry]
      BY <1>1, <2>3, <3>1, RecordStores
    <3>3. entry.kind = "fault_clear" /\ entry # None
      BY <3>2, RowsAreNotNone DEF Entry
    <3> HIDE DEF entry
    <3>4. commands'[i] = entry
      BY <3>2 DEF EcuTypeInv, EcuTypeOK
    <3> QED
      BY <3>2, <3>3, <3>4 DEF LatchedStep
  <2> QED
    BY <2>1, <2>2, <2>3 DEF Writes
<1> QED
  BY <1>2, <1>3, <1>4, <1>5

\* Every step of the commands, whatever requests are in flight.
LEMMA EcuInvStep ==
    ASSUME EcuInv, EcuStep \/ UNCHANGED ecuVars
    PROVE  EcuInv' /\ LatchedStep
<1>1. EcuTypeInv'
  BY EcuTypesStep DEF EcuInv
<1>2. ASSUME UNCHANGED <<ecu, commands, overtaken>>
      PROVE  EcuInv' /\ LatchedStep
  <2>1. ActiveCriticalMeansFault' /\ (overtaken = 0 => CommandsAreOneHistory)'
    BY <1>2 DEF EcuInv, ActiveCriticalMeansFault, CommandsAreOneHistory, VersionsAreUsedOnce,
                Stored
  <2>2. LatchedStep
    BY <1>2 DEF LatchedStep
  <2> QED
    BY <1>1, <2>1, <2>2 DEF EcuInv
<1>3. ASSUME NEW q \in Requests, Execute(q)
      PROVE  EcuInv' /\ LatchedStep
  <2>1. CreateSnapshot(q) \/ \E new : Writes(q, new)
    BY <1>3, ExecuteWrites DEF EcuInv
  <2> QED
    BY <1>2, <2>1, WritesKeepHistory, WritesKeepLatched DEF EcuInv, CreateSnapshot
<1> QED
  BY <1>2, <1>3 DEF EcuStep, LoadEcu, Abandon, ecuVars

\* A step of the fleet is one of the commands, or leaves the commands alone.
LEMMA StepSplits ==
    ASSUME [Next]_vars
    PROVE  EcuStep \/ UNCHANGED ecuVars
BY DEF Next, vars

\* The rows, commands and snapshots of an ECU have their types, and versions stay
\* in bounds, however many requests are in flight (ecus/service.py).
THEOREM EcuTypes == Spec => []EcuTypeOK
<1>1. Init => EcuTypeInv
  BY EcuTypesInit DEF Init
<1>2. EcuTypeInv /\ [Next]_vars => EcuTypeInv'
  BY StepSplits, EcuTypesStep
<1>3. EcuTypeInv => EcuTypeOK
  BY DEF EcuTypeInv
<1> QED
  BY <1>1, <1>2, <1>3, PTL DEF Spec

\* EcuInv is invariant, whatever requests are in flight.
THEOREM EcuInvariance == Spec => []EcuInv
<1>1. Init => EcuInv
  BY EcuInvInit DEF Init
<1>2. EcuInv /\ [Next]_vars => EcuInv'
  BY StepSplits, EcuInvStep
<1> QED
  BY <1>1, <1>2, PTL DEF Spec

\* A confirmed active critical fault puts its ECU in the fault state, whatever
\* observations, clears, resets, restores and replacements are made and whatever
\* requests are in flight, until one is stored that had read an older row
\* (_apply_fault_operational_state, and require_ecu before the row lock).
THEOREM CriticalFaultsHold == Spec => []ActiveCriticalMeansFault
<1>1. EcuInv => ActiveCriticalMeansFault
  BY DEF EcuInv
<1> QED
  BY <1>1, EcuInvariance, PTL

\* A latched confirmed fault stays confirmed until it is cleared by fault_clear or
\* the whole state is replaced, however many requests overlap and whatever they
\* have overwritten: only a request that had read other faults than are stored
\* takes it away (ecus/service.py).
THEOREM LatchedFaultsHold == Spec => LatchedNeedsClearing
<1>1. EcuInv /\ [Next]_vars => [LatchedStep]_ecuVars
  BY StepSplits, EcuInvStep
<1>2. Spec => [][LatchedStep]_ecuVars
  BY <1>1, EcuInvariance, PTL DEF Spec
<1> QED
  BY <1>2 DEF LatchedNeedsClearing, LatchedStep

-----------------------------------------------------------------------------
(* The stored advances *)

\* The stored advances count every release of a cyclic task exactly once: their
\* windows are disjoint, so that the sum of the counts is the number of instants.
LEMMA TaskRunsFollow == EcuTypeInv /\ CommandsAreOneHistory => TaskRunsAreDue
<1> SUFFICES ASSUME EcuTypeInv, CommandsAreOneHistory PROVE TaskRunsAreDue
  OBVIOUS
<1> SUFFICES ASSUME NEW t \in Tasks
             PROVE  LET Summary(i) == TaskRunSummary(t, commands[i].from, commands[i].to)
                        Instants(i) == DueInstants(t, commands[i].from, commands[i].to)
                    IN  /\ \A i \in Advances :
                             IF Instants(i) = {} THEN Summary(i).first = None /\ Summary(i).last = None
                             ELSE /\ Summary(i).first \in Instants(i)
                                  /\ Summary(i).last \in Instants(i)
                                  /\ Instants(i) \subseteq Summary(i).first .. Summary(i).last
                        /\ MapThenSumSet(LAMBDA i : Summary(i).count, Advances)
                             = Cardinality(UNION {Instants(i) : i \in Advances})
  BY DEF TaskRunsAreDue
<1> DEFINE Summary(i) == TaskRunSummary(t, commands[i].from, commands[i].to)
           Instants(i) == DueInstants(t, commands[i].from, commands[i].to)
<1>1. \A i \in Advances : /\ i \in CommandIds /\ Stored(i)
                          /\ commands[i].from \in Nat /\ commands[i].to \in Nat
                          /\ commands[i].from <= commands[i].to
                          /\ commands[i].previous \in Nat
  <2> TAKE i \in Advances
  <2>1. i \in CommandIds /\ Stored(i)
    BY DEF Advances
  <2>2. commands[i] \in Command
    BY <2>1 DEF Stored, EcuTypeInv, EcuTypeOK
  <2> QED
    BY <2>1, <2>2 DEF EcuTypeInv, Command
<1>2. ASSUME NEW i \in Advances
      PROVE  /\ IsFiniteSet(Instants(i)) /\ Summary(i).count = Cardinality(Instants(i))
             /\ IF Instants(i) = {} THEN Summary(i).first = None /\ Summary(i).last = None
                ELSE /\ Summary(i).first \in Instants(i)
                     /\ Summary(i).last \in Instants(i)
                     /\ Instants(i) \subseteq Summary(i).first .. Summary(i).last
  BY <1>1, SummaryIsExact
<1>3. IsFiniteSet(Advances)
  <2>1. Advances \subseteq {i \in CommandIds : Stored(i)}
    BY DEF Advances
  <2> QED
    BY <2>1, FS_Subset DEF EcuTypeInv
<1>4. ASSUME NEW i \in Advances, NEW j \in Advances, i # j
      PROVE  Instants(i) \cap Instants(j) = {}
  <2>1. commands[i].previous # commands[j].previous
    BY <1>1, <1>4 DEF CommandsAreOneHistory, VersionsAreUsedOnce
  <2>2. commands[i].to <= commands[j].from \/ commands[j].to <= commands[i].from
    BY <1>1, <2>1 DEF CommandsAreOneHistory
  <2>3. /\ \A at \in Instants(i) : at \in Nat /\ commands[i].from < at /\ at <= commands[i].to
        /\ \A at \in Instants(j) : at \in Nat /\ commands[j].from < at /\ at <= commands[j].to
    BY <1>1 DEF DueInstants
  <2> QED
    BY <1>1, <2>2, <2>3
<1> DEFINE A == [i \in Advances |-> Instants(i)]
           f == [i \in Advances |-> Cardinality(A[i])]
           count == [i \in Advances |-> Summary(i).count]
<1>5. SumOn(f, Advances) = Cardinality(UNION {A[i] : i \in Advances})
  <2>1. \A i \in Advances : IsFiniteSet(A[i])
    BY <1>2
  <2>2. \A i, j \in Advances : i # j => A[i] \cap A[j] = {}
    BY <1>4
  <2> HIDE DEF A
  <2> QED
    BY ONLY <1>3, <2>1, <2>2, SumOfCardinalities
<1>6. UNION {A[i] : i \in Advances} = UNION {Instants(i) : i \in Advances}
  OBVIOUS
<1>7. SumOn(count, Advances) = SumOn(f, Advances)
  <2>1. \A i \in Advances : count[i] = f[i]
    BY <1>2
  <2>2. Advances \in SUBSET Advances
    OBVIOUS
  <2> HIDE DEF count, f
  <2> QED
    BY ONLY <1>3, <2>1, <2>2, SumAgrees
<1>8. MapThenSumSet(LAMBDA i : Summary(i).count, Advances) = SumOn(count, Advances)
  <2> DEFINE Solves(g) == g = [s \in SUBSET Advances |->
                 IF s = {} THEN 0
                 ELSE Summary(CHOOSE x \in s : TRUE).count + g[s \ {CHOOSE x \in s : TRUE}]]
             w == CHOOSE g : Solves(g)
  <2>1. MapThenSumSet(LAMBDA i : Summary(i).count, Advances) = w[Advances]
    BY ONLY DEF MapThenSumSet, MapThenFoldSet
  <2>2. ASSUME NEW g PROVE Solves(g) <=> Sums(count, Advances, g)
    <3> HIDE DEF Advances, Summary
    <3>1. \A s \in SUBSET Advances : s # {} =>
             Pick(s) \in Advances /\ count[Pick(s)] = Summary(Pick(s)).count
      BY ONLY DEF Pick
    <3> HIDE DEF count
    <3>2. [s \in SUBSET Advances |->
              IF s = {} THEN 0
              ELSE Summary(CHOOSE x \in s : TRUE).count + g[s \ {CHOOSE x \in s : TRUE}]]
          = [s \in SUBSET Advances |-> IF s = {} THEN 0 ELSE count[Pick(s)] + g[s \ {Pick(s)}]]
      BY ONLY <3>1 DEF Pick
    <3> QED
      BY ONLY <3>2 DEF Sums
  <2>3. \E g : Sums(count, Advances, g)
    BY ONLY <1>3, SumsExist
  <2>4. Sums(count, Advances, w)
    <3> HIDE DEF count, Advances, Solves
    <3> QED
      BY ONLY <2>2, <2>3
  <2> HIDE DEF count, Advances, w
  <2> QED
    BY ONLY <1>3, <2>1, <2>4, SumIsAny
<1> QED
  BY <1>2, <1>5, <1>6, <1>7, <1>8

-----------------------------------------------------------------------------
(* Requests that involve several ECUs *)

FleetRow == [produced : Values, consumed : Values, version : Nat]
StoredCommand ==
    [kind : {"publish", "change", "transfer"}, ecu : Ecus,
     execution : Executions \cup {NoRequest}, index : Nat, previous : Nat, consumed : Values,
     route : Routes \cup {NoRequest}]

\* A transaction that has seen the rows of read.
Transaction(read) ==
    [kind : {"direct", "scenario"}, execution : Executions \cup {NoRequest},
     plan : Seq(PlannedActions), seen : [read -> FleetRow],
     locks : SUBSET read, touched : SUBSET read, results : Seq(StoredCommand)]

\* What it holds, has seen and has done fits its plan.
WellFormed(t) ==
    /\ DOMAIN t.seen \subseteq Ecus /\ t \in Transaction(DOMAIN t.seen)
    /\ Len(t.plan) > 0 /\ Len(t.results) <= Len(t.plan)
    /\ t.touched \subseteq t.locks
    /\ \A i \in DOMAIN t.results :
         /\ t.results[i].ecu \in t.locks
         /\ t.results[i].kind = t.plan[i].kind
         /\ t.results[i].execution = t.execution
         /\ t.results[i].index = i
    /\ \/ /\ t.kind = "scenario" /\ t.execution \in Executions /\ t.plan \in Plans
          /\ DOMAIN t.seen \in {{}, Ecus}
       \/ t.kind = "direct" /\ t.execution = NoRequest /\ Len(t.plan) = 1

Claimed(c) == Active(c) /\ client[c].kind = "scenario" /\ ~Waiting(c)

\* Transactions hold different rows; one scenario at most is claimed.
ClientsInv ==
    /\ \A c \in Clients : Active(c) => WellFormed(client[c])
    /\ \A c, d \in Clients : Active(c) /\ Active(d) /\ c # d =>
                               client[c].locks \cap client[d].locks = {}
    /\ \A c, d \in Clients : Claimed(c) /\ Claimed(d) => c = d
    /\ \A c \in Clients : Claimed(c) => client[c].execution \notin executions

\* The inductive invariant of the transactions, whatever the routes are.
NetworkInv ==
    /\ fleet \in [Ecus -> FleetRow]
    /\ routes \subseteq Routes /\ executions \subseteq Executions
    /\ stored \in Seq(StoredCommand)
    /\ client = [c \in Clients |-> client[c]]
    /\ InProgress <= MaxStored
    /\ ClientsInv
    /\ ScenariosAreWhole

\* A transfer keeps what it has seen under its locks, and puts into the target
\* what it has seen in the source.  What it has seen of its gateway, which it
\* read before, may be older.
Current(t) ==
    t.kind = "direct" /\ t.plan[1].kind = "transfer" =>
        LET r == t.plan[1].route
        IN  /\ DOMAIN t.seen \subseteq {r.gateway} \cup t.locks
            /\ t.locks \subseteq {r.source, r.target} /\ t.touched \subseteq {r.target}
            /\ Len(t.results) = 0 =>
                 t.touched = {} /\ \A e \in t.locks \ {r.gateway} : t.seen[e] = fleet[e]
            /\ Len(t.results) # 0 =>
                 /\ r \in routes /\ {r.source, r.target} \subseteq t.locks
                 /\ t.results[1].ecu = r.target /\ t.results[1].route = r
                 /\ r.gateway # r.target =>
                      /\ t.results[1].previous = fleet[r.target].version
                      /\ t.seen[r.target].version = fleet[r.target].version + 1
                      /\ t.seen[r.target].produced = fleet[r.target].produced
                      /\ r.target \notin t.touched =>
                           t.seen[r.target].consumed = fleet[r.target].consumed
                      /\ r.gateway # r.source =>
                           t.seen[r.target].consumed = fleet[r.source].produced

ActedOn(t, e) == {i \in DOMAIN t.results : t.results[i].ecu = e}

\* The versions a transaction has given out to the rows, while no other has
\* committed.
Counted(t, rows) ==
    /\ \A e \in rows :
         t.seen[e].version = fleet[e].version + Cardinality(ActedOn(t, e))
    /\ \A i \in DOMAIN t.results :
         LET e == t.results[i].ecu
         IN  /\ fleet[e].version <= t.results[i].previous
             /\ t.results[i].previous < t.seen[e].version
    /\ \A i, j \in DOMAIN t.results :
         i # j /\ t.results[i].ecu = t.results[j].ecu =>
             t.results[i].previous # t.results[j].previous

OnlyTransfers ==
    \A i \in DOMAIN stored :
        stored[i].kind = "transfer" /\ i \notin ByScenarios
        /\ stored[i].route.gateway # stored[i].ecu
OnlyScenarios == ByScenarios = DOMAIN stored

\* What the updates are, while they are of one kind.
VersionsCount ==
    /\ \A e \in Ecus :
         /\ fleet[e].version = 1 + Cardinality(CommandsOn(e))
         /\ \A i, j \in CommandsOn(e) : i # j => stored[i].previous # stored[j].previous
    /\ \A i \in DOMAIN stored : stored[i].previous < fleet[stored[i].ecu].version

\* The inductive invariant of the updates.
SerialInv ==
    /\ NetworkInv
    /\ \A c \in Clients : Active(c) => Current(client[c])
    /\ OnlyScenarios => \A c \in Clients : Claimed(c) => Counted(client[c], DOMAIN client[c].seen)
    /\ OnlyTransfers \/ OnlyScenarios => VersionsCount

\* The rows of an action, in the order in which they are locked.
LEMMA ActionShape ==
    ASSUME NEW a \in PlannedActions
    PROVE  /\ a.kind \in {"publish", "change", "transfer"}
           /\ Len(a.rows) \in {1, 2} /\ DOMAIN a.rows = 1 .. Len(a.rows)
           /\ \A i \in DOMAIN a.rows : a.rows[i] \in Ecus
           /\ a.kind = "publish" => a.value \in Values
           /\ a.kind = "transfer" =>
                /\ a.route \in Routes /\ a.route.source # a.route.target
                /\ Len(a.rows) = 2
                /\ a.rows[1] = a.route.source /\ a.rows[2] = a.route.target
<1>1. CASE \E e \in Ecus, v \in Values : a = PublishSignalOf(e, v)
  BY <1>1 DEF PublishSignalOf
<1>2. CASE \E e \in Ecus : a = ChangeOf(e)
  BY <1>2 DEF ChangeOf
<1>3. CASE \E r \in Routes : a = TransferOn(r)
  BY <1>3, EcuNetworkAssumption DEF TransferOn
<1> QED
  BY <1>1, <1>2, <1>3 DEF PlannedActions

\* The row that an action changes is the last of its rows.
LEMMA ChangedIsRow ==
    ASSUME NEW a \in PlannedActions
    PROVE  /\ Len(a.rows) \in DOMAIN a.rows /\ Changed(a) \in Ecus
           /\ a.kind = "transfer" => Changed(a) = a.route.target
BY ActionShape DEF Changed

\* Advancing the version of a row changes no signal.
LEMMA BumpedRow ==
    ASSUME NEW row \in FleetRow
    PROVE  /\ Bumped(row) \in FleetRow /\ Bumped(row).version = row.version + 1
           /\ Bumped(row).produced = row.produced /\ Bumped(row).consumed = row.consumed
BY DEF Bumped, FleetRow

\* A row after a publication.
LEMMA PublishedRow ==
    ASSUME NEW row \in FleetRow, NEW v \in Values
    PROVE  /\ Bumped([row EXCEPT !.produced = v]) \in FleetRow
           /\ Bumped([row EXCEPT !.produced = v]).version = row.version + 1
<1>1. /\ [row EXCEPT !.produced = v] \in FleetRow
      /\ [row EXCEPT !.produced = v].version = row.version
  BY DEF FleetRow
<1> QED
  BY <1>1, BumpedRow

\* The row of the target after a transfer.
LEMMA TransferredRow ==
    ASSUME NEW row \in FleetRow, NEW v \in Values
    PROVE  /\ Bumped([row EXCEPT !.consumed = v]) \in FleetRow
           /\ Bumped([row EXCEPT !.consumed = v]).version = row.version + 1
           /\ Bumped([row EXCEPT !.consumed = v]).produced = row.produced
           /\ Bumped([row EXCEPT !.consumed = v]).consumed = v
<1>1. /\ [row EXCEPT !.consumed = v] \in FleetRow
      /\ [row EXCEPT !.consumed = v].version = row.version
      /\ [row EXCEPT !.consumed = v].produced = row.produced
      /\ [row EXCEPT !.consumed = v].consumed = v
  BY DEF FleetRow
<1> QED
  BY <1>1, BumpedRow

\* What an action makes of the row it changes, from what the transaction has seen.
LEMMA EffectShape ==
    ASSUME NEW a \in PlannedActions, NEW S, NEW seen \in [S -> FleetRow],
           \A i \in DOMAIN a.rows : a.rows[i] \in S
    PROVE  /\ Effect(a, seen) \in FleetRow
           /\ Effect(a, seen).version = seen[Changed(a)].version + 1
           /\ a.kind = "transfer" =>
                /\ Effect(a, seen).consumed = seen[a.route.source].produced
                /\ Effect(a, seen).produced = seen[a.route.target].produced
<1>1. seen[Changed(a)] \in FleetRow
  BY ChangedIsRow DEF Changed
<1>2. CASE a.kind = "publish"
  <2>1. a.value \in Values
    BY <1>2, ActionShape
  <2>2. Effect(a, seen) = Bumped([seen[Changed(a)] EXCEPT !.produced = a.value])
    BY <1>2 DEF Effect
  <2> QED
    BY <1>1, <1>2, <2>1, <2>2, PublishedRow
<1>3. CASE a.kind = "change"
  BY <1>1, <1>3 DEF Effect, Bumped, FleetRow
<1>4. CASE a.kind = "transfer"
  <2>1. seen[a.route.source] \in FleetRow /\ seen[a.route.source].produced \in Values
    BY <1>4, ActionShape DEF FleetRow
  <2>2. Changed(a) = a.route.target
    BY <1>4, ChangedIsRow
  <2>3. Effect(a, seen)
          = Bumped([seen[Changed(a)] EXCEPT !.consumed = seen[a.route.source].produced])
    BY <1>4 DEF Effect
  <2> QED
    BY <1>1, <1>4, <2>1, <2>2, <2>3, TransferredRow
<1> QED
  BY <1>2, <1>3, <1>4, ActionShape

\* A sum in which one summand is replaced.
LEMMA SumChanges ==
    ASSUME NEW S, IsFiniteSet(S), NEW x \in S, NEW f, NEW g,
           \A y \in S : f[y] \in Int /\ g[y] \in Int, \A y \in S \ {x} : f[y] = g[y]
    PROVE  /\ SumOn(f, S) \in Int /\ SumOn(g, S) \in Int
           /\ SumOn(g, S) = SumOn(f, S) - f[x] + g[x]
<1>1. SumOn(f, S) \in Int /\ SumOn(g, S) \in Int
  BY SumIsInt
<1>2. IsFiniteSet(S \ {x})
  BY FS_RemoveElement
<1>3. SumOn(f, S \ {x}) = SumOn(g, S \ {x}) /\ SumOn(f, S \ {x}) \in Int
  BY <1>2, SumAgrees, SumIsInt
<1>4. SumOn(f, S) = f[x] + SumOn(f, S \ {x}) /\ SumOn(g, S) = g[x] + SumOn(g, S \ {x})
  BY SumAdds
<1> QED
  BY <1>1, <1>3, <1>4

Load == [c \in Clients |-> IF Active(c) THEN Len(client[c].plan) ELSE 0]

\* The length of the plans of the requests in flight is a sum over the clients.
LEMMA PlansAreSummed ==
    ASSUME NEW cs
    PROVE  MapThenSumSet(LAMBDA c : IF cs[c] # NoRequest THEN Len(cs[c].plan) ELSE 0, Clients)
             = SumOn([c \in Clients |-> IF cs[c] # NoRequest THEN Len(cs[c].plan) ELSE 0], Clients)
<1> DEFINE Size(c) == IF cs[c] # NoRequest THEN Len(cs[c].plan) ELSE 0
           sizes == [c \in Clients |-> Size(c)]
           Solves(g) == g = [s \in SUBSET Clients |->
                 IF s = {} THEN 0
                 ELSE Size(CHOOSE x \in s : TRUE) + g[s \ {CHOOSE x \in s : TRUE}]]
           w == CHOOSE g : Solves(g)
<1>1. MapThenSumSet(LAMBDA c : IF cs[c] # NoRequest THEN Len(cs[c].plan) ELSE 0, Clients)
        = w[Clients]
  BY ONLY DEF MapThenSumSet, MapThenFoldSet
<1>2. ASSUME NEW g PROVE Solves(g) <=> Sums(sizes, Clients, g)
  <2> HIDE DEF Size
  <2>1. \A s \in SUBSET Clients : s # {} => sizes[Pick(s)] = Size(Pick(s))
    BY ONLY DEF Pick
  <2> HIDE DEF sizes
  <2>2. [s \in SUBSET Clients |->
            IF s = {} THEN 0
            ELSE Size(CHOOSE x \in s : TRUE) + g[s \ {CHOOSE x \in s : TRUE}]]
        = [s \in SUBSET Clients |-> IF s = {} THEN 0 ELSE sizes[Pick(s)] + g[s \ {Pick(s)}]]
    BY ONLY <2>1 DEF Pick
  <2> QED
    BY ONLY <2>2 DEF Sums
<1>3. IsFiniteSet(Clients)
  BY EcuNetworkAssumption
<1>4. \E g : Sums(sizes, Clients, g)
  BY ONLY <1>3, SumsExist
<1>5. Sums(sizes, Clients, w)
  <2> HIDE DEF sizes, Solves
  <2> QED
    BY ONLY <1>2, <1>4
<1>6. w[Clients] = SumOn(sizes, Clients)
  <2> HIDE DEF sizes, w
  <2> QED
    BY ONLY <1>3, <1>5, SumIsAny
<1> QED
  BY ONLY <1>1, <1>6

\* The commands stored and in progress, as a sum.
LEMMA InProgressIsSum ==
    ASSUME \A c \in Clients : Active(c) => WellFormed(client[c])
    PROVE  /\ InProgress = Len(stored) + SumOn(Load, Clients)
           /\ \A c \in Clients : Load[c] \in Int
<1>1. MapThenSumSet(LAMBDA c : IF client[c] # NoRequest THEN Len(client[c].plan) ELSE 0, Clients)
        = SumOn([c \in Clients |-> IF client[c] # NoRequest THEN Len(client[c].plan) ELSE 0],
                Clients)
  BY ONLY PlansAreSummed
<1>2. \A c \in Clients : Load[c] \in Int
  BY LenProperties DEF Load, WellFormed, Transaction
<1> QED
  BY ONLY <1>1, <1>2 DEF InProgress, Load, Active

\* The transaction t may take the place of that of c.
Fits(c, t) ==
    t # NoRequest =>
        /\ WellFormed(t)
        /\ \A d \in Clients \ {c} : Active(d) => t.locks \cap client[d].locks = {}
        /\ t.kind = "scenario" /\ DOMAIN t.seen # {} =>
             t.execution \notin executions /\ \A d \in Clients \ {c} : ~Claimed(d)

\* One transaction is replaced, the others stay.
LEMMA ReplacedClient ==
    ASSUME client = [x \in Clients |-> client[x]], NEW c \in Clients, NEW t,
           client' = [client EXCEPT ![c] = t]
    PROVE  /\ client' = [x \in Clients |-> client'[x]]
           /\ client'[c] = t /\ \A d \in Clients \ {c} : client'[d] = client[d]
OBVIOUS

\* A transaction that fits may take the place of one.
LEMMA ClientsStep ==
    ASSUME client = [x \in Clients |-> client[x]], ClientsInv, NEW c \in Clients, NEW t,
           client' = [client EXCEPT ![c] = t], Fits(c, t), UNCHANGED executions
    PROVE  ClientsInv'
<1>1. client'[c] = t /\ \A d \in Clients \ {c} : client'[d] = client[d]
  BY ReplacedClient
<1>2. \A d \in Clients \ {c} : (Active(d)' <=> Active(d)) /\ (Claimed(d)' <=> Claimed(d))
  BY <1>1 DEF Active, Claimed, Waiting
<1>3. Active(c)' <=> t # NoRequest
  BY <1>1 DEF Active
<1>4. Claimed(c)' <=> t # NoRequest /\ t.kind = "scenario" /\ DOMAIN t.seen # {}
  BY <1>1 DEF Active, Claimed, Waiting
<1>5. (\A d \in Clients : Active(d) => WellFormed(client[d]))'
  BY <1>1, <1>2, <1>3 DEF ClientsInv, Fits
<1>6. (\A d, e \in Clients : Active(d) /\ Active(e) /\ d # e =>
                               client[d].locks \cap client[e].locks = {})'
  <2> SUFFICES ASSUME NEW d \in Clients, NEW e \in Clients, Active(d)', Active(e)', d # e
               PROVE  client'[d].locks \cap client'[e].locks = {}
    OBVIOUS
  <2>1. CASE d # c /\ e # c
    BY <1>1, <1>2, <2>1 DEF ClientsInv
  <2>2. CASE d = c
    BY <1>1, <1>2, <1>3, <2>2 DEF Fits
  <2>3. CASE e = c
    BY <1>1, <1>2, <1>3, <2>3 DEF Fits
  <2> QED
    BY <2>1, <2>2, <2>3
<1>7. (\A d, e \in Clients : Claimed(d) /\ Claimed(e) => d = e)'
  BY <1>2, <1>4 DEF ClientsInv, Fits
<1>8. (\A d \in Clients : Claimed(d) => client[d].execution \notin executions)'
  BY <1>1, <1>2, <1>4 DEF ClientsInv, Fits
<1> QED
  BY <1>5, <1>6, <1>7, <1>8 DEF ClientsInv

\* What is in progress after one transaction was replaced.
LEMMA ProgressStep ==
    ASSUME client = [x \in Clients |-> client[x]], NEW k \in Clients, NEW t,
           client' = [client EXCEPT ![k] = t],
           \A x \in Clients : Active(x) => WellFormed(client[x]),
           t # NoRequest => Len(t.plan) \in Nat, Len(stored) \in Nat, Len(stored') \in Nat
    PROVE  /\ InProgress \in Int /\ Load[k] \in Int
           /\ InProgress' = InProgress + (Len(stored') - Len(stored)) - Load[k]
                              + (IF t # NoRequest THEN Len(t.plan) ELSE 0)
<1>1. InProgress = Len(stored) + SumOn(Load, Clients) /\ \A x \in Clients : Load[x] \in Int
  BY InProgressIsSum
<1>2. Load' = [c \in Clients |-> IF client'[c] # NoRequest THEN Len(client'[c].plan) ELSE 0]
  BY DEF Load, Active
<1>3. InProgress' = Len(stored') + SumOn(Load', Clients)
  <2>1. MapThenSumSet(LAMBDA c : IF client'[c] # NoRequest THEN Len(client'[c].plan) ELSE 0,
                      Clients)
          = SumOn([c \in Clients |-> IF client'[c] # NoRequest THEN Len(client'[c].plan) ELSE 0],
                  Clients)
    BY ONLY PlansAreSummed
  <2> QED
    BY ONLY <1>2, <2>1 DEF InProgress, Active, MapThenSumSet, MapThenFoldSet
<1>4. /\ Load'[k] = IF t # NoRequest THEN Len(t.plan) ELSE 0
      /\ \A d \in Clients \ {k} : Load'[d] = Load[d]
  BY ReplacedClient DEF Load, Active
<1>5. Load'[k] \in Int /\ \A x \in Clients : Load[x] \in Int /\ Load'[x] \in Int
  BY <1>1, <1>4
<1> DEFINE f == Load
           g == Load'
<1>6. /\ SumOn(f, Clients) \in Int /\ SumOn(g, Clients) \in Int
      /\ SumOn(g, Clients) = SumOn(f, Clients) - f[k] + g[k]
  <2>1. /\ \A x \in Clients : f[x] \in Int /\ g[x] \in Int
        /\ \A x \in Clients \ {k} : f[x] = g[x]
    BY <1>4, <1>5
  <2>2. IsFiniteSet(Clients) /\ k \in Clients
    BY EcuNetworkAssumption
  <2> HIDE DEF f, g
  <2> QED
    BY ONLY <2>1, <2>2, SumChanges
<1>7. InProgress' = Len(stored') + (SumOn(Load, Clients) - Load[k] + Load'[k])
  BY ONLY <1>3, <1>6
<1>8. SumOn(Load, Clients) \in Int
  BY ONLY <1>6
<1> QED
  <2> DEFINE load == IF t # NoRequest THEN Len(t.plan) ELSE 0
  <2>1. Load'[k] = load /\ load \in Int /\ Load[k] \in Int
    BY <1>1, <1>4
  <2> HIDE DEF load
  <2>2. InProgress = Len(stored) + SumOn(Load, Clients)
    BY <1>1
  <2>3. InProgress \in Int /\ InProgress' = InProgress + (Len(stored') - Len(stored)) - Load[k] + load
    BY <1>7, <1>8, <2>1, <2>2
  <2> QED
    BY <2>1, <2>3 DEF load

\* A step of one transaction that changes no table.
LEMMA LocalStep ==
    ASSUME NetworkInv, NEW c \in Clients, NEW t, client' = [client EXCEPT ![c] = t],
           Fits(c, t), t # NoRequest => Active(c) /\ Len(t.plan) = Len(client[c].plan),
           UNCHANGED <<fleet, routes, stored, executions>>
    PROVE  NetworkInv'
<1>1. ClientsInv' /\ client' = [x \in Clients |-> client'[x]]
  BY ClientsStep, ReplacedClient DEF NetworkInv
<1>2. ScenariosAreWhole'
  BY DEF NetworkInv, ScenariosAreWhole, ByScenarios
<1>3. InProgress' <= MaxStored
  <2>1. t # NoRequest => Len(t.plan) \in Nat
    BY LenProperties DEF Fits, WellFormed, Transaction
  <2>2. Len(stored) \in Nat /\ Len(stored') = Len(stored)
    BY LenProperties DEF NetworkInv
  <2>3. /\ InProgress \in Int /\ Load[c] \in Int
        /\ InProgress' = InProgress - Load[c] + (IF t # NoRequest THEN Len(t.plan) ELSE 0)
    <3>1. \A x \in Clients : Active(x) => WellFormed(client[x])
      BY DEF NetworkInv, ClientsInv
    <3> QED
      BY <2>1, <2>2, <3>1, ProgressStep DEF NetworkInv
  <2>4. (IF t # NoRequest THEN Len(t.plan) ELSE 0) <= Load[c]
    <3>1. Active(c) => Len(client[c].plan) \in Nat
      BY LenProperties DEF NetworkInv, ClientsInv, WellFormed, Transaction
    <3> QED
      BY <2>1, <3>1 DEF Load
  <2> QED
    BY <2>1, <2>3, <2>4, EcuNetworkAssumption DEF NetworkInv
<1> QED
  BY <1>1, <1>2, <1>3 DEF NetworkInv

\* A request that starts holds no row.
LEMMA StartKeeps ==
    ASSUME NetworkInv, NEW c \in Clients, NEW kind, NEW execution, NEW plan, NEW read,
           read \subseteq Ecus, plan \in Seq(PlannedActions), Len(plan) > 0,
           \/ kind = "scenario" /\ execution \in Executions /\ plan \in Plans /\ read = {}
           \/ kind = "direct" /\ execution = NoRequest /\ Len(plan) = 1,
           Start(c, kind, execution, plan, read)
    PROVE  NetworkInv'
<1> DEFINE t == [kind |-> kind, execution |-> execution, plan |-> plan,
                 seen |-> [e \in read |-> fleet[e]], locks |-> {}, touched |-> {},
                 results |-> <<>>]
<1>1. /\ ~Active(c) /\ InProgress + Len(plan) <= MaxStored
      /\ client' = [client EXCEPT ![c] = t]
      /\ UNCHANGED <<fleet, routes, stored, executions>>
  BY DEF Start
<1>2. WellFormed(t)
  <2>1. DOMAIN t.seen = read /\ t.seen \in [read -> FleetRow]
    BY DEF NetworkInv
  <2>2. <<>> \in Seq(StoredCommand) /\ Len(<<>>) = 0 /\ DOMAIN <<>> = {}
    BY EmptySeq
  <2>3. t \in Transaction(read)
    <3>1. kind \in {"direct", "scenario"} /\ execution \in Executions \cup {NoRequest}
      OBVIOUS
    <3> QED
      BY <2>1, <2>2, <3>1 DEF Transaction
  <2> QED
    BY <2>1, <2>2, <2>3, LenProperties DEF WellFormed
<1>3. Fits(c, t)
  BY <1>2 DEF Fits
<1> HIDE DEF t
<1>4. ClientsInv' /\ client' = [x \in Clients |-> client'[x]]
  BY <1>1, <1>3, ClientsStep, ReplacedClient DEF NetworkInv
<1>5. ScenariosAreWhole'
  BY <1>1 DEF NetworkInv, ScenariosAreWhole, ByScenarios
<1>6. InProgress' <= MaxStored
  <2>1. Len(t.plan) = Len(plan) /\ Len(plan) \in Nat
    BY LenProperties DEF t
  <2>2. Len(stored) \in Nat /\ Len(stored') = Len(stored)
    BY <1>1, LenProperties DEF NetworkInv
  <2>3. \A x \in Clients : Active(x) => WellFormed(client[x])
    BY DEF NetworkInv, ClientsInv
  <2>4. /\ InProgress \in Int /\ Load[c] \in Int
        /\ InProgress' = InProgress - Load[c] + (IF t # NoRequest THEN Len(t.plan) ELSE 0)
    BY <1>1, <2>1, <2>2, <2>3, ProgressStep DEF NetworkInv
  <2>5. Load[c] = 0
    BY <1>1 DEF Load
  <2>6. (IF t # NoRequest THEN Len(t.plan) ELSE 0) <= Len(plan)
        /\ (IF t # NoRequest THEN Len(t.plan) ELSE 0) \in Nat
    BY <2>1
  <2> QED
    BY <1>1, <2>1, <2>4, <2>5, <2>6, EcuNetworkAssumption DEF NetworkInv
<1> QED
  BY <1>1, <1>4, <1>5, <1>6 DEF NetworkInv

\* execute_scenario: the vehicle row lets one scenario run, of an execution that is
\* not stored.
LEMMA ClaimKeeps ==
    ASSUME NetworkInv, NEW c \in Clients, ClaimScenario(c)
    PROVE  NetworkInv'
<1> DEFINE t == [client[c] EXCEPT !.seen = fleet]
<1>1. /\ Active(c) /\ Waiting(c) /\ client[c].execution \notin executions
      /\ \A d \in Clients : ~Claimed(d)
      /\ client' = [client EXCEPT ![c] = t]
      /\ UNCHANGED <<fleet, routes, stored, executions>>
  BY DEF ClaimScenario, Claimed
<1>2. WellFormed(client[c]) /\ client[c].kind = "scenario" /\ DOMAIN client[c].seen = {}
  BY <1>1 DEF NetworkInv, ClientsInv, Waiting
<1>3. client[c] \in Transaction({})
  BY <1>2 DEF WellFormed
<1>4. /\ t \in Transaction(Ecus) /\ t.seen = fleet /\ DOMAIN fleet = Ecus
      /\ t.kind = "scenario" /\ t.execution = client[c].execution
      /\ t.plan = client[c].plan /\ t.locks = client[c].locks
      /\ t.touched = client[c].touched /\ t.results = client[c].results
  BY <1>2, <1>3 DEF Transaction, NetworkInv
<1> HIDE DEF t
<1>5. WellFormed(t)
  BY <1>2, <1>4 DEF WellFormed
<1>6. \A d \in Clients \ {c} : Active(d) => t.locks \cap client[d].locks = {}
  BY <1>1, <1>4 DEF NetworkInv, ClientsInv
<1>7. Fits(c, t)
  BY <1>1, <1>4, <1>5, <1>6 DEF Fits
<1> QED
  BY <1>1, <1>4, <1>7, LocalStep

\* A request that ends without a commit gives up its rows.
LEMMA EndKeeps ==
    ASSUME NetworkInv, NEW c \in Clients, End(c),
           UNCHANGED <<fleet, routes, stored, executions>>
    PROVE  NetworkInv'
BY LocalStep DEF End, Fits

\* create_signal_route changes no transaction.
LEMMA RouteKeeps ==
    ASSUME NetworkInv, NEW r \in Routes, CreateSignalRoute(r)
    PROVE  NetworkInv'
<1>1. routes' \subseteq Routes /\ UNCHANGED <<fleet, stored, executions, client>>
  BY DEF NetworkInv, CreateSignalRoute
<1>2. InProgress' = InProgress
  BY ONLY <1>1 DEF InProgress, Active, MapThenSumSet, MapThenFoldSet
<1>3. ClientsInv'
  BY <1>1 DEF NetworkInv, ClientsInv, Active, Claimed, Waiting
<1>4. ScenariosAreWhole'
  BY <1>1 DEF NetworkInv, ScenariosAreWhole, ByScenarios
<1> QED
  BY <1>1, <1>2, <1>3, <1>4 DEF NetworkInv

\* No request, and all signals alike.
LEMMA NetworkInitHolds == NetworkInit => NetworkInv
<1> SUFFICES ASSUME NetworkInit PROVE NetworkInv
  OBVIOUS
<1>1. fleet \in [Ecus -> FleetRow]
  BY EcuNetworkAssumption DEF NetworkInit, FleetRow
<1>2. stored = <<>> /\ stored \in Seq(StoredCommand) /\ Len(stored) = 0 /\ DOMAIN stored = {}
  BY EmptySeq DEF NetworkInit
<1>3. \A c \in Clients : ~Active(c)
  BY DEF NetworkInit, Active
<1>4. InProgress = 0
  <2>1. InProgress = Len(stored) + SumOn(Load, Clients)
    BY <1>3, InProgressIsSum
  <2> DEFINE zero == [c \in Clients |-> 0]
  <2>2. Load = zero
    BY <1>3 DEF Load
  <2>3. SumOn(zero, Clients) = 0
    <3> DEFINE none == [c \in Clients |-> {}]
               sizes == [c \in Clients |-> Cardinality(none[c])]
    <3>1. sizes = zero /\ UNION {none[c] : c \in Clients} = {}
      BY FS_EmptySet
    <3>2. SumOn(sizes, Clients) = Cardinality(UNION {none[c] : c \in Clients})
      <4>1. /\ IsFiniteSet(Clients) /\ \A c \in Clients : IsFiniteSet(none[c])
            /\ \A c, d \in Clients : c # d => none[c] \cap none[d] = {}
        BY EcuNetworkAssumption, FS_EmptySet
      <4> HIDE DEF none
      <4> QED
        BY ONLY <4>1, SumOfCardinalities
    <3> QED
      BY <3>1, <3>2, FS_EmptySet
  <2> QED
    BY <1>2, <2>1, <2>2, <2>3
<1>5. ScenariosAreWhole
  BY <1>2 DEF ScenariosAreWhole, ByScenarios, NetworkInit
<1> QED
  BY <1>1, <1>2, <1>3, <1>4, <1>5, EcuNetworkAssumption
     DEF NetworkInv, ClientsInv, Claimed, NetworkInit

\* The action that a transaction runs next.
LEMMA NextAction ==
    ASSUME NetworkInv, NEW c \in Clients, More(c)
    PROVE  /\ Action(c) \in PlannedActions
           /\ Action(c) = client[c].plan[Len(client[c].results) + 1]
           /\ Len(client[c].results) \in Nat /\ Len(client[c].plan) \in Nat
           /\ Len(client[c].results) + 1 \in DOMAIN client[c].plan
           /\ WellFormed(client[c])
           /\ client[c].kind = "scenario" => DOMAIN client[c].seen = Ecus
<1>1. WellFormed(client[c])
  BY DEF NetworkInv, ClientsInv, More
<1>2. client[c].plan \in Seq(PlannedActions) /\ client[c].results \in Seq(StoredCommand)
  BY <1>1 DEF WellFormed, Transaction
<1>3. /\ Len(client[c].results) \in Nat /\ Len(client[c].plan) \in Nat
      /\ DOMAIN client[c].plan = 1 .. Len(client[c].plan)
      /\ \A i \in 1 .. Len(client[c].plan) : client[c].plan[i] \in PlannedActions
  BY <1>2, LenProperties, ElementOfSeq
<1>4. Len(client[c].results) + 1 \in DOMAIN client[c].plan
  BY <1>3 DEF More
<1> QED
  BY <1>1, <1>3, <1>4 DEF Action, More, Waiting, WellFormed

\* Min, on the indices of the rows of an action.
LEMMA LeastIndex ==
    ASSUME NEW S \in SUBSET {1, 2}, S # {}
    PROVE  Min(S) \in S
<1>1. \A y \in S : y \in Int /\ (y = 1 \/ y = 2)
  OBVIOUS
<1>2. \E x \in S : \A y \in S : x <= y
  <2>1. CASE 1 \in S
    BY <1>1, <2>1
  <2>2. CASE 1 \notin S
    <3>1. 2 \in S /\ \A y \in S : y = 2
      BY <1>1, <2>2
    <3> QED
      BY ONLY <3>1
  <2> QED
    BY <2>1, <2>2
<1> QED
  BY <1>2 DEF Min

\* The row that a transaction locks next is one of its action, not held yet.
LEMMA NextLockIsRow ==
    ASSUME NetworkInv, NEW c \in Clients, More(c), Unlocked(c) # {}
    PROVE  /\ NextLock(c) \in Ecus /\ NextLock(c) \notin client[c].locks
           /\ \E i \in DOMAIN Action(c).rows : NextLock(c) = Action(c).rows[i]
<1>1. Unlocked(c) \in SUBSET {1, 2}
  BY NextAction, ActionShape DEF Unlocked
<1>2. Min(Unlocked(c)) \in Unlocked(c)
  BY <1>1, LeastIndex
<1> QED
  BY <1>2, NextAction, ActionShape DEF NextLock, Unlocked

\* A transaction after it has locked a row, and after it has run an action.
Locked(t, e) ==
    [t EXCEPT !.locks = @ \cup {e},
              !.seen = [s \in DOMAIN @ \cup {e} |-> IF s \in DOMAIN @ THEN @[s] ELSE fleet[s]]]

\* A lock reads the row, unless the transaction has read it before.
LEMMA LockedFields ==
    ASSUME NEW t, WellFormed(t), NEW e \in Ecus, fleet \in [Ecus -> FleetRow]
    PROVE  /\ Locked(t, e) \in Transaction(DOMAIN t.seen \cup {e})
           /\ Locked(t, e).locks = t.locks \cup {e}
           /\ DOMAIN Locked(t, e).seen = DOMAIN t.seen \cup {e}
           /\ \A s \in DOMAIN t.seen : Locked(t, e).seen[s] = t.seen[s]
           /\ e \notin DOMAIN t.seen => Locked(t, e).seen[e] = fleet[e]
           /\ Locked(t, e).kind = t.kind /\ Locked(t, e).execution = t.execution
           /\ Locked(t, e).plan = t.plan /\ Locked(t, e).results = t.results
           /\ Locked(t, e).touched = t.touched
<1>1. t \in Transaction(DOMAIN t.seen)
  BY DEF WellFormed
<1> DEFINE seen == [s \in DOMAIN t.seen \cup {e} |->
                      IF s \in DOMAIN t.seen THEN t.seen[s] ELSE fleet[s]]
<1>2. seen \in [DOMAIN t.seen \cup {e} -> FleetRow]
  BY <1>1 DEF Transaction
<1>3. /\ \A s \in DOMAIN t.seen : seen[s] = t.seen[s]
      /\ e \notin DOMAIN t.seen => seen[e] = fleet[e]
      /\ DOMAIN seen = DOMAIN t.seen \cup {e}
  OBVIOUS
<1>4. Locked(t, e) = [[t EXCEPT !.locks = t.locks \cup {e}] EXCEPT !.seen = seen]
  BY <1>1 DEF Locked, Transaction
<1> HIDE DEF seen
<1>5. /\ Locked(t, e) \in Transaction(DOMAIN t.seen \cup {e})
      /\ Locked(t, e).locks = t.locks \cup {e} /\ Locked(t, e).seen = seen
      /\ Locked(t, e).kind = t.kind /\ Locked(t, e).execution = t.execution
      /\ Locked(t, e).plan = t.plan /\ Locked(t, e).results = t.results
      /\ Locked(t, e).touched = t.touched
  BY <1>1, <1>2, <1>4 DEF Transaction
<1> QED
  BY <1>3, <1>5

\* A transaction that has locked a row still fits its plan.
LEMMA LockedIsWellFormed ==
    ASSUME NEW t, WellFormed(t), NEW e \in Ecus, fleet \in [Ecus -> FleetRow],
           t.kind = "scenario" => DOMAIN t.seen = Ecus
    PROVE  WellFormed(Locked(t, e))
<1>1. /\ Locked(t, e) \in Transaction(DOMAIN t.seen \cup {e})
      /\ Locked(t, e).locks = t.locks \cup {e}
      /\ DOMAIN Locked(t, e).seen = DOMAIN t.seen \cup {e}
      /\ Locked(t, e).kind = t.kind /\ Locked(t, e).execution = t.execution
      /\ Locked(t, e).plan = t.plan /\ Locked(t, e).results = t.results
      /\ Locked(t, e).touched = t.touched
  BY LockedFields
<1>2. DOMAIN t.seen = Ecus => DOMAIN t.seen \cup {e} = Ecus
  OBVIOUS
<1> QED
  BY <1>1, <1>2 DEF WellFormed

\* What LockRow makes of the transaction.
LEMMA LockShape ==
    ASSUME NetworkInv, NEW c \in Clients, LockRow(c)
    PROVE  /\ More(c) /\ Unlocked(c) # {} /\ Active(c)
           /\ NextLock(c) \in Ecus
           /\ client' = [client EXCEPT ![c] = Locked(client[c], NextLock(c))]
           /\ UNCHANGED <<fleet, routes, stored, executions>>
BY NextLockIsRow DEF LockRow, Locked, More, NetworkInv

\* A row that no other transaction holds is locked.
LEMMA LockKeeps ==
    ASSUME NetworkInv, NEW c \in Clients, LockRow(c)
    PROVE  NetworkInv'
<1>0. PICK e, old : e \in Ecus /\ e = NextLock(c) /\ old = client[c]
  BY LockShape
<1> DEFINE t == Locked(old, e)
<1>1. /\ More(c) /\ Unlocked(c) # {} /\ Active(c)
      /\ client' = [client EXCEPT ![c] = t]
      /\ UNCHANGED <<fleet, routes, stored, executions>>
  BY <1>0, LockShape
<1>2. WellFormed(old) /\ (old.kind = "scenario" => DOMAIN old.seen = Ecus)
  BY <1>0, <1>1, NextAction
<1>3. /\ WellFormed(t)
      /\ t.locks = old.locks \cup {e} /\ t.kind = old.kind
      /\ t.execution = old.execution /\ t.plan = old.plan
  <2>1. fleet \in [Ecus -> FleetRow]
    BY DEF NetworkInv
  <2> QED
    <3>1. WellFormed(t) /\ t.kind = old.kind /\ t.execution = old.execution /\ t.plan = old.plan
      BY ONLY <1>0, <1>2, <2>1, LockedFields, LockedIsWellFormed
    <3>2. t.locks = old.locks \cup {e}
      BY <1>2 DEF Locked, WellFormed, Transaction
    <3> QED
      BY <3>1, <3>2
<1> HIDE DEF t
<1>4. \A d \in Clients \ {c} : Active(d) => t.locks \cap client[d].locks = {}
  <2> SUFFICES ASSUME NEW d \in Clients \ {c}, Active(d)
               PROVE  t.locks \cap client[d].locks = {}
    OBVIOUS
  <2>1. ~Blocks(c, d)
    BY DEF LockRow
  <2>2. e \notin client[d].locks
    BY <1>0, <1>1, <2>1 DEF Blocks
  <2> QED
    BY <1>0, <1>1, <1>3, <2>2 DEF NetworkInv, ClientsInv
<1>5. old.kind = "scenario" => Claimed(c)
  BY <1>0, <1>1 DEF Claimed, More
<1>6. Fits(c, t)
  BY <1>0, <1>3, <1>4, <1>5 DEF Fits, NetworkInv, ClientsInv
<1> QED
  BY <1>0, <1>1, <1>3, <1>6, LocalStep

ResultOf(t, a) ==
    [kind |-> a.kind, ecu |-> Changed(a), execution |-> t.execution,
     index |-> Len(t.results) + 1, previous |-> t.seen[Changed(a)].version,
     consumed |-> Effect(a, t.seen).consumed, route |-> RouteOf(a)]

SameSignals(new, old) == [new EXCEPT !.version = 0] = [old EXCEPT !.version = 0]

Performed(t, a) ==
    [t EXCEPT !.seen[Changed(a)] = Effect(a, t.seen),
              !.touched = IF SameSignals(Effect(a, t.seen), t.seen[Changed(a)]) THEN @
                          ELSE @ \cup {Changed(a)},
              !.results = Append(@, ResultOf(t, a))]

\* Rows that differ in their version only.
LEMMA SignalsAreSame ==
    ASSUME NEW new \in FleetRow, NEW old \in FleetRow, SameSignals(new, old)
    PROVE  new.produced = old.produced /\ new.consumed = old.consumed
<1>1. /\ [new EXCEPT !.version = 0].produced = new.produced
      /\ [new EXCEPT !.version = 0].consumed = new.consumed
      /\ [old EXCEPT !.version = 0].produced = old.produced
      /\ [old EXCEPT !.version = 0].consumed = old.consumed
  BY DEF FleetRow
<1> QED
  BY <1>1 DEF SameSignals

\* An action changes the row as the transaction has it, and adds a result.
LEMMA PerformedFields ==
    ASSUME NEW t, WellFormed(t), NEW a \in PlannedActions,
           \A i \in DOMAIN a.rows : a.rows[i] \in t.locks
    PROVE  /\ Performed(t, a) \in Transaction(DOMAIN t.seen)
           /\ Performed(t, a).kind = t.kind /\ Performed(t, a).execution = t.execution
           /\ Performed(t, a).plan = t.plan /\ Performed(t, a).locks = t.locks
           /\ Performed(t, a).seen = [t.seen EXCEPT ![Changed(a)] = Effect(a, t.seen)]
           /\ Performed(t, a).results = Append(t.results, ResultOf(t, a))
           /\ Performed(t, a).touched = t.touched \cup {Changed(a)}
              \/ /\ Performed(t, a).touched = t.touched
                 /\ Effect(a, t.seen).produced = t.seen[Changed(a)].produced
                 /\ Effect(a, t.seen).consumed = t.seen[Changed(a)].consumed
           /\ ResultOf(t, a) \in StoredCommand /\ Effect(a, t.seen) \in FleetRow
           /\ Changed(a) \in t.locks /\ Changed(a) \in DOMAIN t.seen
<1> DEFINE e == Changed(a)
           new == Effect(a, t.seen)
           seen == [t.seen EXCEPT ![e] = new]
           touched == IF SameSignals(new, t.seen[e]) THEN t.touched ELSE t.touched \cup {e}
           results == Append(t.results, ResultOf(t, a))
<1>1. /\ t \in Transaction(DOMAIN t.seen) /\ t.seen \in [DOMAIN t.seen -> FleetRow]
      /\ t.locks \subseteq DOMAIN t.seen /\ t.touched \subseteq t.locks
      /\ t.results \in Seq(StoredCommand) /\ t.execution \in Executions \cup {NoRequest}
  BY DEF WellFormed, Transaction
<1>2. e \in t.locks /\ e \in Ecus /\ e \in DOMAIN t.seen
  BY <1>1, ChangedIsRow DEF Changed
<1>3. new \in FleetRow
  BY <1>1, EffectShape
<1>4. ResultOf(t, a) \in StoredCommand
  <2>1. new.consumed \in Values /\ t.seen[e].version \in Nat
    BY <1>1, <1>2, <1>3 DEF FleetRow
  <2>2. Len(t.results) + 1 \in Nat
    BY <1>1, LenProperties
  <2> QED
    BY <1>1, <1>2, <2>1, <2>2, ActionShape DEF ResultOf, StoredCommand, RouteOf
<1>5. seen \in [DOMAIN t.seen -> FleetRow]
  BY <1>1, <1>3
<1>6. touched \in SUBSET DOMAIN t.seen
  BY <1>1, <1>2
<1>7. results \in Seq(StoredCommand)
  BY <1>1, <1>4, AppendProperties
<1>8. \/ touched = t.touched \cup {e}
      \/ touched = t.touched /\ new.produced = t.seen[e].produced
                             /\ new.consumed = t.seen[e].consumed
  BY <1>1, <1>2, <1>3, SignalsAreSame
<1>9. Performed(t, a) = [[[t EXCEPT !.seen = seen] EXCEPT !.touched = touched]
                            EXCEPT !.results = results]
  BY <1>1 DEF Performed, Transaction
<1>10. /\ Performed(t, a) \in Transaction(DOMAIN t.seen)
       /\ Performed(t, a).kind = t.kind /\ Performed(t, a).execution = t.execution
       /\ Performed(t, a).plan = t.plan /\ Performed(t, a).locks = t.locks
       /\ Performed(t, a).seen = seen /\ Performed(t, a).results = results
       /\ Performed(t, a).touched = touched
  <2> HIDE DEF e, new, seen, touched, results
  <2> QED
    BY <1>1, <1>5, <1>6, <1>7, <1>9 DEF Transaction
<1> QED
  BY <1>2, <1>3, <1>4, <1>8, <1>10

\* The signals column is written if a signal differs.
LEMMA PerformedTouches ==
    ASSUME NEW t, WellFormed(t), NEW a \in PlannedActions,
           \A i \in DOMAIN a.rows : a.rows[i] \in t.locks
    PROVE  \/ Performed(t, a).touched = t.touched \cup {Changed(a)}
           \/ /\ Performed(t, a).touched = t.touched
              /\ Effect(a, t.seen).produced = t.seen[Changed(a)].produced
              /\ Effect(a, t.seen).consumed = t.seen[Changed(a)].consumed
BY PerformedFields

\* A transaction that has run an action still fits its plan.
LEMMA PerformedIsWellFormed ==
    ASSUME NEW t, WellFormed(t), Len(t.results) < Len(t.plan),
           NEW a, a = t.plan[Len(t.results) + 1],
           \A i \in DOMAIN a.rows : a.rows[i] \in t.locks
    PROVE  WellFormed(Performed(t, a)) /\ a \in PlannedActions
<1> DEFINE p == Performed(t, a)
           n == Len(t.results) + 1
<1>1. /\ t.results \in Seq(StoredCommand) /\ t.plan \in Seq(PlannedActions)
  BY DEF WellFormed, Transaction
<1>2. /\ Len(t.results) \in Nat /\ Len(t.plan) \in Nat
      /\ DOMAIN t.results = 1 .. Len(t.results) /\ DOMAIN t.plan = 1 .. Len(t.plan)
  BY <1>1, LenProperties
<1>3. n \in 1 .. Len(t.plan) /\ a \in PlannedActions
  BY <1>1, <1>2, ElementOfSeq
<1>4. /\ p \in Transaction(DOMAIN t.seen)
      /\ p.kind = t.kind /\ p.execution = t.execution /\ p.plan = t.plan /\ p.locks = t.locks
      /\ DOMAIN p.seen = DOMAIN t.seen
      /\ p.results = Append(t.results, ResultOf(t, a))
      /\ p.touched \subseteq t.touched \cup {Changed(a)}
      /\ ResultOf(t, a) \in StoredCommand /\ Changed(a) \in t.locks
  <2>1. /\ p \in Transaction(DOMAIN t.seen)
        /\ p.kind = t.kind /\ p.execution = t.execution /\ p.plan = t.plan /\ p.locks = t.locks
        /\ p.seen = [t.seen EXCEPT ![Changed(a)] = Effect(a, t.seen)]
        /\ p.results = Append(t.results, ResultOf(t, a))
        /\ ResultOf(t, a) \in StoredCommand /\ Changed(a) \in t.locks
    BY <1>3, PerformedFields
  <2>2. p.touched = t.touched \cup {Changed(a)} \/ p.touched = t.touched
    BY <1>3, PerformedFields
  <2> HIDE DEF p
  <2> QED
    BY <2>1, <2>2
<1>5. /\ Len(p.results) = n /\ DOMAIN p.results = 1 .. n
      /\ \A i \in DOMAIN t.results : p.results[i] = t.results[i]
      /\ p.results[n] = ResultOf(t, a)
  <2> HIDE DEF p
  <2>1. p.results \in Seq(StoredCommand)
    BY <1>1, <1>4, AppendProperties
  <2> QED
    BY <1>1, <1>2, <1>4, <2>1, AppendProperties, LenProperties
<1> HIDE DEF p
<1>6. ASSUME NEW i \in DOMAIN p.results
      PROVE  /\ p.results[i].ecu \in p.locks /\ p.results[i].kind = p.plan[i].kind
             /\ p.results[i].execution = p.execution /\ p.results[i].index = i
  <2>1. CASE i \in DOMAIN t.results
    <3>1. /\ t.results[i].ecu \in t.locks /\ t.results[i].kind = t.plan[i].kind
          /\ t.results[i].execution = t.execution /\ t.results[i].index = i
      BY <2>1 DEF WellFormed
    <3>2. p.results[i] = t.results[i]
      BY <1>5, <2>1
    <3>3. p.locks = t.locks /\ p.plan = t.plan /\ p.execution = t.execution
      BY <1>4
    <3>4. /\ p.results[i].ecu = t.results[i].ecu /\ p.results[i].kind = t.results[i].kind
          /\ p.results[i].execution = t.results[i].execution
          /\ p.results[i].index = t.results[i].index
      BY ONLY <3>2
    <3>5. p.plan[i] = t.plan[i]
      BY ONLY <3>3
    <3>6. p.results[i].ecu \in p.locks
      BY ONLY <3>1, <3>3, <3>4
    <3>7. p.results[i].kind = p.plan[i].kind
      BY ONLY <3>1, <3>4, <3>5
    <3>8. p.results[i].execution = p.execution /\ p.results[i].index = i
      BY ONLY <3>1, <3>3, <3>4
    <3> QED
      BY <3>6, <3>7, <3>8
  <2>2. CASE i = n
    <3>1. p.results[i] = ResultOf(t, a) /\ p.plan[i] = t.plan[n]
      BY ONLY <1>4, <1>5, <2>2
    <3> QED
      <4>1. /\ ResultOf(t, a).ecu = Changed(a) /\ ResultOf(t, a).kind = a.kind
            /\ ResultOf(t, a).execution = t.execution /\ ResultOf(t, a).index = n
        BY ONLY DEF ResultOf
      <4> QED
        BY ONLY <1>4, <2>2, <3>1, <4>1, a = t.plan[Len(t.results) + 1]
  <2> QED
    BY <1>2, <1>5, <2>1, <2>2
<1>7. WellFormed(p)
  <2>1. /\ DOMAIN t.seen \subseteq Ecus /\ Len(t.plan) > 0 /\ t.touched \subseteq t.locks
        /\ \/ /\ t.kind = "scenario" /\ t.execution \in Executions /\ t.plan \in Plans
              /\ DOMAIN t.seen \in {{}, Ecus}
           \/ t.kind = "direct" /\ t.execution = NoRequest /\ Len(t.plan) = 1
    BY DEF WellFormed
  <2>2. n <= Len(t.plan) /\ p.touched \subseteq p.locks
    BY <1>2, <1>3, <1>4, <2>1
  <2> QED
    BY <1>4, <1>5, <1>6, <2>1, <2>2 DEF WellFormed
<1> QED
  BY <1>3, <1>7 DEF p

\* What Perform makes of the transaction.
LEMMA PerformShape ==
    ASSUME NetworkInv, NEW c \in Clients, Perform(c)
    PROVE  /\ More(c) /\ Active(c) /\ Unlocked(c) = {}
           /\ Action(c) \in PlannedActions
           /\ Action(c) = client[c].plan[Len(client[c].results) + 1]
           /\ Len(client[c].results) < Len(client[c].plan)
           /\ \A i \in DOMAIN Action(c).rows : Action(c).rows[i] \in client[c].locks
           /\ client' = [client EXCEPT ![c] = Performed(client[c], Action(c))]
           /\ UNCHANGED <<fleet, routes, stored, executions>>
<1>1. /\ More(c) /\ Active(c) /\ Unlocked(c) = {} /\ Action(c) \in PlannedActions
      /\ WellFormed(client[c])
      /\ UNCHANGED <<fleet, routes, stored, executions>>
      /\ Action(c) = client[c].plan[Len(client[c].results) + 1]
      /\ Len(client[c].results) < Len(client[c].plan)
  BY NextAction DEF Perform, More
<1>2. \A i \in DOMAIN Action(c).rows : Action(c).rows[i] \in client[c].locks
  BY <1>1 DEF Unlocked
<1>3. client' = [client EXCEPT ![c] = Performed(client[c], Action(c))]
  BY <1>1 DEF Perform, Performed, ResultOf, SameSignals, NetworkInv
<1> QED
  BY <1>1, <1>2, <1>3

\* An action is run on rows that the transaction holds.
LEMMA PerformKeeps ==
    ASSUME NetworkInv, NEW c \in Clients, Perform(c)
    PROVE  NetworkInv'
<1>0. PICK old, a : old = client[c] /\ a = Action(c)
  OBVIOUS
<1> DEFINE t == Performed(old, a)
<1>1. /\ More(c) /\ Active(c) /\ client' = [client EXCEPT ![c] = t]
      /\ UNCHANGED <<fleet, routes, stored, executions>>
  BY <1>0, PerformShape
<1>2. /\ a = old.plan[Len(old.results) + 1] /\ Len(old.results) < Len(old.plan)
      /\ \A i \in DOMAIN a.rows : a.rows[i] \in old.locks
  BY <1>0, PerformShape
<1>3. WellFormed(old)
  BY <1>0, <1>1 DEF NetworkInv, ClientsInv
<1>4. WellFormed(t) /\ a \in PlannedActions
  BY <1>2, <1>3, PerformedIsWellFormed
<1>5. /\ t.kind = old.kind /\ t.execution = old.execution
      /\ t.plan = old.plan /\ t.locks = old.locks
  BY <1>2, <1>3, <1>4, PerformedFields
<1> HIDE DEF t
<1>6. old.kind = "scenario" => Claimed(c)
  BY <1>0, <1>1 DEF Claimed, More
<1>7. Fits(c, t)
  BY <1>0, <1>1, <1>4, <1>5, <1>6 DEF Fits, NetworkInv, ClientsInv
<1> QED
  BY <1>0, <1>1, <1>5, <1>7, LocalStep

Acted(t) == {t.results[i].ecu : i \in DOMAIN t.results}

\* A flush writes the columns that were changed, and of locked rows only.
LEMMA FlushedRows ==
    ASSUME NetworkInv, NEW c \in Clients, Active(c)
    PROVE  /\ Flushed(c) \in [Ecus -> FleetRow]
           /\ \A e \in Ecus :
                /\ Flushed(c)[e].produced = IF e \in client[c].touched
                                            THEN client[c].seen[e].produced ELSE fleet[e].produced
                /\ Flushed(c)[e].consumed = IF e \in client[c].touched
                                            THEN client[c].seen[e].consumed ELSE fleet[e].consumed
                /\ Flushed(c)[e].version = IF e \in Acted(client[c])
                                           THEN client[c].seen[e].version ELSE fleet[e].version
           /\ \A e \in Ecus : e \notin client[c].locks => Flushed(c)[e] = fleet[e]
<1> DEFINE t == client[c]
<1>1. WellFormed(t)
  BY DEF NetworkInv, ClientsInv
<1>2. /\ t.seen \in [DOMAIN t.seen -> FleetRow] /\ t.touched \subseteq t.locks
      /\ t.locks \subseteq DOMAIN t.seen /\ Acted(t) \subseteq t.locks
  BY <1>1 DEF WellFormed, Transaction, Acted
<1>3. fleet \in [Ecus -> FleetRow]
  BY DEF NetworkInv
<1>4. ASSUME NEW e \in Ecus
      PROVE  /\ Flushed(c)[e] \in FleetRow
             /\ Flushed(c)[e].produced = IF e \in t.touched THEN t.seen[e].produced
                                         ELSE fleet[e].produced
             /\ Flushed(c)[e].consumed = IF e \in t.touched THEN t.seen[e].consumed
                                         ELSE fleet[e].consumed
             /\ Flushed(c)[e].version = IF e \in Acted(t) THEN t.seen[e].version
                                        ELSE fleet[e].version
             /\ e \notin t.locks => Flushed(c)[e] = fleet[e]
  <2> DEFINE produced == IF e \in t.touched THEN t.seen[e].produced ELSE fleet[e].produced
             consumed == IF e \in t.touched THEN t.seen[e].consumed ELSE fleet[e].consumed
             version == IF e \in Acted(t) THEN t.seen[e].version ELSE fleet[e].version
  <2>1. Flushed(c)[e] = [produced |-> produced, consumed |-> consumed, version |-> version]
    BY DEF Flushed, Acted
  <2>2. fleet[e] \in FleetRow /\ (e \in t.locks => t.seen[e] \in FleetRow)
    BY <1>2, <1>3
  <2>3. produced \in Values /\ consumed \in Values /\ version \in Nat
    BY <1>2, <2>2 DEF FleetRow
  <2>4. e \notin t.locks => /\ produced = fleet[e].produced /\ consumed = fleet[e].consumed
                            /\ version = fleet[e].version
    BY <1>2
  <2> HIDE DEF produced, consumed, version
  <2>5. [produced |-> produced, consumed |-> consumed, version |-> version] \in FleetRow
    BY <2>3 DEF FleetRow
  <2>6. e \notin t.locks =>
          [produced |-> produced, consumed |-> consumed, version |-> version] = fleet[e]
    BY <2>2, <2>4 DEF FleetRow
  <2> QED
    BY <2>1, <2>5, <2>6 DEF produced, consumed, version
<1>5. Flushed(c) \in [Ecus -> FleetRow]
  <2>1. Flushed(c) = [e \in Ecus |-> Flushed(c)[e]]
    BY DEF Flushed
  <2> QED
    BY <1>4, <2>1
<1> QED
  BY <1>4, <1>5

\* What a commit appends to the table.
LEMMA CommitAppends ==
    ASSUME NetworkInv, NEW c \in Clients, CommitFleet(c)
    PROVE  LET t == client[c]
           IN  /\ Active(c) /\ WellFormed(t) /\ Len(t.results) = Len(t.plan)
               /\ stored' = stored \o t.results /\ stored' \in Seq(StoredCommand)
               /\ DOMAIN t.results = 1 .. Len(t.plan) /\ Len(t.plan) \in Nat /\ Len(t.plan) > 0
               /\ DOMAIN stored = 1 .. Len(stored) /\ Len(stored) \in Nat
               /\ Len(stored') = Len(stored) + Len(t.plan)
               /\ DOMAIN stored' = 1 .. Len(stored) + Len(t.plan)
               /\ \A i \in DOMAIN stored : stored'[i] = stored[i]
               /\ \A i \in DOMAIN t.results : stored'[Len(stored) + i] = t.results[i]
               /\ \A i \in DOMAIN stored' : i \notin DOMAIN stored =>
                    i - Len(stored) \in DOMAIN t.results /\ stored'[i] = t.results[i - Len(stored)]
<1> DEFINE t == client[c]
<1>1. /\ Active(c) /\ Len(t.results) = Len(t.plan) /\ stored' = stored \o t.results
  BY DEF CommitFleet
<1>2. WellFormed(t)
  BY <1>1 DEF NetworkInv, ClientsInv
<1>3. /\ t.results \in Seq(StoredCommand) /\ t.plan \in Seq(PlannedActions) /\ Len(t.plan) > 0
      /\ stored \in Seq(StoredCommand)
  BY <1>2 DEF WellFormed, Transaction, NetworkInv
<1> HIDE DEF t
<1>4. /\ DOMAIN t.results = 1 .. Len(t.plan) /\ Len(t.plan) \in Nat
      /\ DOMAIN stored = 1 .. Len(stored) /\ Len(stored) \in Nat
  BY <1>1, <1>3, LenProperties
<1>5. /\ stored' \in Seq(StoredCommand)
      /\ Len(stored') = Len(stored) + Len(t.plan)
      /\ \A i \in 1 .. Len(stored) + Len(t.plan) :
           stored'[i] = IF i <= Len(stored) THEN stored[i] ELSE t.results[i - Len(stored)]
  <2>1. /\ stored \o t.results \in Seq(StoredCommand)
        /\ Len(stored \o t.results) = Len(stored) + Len(t.results)
        /\ \A i \in 1 .. Len(stored) + Len(t.results) :
             (stored \o t.results)[i] = IF i <= Len(stored) THEN stored[i]
                                        ELSE t.results[i - Len(stored)]
    BY ONLY <1>3, ConcatProperties
  <2> QED
    BY <1>1, <2>1
<1>6. DOMAIN stored' = 1 .. Len(stored) + Len(t.plan)
  BY <1>5, LenProperties
<1>7. \A i \in DOMAIN stored : stored'[i] = stored[i]
  BY <1>4, <1>5
<1>8. \A i \in DOMAIN stored' : i \notin DOMAIN stored =>
        i - Len(stored) \in DOMAIN t.results /\ stored'[i] = t.results[i - Len(stored)]
  BY <1>4, <1>5, <1>6
<1>9. \A i \in DOMAIN t.results : stored'[Len(stored) + i] = t.results[i]
  <2> TAKE i \in DOMAIN t.results
  <2>1. /\ Len(stored) + i \in 1 .. Len(stored) + Len(t.plan) /\ ~(Len(stored) + i <= Len(stored))
        /\ (Len(stored) + i) - Len(stored) = i
    BY <1>4
  <2> QED
    BY <1>5, <2>1
<1> QED
  BY <1>1, <1>2, <1>3, <1>4, <1>5, <1>6, <1>7, <1>8, <1>9 DEF t

\* A scenario that commits is the one that was claimed, and is stored for the
\* first time.
LEMMA CommittedIsClaimed ==
    ASSUME NetworkInv, NEW c \in Clients, CommitFleet(c)
    PROVE  \/ /\ client[c].kind = "scenario" /\ Claimed(c)
              /\ client[c].execution \in Executions \ executions
              /\ client[c].execution # NoRequest /\ client[c].plan \in Plans
              /\ executions' = executions \cup {client[c].execution}
           \/ /\ client[c].kind = "direct" /\ client[c].execution = NoRequest
              /\ Len(client[c].plan) = 1 /\ executions' = executions
<1> DEFINE t == client[c]
<1>1. /\ Active(c) /\ WellFormed(t) /\ 1 \in DOMAIN t.results
      /\ executions' = executions \cup (IF t.kind = "scenario" THEN {t.execution} ELSE {})
  BY CommitAppends DEF CommitFleet
<1>2. CASE t.kind = "scenario"
  <2>1. t.results[1].ecu \in DOMAIN t.seen
    BY <1>1 DEF WellFormed, Transaction
  <2>2. Claimed(c)
    BY <1>1, <1>2, <2>1 DEF Claimed, Waiting
  <2> QED
    BY <1>1, <1>2, <2>2, EcuNetworkAssumption DEF NetworkInv, ClientsInv, WellFormed
<1>3. CASE t.kind # "scenario"
  BY <1>1, <1>3 DEF WellFormed
<1> QED
  BY <1>2, <1>3

\* A commit adds a scenario with all its results, or results of no scenario.
LEMMA CommitKeepsScenarios ==
    ASSUME NetworkInv, NEW c \in Clients, CommitFleet(c)
    PROVE  ScenariosAreWhole'
<1>0. PICK t : t = client[c]
  OBVIOUS
<1> DEFINE n == Len(stored)
           m == Len(t.plan)
<1>1. /\ WellFormed(t) /\ m \in Nat /\ m > 0 /\ n \in Nat
      /\ DOMAIN t.results = 1 .. m /\ DOMAIN stored = 1 .. n /\ DOMAIN stored' = 1 .. n + m
      /\ \A i \in 1 .. n : stored'[i] = stored[i]
      /\ \A i \in DOMAIN stored' : i \notin DOMAIN stored =>
           i - n \in 1 .. m /\ stored'[i] = t.results[i - n]
  BY <1>0, CommitAppends
<1>2. \/ /\ t.execution \in Executions \ executions /\ t.execution # NoRequest
         /\ t.plan \in Plans /\ executions' = executions \cup {t.execution}
      \/ t.execution = NoRequest /\ executions' = executions
  BY <1>0, CommittedIsClaimed
<1>3. \A i \in DOMAIN stored' : i \notin DOMAIN stored =>
        /\ i > n /\ stored'[i].execution = t.execution /\ stored'[i].index = i - n
  <2> TAKE i \in DOMAIN stored'
  <2> HAVE i \notin DOMAIN stored
  <2>1. i - n \in 1 .. m /\ stored'[i] = t.results[i - n] /\ i \in 1 .. n + m
    BY <1>1
  <2>2. t.results[i - n].execution = t.execution /\ t.results[i - n].index = i - n
    BY <1>1, <2>1 DEF WellFormed
  <2> QED
    BY <1>1, <2>1, <2>2
<1>4. \A i \in DOMAIN stored : i \in DOMAIN stored' /\ (i \in ByScenarios' <=> i \in ByScenarios)
                               /\ stored'[i] = stored[i] /\ i <= n
  BY <1>1 DEF ByScenarios
<1>5. \A i \in ByScenarios : i \in DOMAIN stored /\ stored[i].execution \in executions
  BY DEF NetworkInv, ScenariosAreWhole, ByScenarios
<1>6. (\A i \in ByScenarios : stored[i].execution \in executions)'
  <2> SUFFICES ASSUME NEW i \in ByScenarios'
               PROVE  stored'[i].execution \in executions'
    OBVIOUS
  <2>1. i \in DOMAIN stored' /\ stored'[i].execution # NoRequest
    BY DEF ByScenarios
  <2> QED
    BY <1>2, <1>3, <1>4, <1>5, <2>1
<1> DEFINE Mine(x) == {i \in ByScenarios' : stored'[i].execution = x}
<1>7. ASSUME NEW x \in executions'
      PROVE  /\ \E plan \in Plans : Cardinality(Mine(x)) = Len(plan)
             /\ \A i, j \in Mine(x) : i < j => stored'[i].index < stored'[j].index
  <2> DEFINE mine == Mine(x)
             before == {i \in ByScenarios : stored[i].execution = x}
  <2>1. CASE x \in executions
    <3>1. mine = before
      <4>1. x # t.execution
        BY <1>2, <2>1, EcuNetworkAssumption DEF NetworkInv
      <4>2. \A i \in mine : i \in DOMAIN stored
        BY <1>3, <4>1 DEF ByScenarios
      <4> QED
        BY <1>4, <1>5, <4>2
    <3>2. /\ \E plan \in Plans : Cardinality(before) = Len(plan)
          /\ \A i, j \in before : i < j => stored[i].index < stored[j].index
      BY <2>1 DEF NetworkInv, ScenariosAreWhole
    <3>3. \A i \in before : stored'[i] = stored[i]
      BY <1>4, <1>5
    <3> HIDE DEF Mine, before
    <3> QED
      BY <3>1, <3>2, <3>3
  <2>2. CASE x \notin executions
    <3>1. /\ x = t.execution /\ x # NoRequest /\ t.plan \in Plans
      BY <1>2, <2>2
    <3>2. mine = n + 1 .. n + m
      <4>1. \A i \in mine : i \in DOMAIN stored' /\ i \notin DOMAIN stored
        BY <1>4, <1>5, <2>2 DEF ByScenarios
      <4>2. \A i \in n + 1 .. n + m : i \in DOMAIN stored' /\ i \notin DOMAIN stored
        BY <1>1
      <4>3. \A i \in n + 1 .. n + m : i \in mine
        BY <1>3, <3>1, <4>2 DEF ByScenarios
      <4>4. \A i \in mine : i \in n + 1 .. n + m
        BY <1>1, <4>1
      <4> QED
        BY <4>3, <4>4
    <3>3. Cardinality(n + 1 .. n + m) = m
      <4>1. n + 1 \in Int /\ n + m \in Int /\ ~(n + 1 > n + m) /\ (n + m) - (n + 1) + 1 = m
        BY <1>1
      <4> HIDE DEF n, m
      <4> QED
        BY <4>1, FS_Interval
    <3>4. \A i, j \in n + 1 .. n + m : i < j => stored'[i].index < stored'[j].index
      <4> SUFFICES ASSUME NEW i \in n + 1 .. n + m, NEW j \in n + 1 .. n + m, i < j
                   PROVE  stored'[i].index < stored'[j].index
        OBVIOUS
      <4>1. /\ i \in DOMAIN stored' /\ i \notin DOMAIN stored
            /\ j \in DOMAIN stored' /\ j \notin DOMAIN stored
        BY <1>1
      <4>2. stored'[i].index = i - n /\ stored'[j].index = j - n
        BY <1>3, <4>1
      <4> QED
        BY <1>1, <4>2
    <3> HIDE DEF Mine
    <3> QED
      BY <3>1, <3>2, <3>3, <3>4
  <2> QED
    BY <2>1, <2>2
<1> QED
  BY <1>6, <1>7 DEF ScenariosAreWhole

\* A commit keeps the invariant of the transactions.
LEMMA CommitKeeps ==
    ASSUME NetworkInv, NEW c \in Clients, CommitFleet(c)
    PROVE  NetworkInv'
<1>1. /\ Active(c) /\ WellFormed(client[c]) /\ stored' \in Seq(StoredCommand)
      /\ Len(client[c].plan) \in Nat /\ Len(stored) \in Nat
      /\ Len(stored') = Len(stored) + Len(client[c].plan)
  BY CommitAppends
<1>2. fleet' \in [Ecus -> FleetRow] /\ routes' = routes
      /\ client' = [client EXCEPT ![c] = NoRequest]
  BY <1>1, FlushedRows DEF CommitFleet, End
<1>3. executions' \subseteq Executions
  BY CommittedIsClaimed DEF NetworkInv
<1>4. client' = [x \in Clients |-> client'[x]]
      /\ client'[c] = NoRequest /\ \A d \in Clients \ {c} : client'[d] = client[d]
  BY <1>2, ReplacedClient DEF NetworkInv
<1>5. InProgress' <= MaxStored
  <2>1. Len(stored') \in Nat /\ \A x \in Clients : Active(x) => WellFormed(client[x])
    BY <1>1 DEF NetworkInv, ClientsInv
  <2>2. /\ InProgress \in Int /\ Load[c] \in Int
        /\ InProgress' = InProgress + (Len(stored') - Len(stored)) - Load[c]
                           + (IF NoRequest # NoRequest THEN Len(NoRequest.plan) ELSE 0)
    BY <1>1, <1>2, <2>1, ProgressStep DEF NetworkInv
  <2>3. Load[c] = Len(client[c].plan)
    BY <1>1 DEF Load
  <2> QED
    BY <1>1, <2>2, <2>3 DEF NetworkInv
<1>6. ClientsInv'
  <2>1. \A d \in Clients : /\ Active(d)' => d # c /\ Active(d)
                           /\ Claimed(d)' => d # c /\ Claimed(d)
    BY <1>4 DEF Active, Claimed, Waiting
  <2>2. (\A d \in Clients : Active(d) => WellFormed(client[d]))'
    BY <1>4, <2>1 DEF NetworkInv, ClientsInv
  <2>3. (\A d, e \in Clients : Active(d) /\ Active(e) /\ d # e =>
                                 client[d].locks \cap client[e].locks = {})'
    BY <1>4, <2>1 DEF NetworkInv, ClientsInv
  <2>4. (\A d, e \in Clients : Claimed(d) /\ Claimed(e) => d = e)'
    BY <2>1 DEF NetworkInv, ClientsInv
  <2>5. (\A d \in Clients : Claimed(d) => client[d].execution \notin executions)'
    <3> SUFFICES ASSUME NEW d \in Clients, Claimed(d)'
                 PROVE  client'[d].execution \notin executions'
      OBVIOUS
    <3>1. d # c /\ Claimed(d) /\ ~Claimed(c)
      BY <2>1 DEF NetworkInv, ClientsInv
    <3>2. executions' = executions
      BY <3>1, CommittedIsClaimed
    <3> QED
      BY <1>4, <3>1, <3>2 DEF NetworkInv, ClientsInv
  <2> QED
    BY <2>2, <2>3, <2>4, <2>5 DEF ClientsInv
<1> QED
  BY <1>1, <1>2, <1>3, <1>4, <1>5, <1>6, CommitKeepsScenarios DEF NetworkInv

\* Every step of the network keeps the invariant of the transactions.
LEMMA NetworkInvStep ==
    ASSUME NetworkInv, NetworkStep \/ UNCHANGED fleetVars
    PROVE  NetworkInv'
<1>1. CASE UNCHANGED fleetVars
  <2>1. UNCHANGED <<fleet, routes, stored, executions, client>>
    BY <1>1 DEF fleetVars
  <2>2. InProgress' = InProgress
    BY ONLY <2>1 DEF InProgress, Active, MapThenSumSet, MapThenFoldSet
  <2>3. ClientsInv'
    BY <2>1 DEF NetworkInv, ClientsInv, Active, Claimed, Waiting
  <2>4. ScenariosAreWhole'
    BY <2>1 DEF NetworkInv, ScenariosAreWhole, ByScenarios
  <2> QED
    BY <2>1, <2>2, <2>3, <2>4 DEF NetworkInv
<1>2. ASSUME NEW c \in Clients, NEW e \in Ecus, NEW v \in Values, StartPublish(c, e, v)
      PROVE  NetworkInv'
  <2> DEFINE plan == <<PublishSignalOf(e, v)>>
  <2>1. plan \in Seq(PlannedActions) /\ Len(plan) = 1
    BY DEF PlannedActions
  <2>2. Start(c, "direct", NoRequest, plan, {e}) /\ {e} \subseteq Ecus
    BY <1>2 DEF StartPublish
  <2> HIDE DEF plan
  <2> QED
    BY <2>1, <2>2, StartKeeps
<1>3. ASSUME NEW c \in Clients, NEW r \in Routes, StartTransfer(c, r)
      PROVE  NetworkInv'
  <2> DEFINE plan == <<TransferOn(r)>>
             read == {r.gateway} \cap Ecus
  <2>1. plan \in Seq(PlannedActions) /\ Len(plan) = 1 /\ read \subseteq Ecus
    BY DEF PlannedActions
  <2>2. Start(c, "direct", NoRequest, plan, read)
    BY <1>3 DEF StartTransfer
  <2> HIDE DEF plan, read
  <2> QED
    BY <2>1, <2>2, StartKeeps
<1>4. ASSUME NEW c \in Clients, NEW x \in Executions, NEW plan \in Plans,
             StartScenario(c, x, plan)
      PROVE  NetworkInv'
  <2>1. plan \in Seq(PlannedActions) /\ Len(plan) > 0
    BY EcuNetworkAssumption, EmptySeq, LenProperties
  <2> QED
    BY <1>4, <2>1, StartKeeps DEF StartScenario
<1>5. ASSUME NEW c \in Clients, RunFleet(c)
      PROVE  NetworkInv'
  BY <1>5, ClaimKeeps, LockKeeps, PerformKeeps, CommitKeeps, EndKeeps
     DEF RunFleet, Answer, FleetDeadlockVictim, DropRequest
<1> QED
  BY <1>1, <1>2, <1>3, <1>4, <1>5, RouteKeeps DEF NetworkStep

-----------------------------------------------------------------------------
(* Transfers *)

TransferOf(t) == t.kind = "direct" /\ t.plan[1].kind = "transfer"

\* What a transfer has seen under its locks stays, if its rows do.
LEMMA CurrentStays ==
    ASSUME NEW t, Current(t), routes \subseteq routes',
           \A e \in t.locks : fleet'[e] = fleet[e]
    PROVE  Current(t)'
<1> SUFFICES ASSUME TransferOf(t)' PROVE Current(t)'
  BY DEF Current, TransferOf
<1>1. PICK r : r = t.plan[1].route
  OBVIOUS
<1> QED
  BY <1>1 DEF Current, TransferOf

\* A transfer is the only action of its request.
LEMMA FirstAction ==
    ASSUME NetworkInv, NEW c \in Clients, More(c), TransferOf(client[c])
    PROVE  /\ Action(c) = client[c].plan[1] /\ Len(client[c].results) = 0
           /\ Len(client[c].plan) = 1
           /\ Action(c).kind = "transfer" /\ Action(c).route \in Routes
           /\ Action(c).route.source # Action(c).route.target
           /\ Len(Action(c).rows) = 2
           /\ Action(c).rows[1] = Action(c).route.source
           /\ Action(c).rows[2] = Action(c).route.target
           /\ DOMAIN Action(c).rows = {1, 2}
<1>1. /\ Action(c) \in PlannedActions /\ Len(client[c].results) \in Nat
      /\ Action(c) = client[c].plan[Len(client[c].results) + 1]
      /\ WellFormed(client[c]) /\ Len(client[c].results) < Len(client[c].plan)
  BY NextAction DEF More
<1>2. Len(client[c].plan) = 1
  BY <1>1 DEF WellFormed, TransferOf
<1>3. Len(client[c].results) = 0 /\ Action(c) = client[c].plan[1]
  BY <1>1, <1>2
<1>4. DOMAIN Action(c).rows = {1, 2}
  BY <1>1, <1>3, ActionShape DEF TransferOf
<1> QED
  BY <1>1, <1>2, <1>3, <1>4, ActionShape DEF TransferOf

\* A transfer reads its ends as it locks them, except one that is its gateway,
\* which it read before.
LEMMA LockKeepsCurrent ==
    ASSUME NetworkInv, NEW c \in Clients, LockRow(c), Current(client[c])
    PROVE  Current(client[c])'
<1>0. PICK e, old : e \in Ecus /\ e = NextLock(c) /\ old = client[c]
  BY LockShape
<1>1. /\ More(c) /\ Unlocked(c) # {} /\ UNCHANGED <<fleet, routes>>
      /\ client'[c] = Locked(old, e)
  BY <1>0, LockShape, ReplacedClient DEF NetworkInv
<1>2. PICK t : t = Locked(old, e)
  OBVIOUS
<1>3. fleet \in [Ecus -> FleetRow] /\ WellFormed(old)
  BY <1>0, <1>1, NextAction DEF NetworkInv
<1>4. /\ t.kind = old.kind /\ t.plan = old.plan /\ t.results = old.results
      /\ t.touched = old.touched /\ DOMAIN t.seen = DOMAIN old.seen \cup {e}
      /\ \A s \in DOMAIN old.seen : t.seen[s] = old.seen[s]
      /\ e \notin DOMAIN old.seen => t.seen[e] = fleet[e]
  <2>1. /\ t.kind = old.kind /\ t.plan = old.plan /\ t.results = old.results
        /\ t.touched = old.touched
    BY ONLY <1>0, <1>2, <1>3, LockedFields
  <2>2. t.seen = [s \in DOMAIN old.seen \cup {e} |->
                    IF s \in DOMAIN old.seen THEN old.seen[s] ELSE fleet[s]]
    BY <1>2, <1>3 DEF Locked, WellFormed, Transaction
  <2> QED
    BY <2>1, <2>2
<1>5. t.locks = old.locks \cup {e}
  BY <1>2, <1>3 DEF Locked, WellFormed, Transaction
<1>6. SUFFICES ASSUME TransferOf(t) PROVE Current(t)'
  <2>1. client'[c] = t
    BY <1>1, <1>2
  <2>2. ~TransferOf(t) => Current(t)'
    BY DEF Current, TransferOf
  <2>3. Current(t)' => Current(client[c])'
    BY ONLY <2>1
  <2> QED
    BY <2>2, <2>3
<1>7. TransferOf(old)
  BY <1>4, <1>6 DEF TransferOf
<1>8. PICK r \in Routes : r = old.plan[1].route
  BY <1>0, <1>1, <1>7, FirstAction
<1>9. /\ e \in {r.source, r.target} /\ e \notin old.locks /\ Len(old.results) = 0
  BY <1>0, <1>1, <1>7, <1>8, FirstAction, NextLockIsRow
<1>10. e # r.gateway => e \notin DOMAIN old.seen
  BY <1>0, <1>7, <1>8, <1>9 DEF Current, TransferOf
<1>11. /\ DOMAIN old.seen \subseteq {r.gateway} \cup old.locks
       /\ old.locks \subseteq {r.source, r.target} /\ old.touched = {}
       /\ \A s \in old.locks \ {r.gateway} : old.seen[s] = fleet[s]
  BY <1>0, <1>7, <1>8, <1>9 DEF Current, TransferOf
<1>12. old.locks \subseteq DOMAIN old.seen
  BY <1>3 DEF WellFormed, Transaction
<1>13. /\ DOMAIN t.seen \subseteq {r.gateway} \cup t.locks
       /\ t.locks \subseteq {r.source, r.target} /\ t.touched = {}
       /\ Len(t.results) = 0 /\ t.plan[1].route = r
  BY <1>4, <1>5, <1>8, <1>9, <1>11
<1>14. \A s \in t.locks \ {r.gateway} : t.seen[s] = fleet'[s]
  BY <1>1, <1>4, <1>5, <1>10, <1>11, <1>12
<1> QED
  BY <1>13, <1>14 DEF Current

\* A transfer advances the version of its target by the value of its source, as
\* it has seen them.
LEMMA PerformKeepsCurrent ==
    ASSUME NetworkInv, NEW c \in Clients, Perform(c), Current(client[c])
    PROVE  Current(client[c])'
<1>0. PICK old, a : old = client[c] /\ a = Action(c)
  OBVIOUS
<1>1. /\ More(c) /\ Unlocked(c) = {} /\ UNCHANGED <<fleet, routes>>
      /\ client'[c] = Performed(old, a) /\ a \in PlannedActions
      /\ \A i \in DOMAIN a.rows : a.rows[i] \in old.locks
  BY <1>0, PerformShape, ReplacedClient DEF NetworkInv
<1>2. PICK t : t = Performed(old, a)
  OBVIOUS
<1>3. WellFormed(old)
  BY <1>0, <1>1, NextAction
<1>4. /\ t.kind = old.kind /\ t.plan = old.plan /\ t.locks = old.locks
      /\ t.seen = [old.seen EXCEPT ![Changed(a)] = Effect(a, old.seen)]
      /\ t.results = Append(old.results, ResultOf(old, a))
      /\ t.touched = old.touched \cup {Changed(a)}
         \/ /\ t.touched = old.touched
            /\ Effect(a, old.seen).produced = old.seen[Changed(a)].produced
            /\ Effect(a, old.seen).consumed = old.seen[Changed(a)].consumed
      /\ Changed(a) \in DOMAIN old.seen
  <2>1. /\ t.kind = old.kind /\ t.plan = old.plan /\ t.locks = old.locks
        /\ t.seen = [old.seen EXCEPT ![Changed(a)] = Effect(a, old.seen)]
        /\ t.results = Append(old.results, ResultOf(old, a))
        /\ Changed(a) \in DOMAIN old.seen
    BY ONLY <1>1, <1>2, <1>3, PerformedFields
  <2>2. t.touched = old.touched \cup {Changed(a)}
        \/ /\ t.touched = old.touched
           /\ Effect(a, old.seen).produced = old.seen[Changed(a)].produced
           /\ Effect(a, old.seen).consumed = old.seen[Changed(a)].consumed
    BY <1>1, <1>2, <1>3, PerformedTouches
  <2> QED
    BY <2>1, <2>2
<1>5. SUFFICES ASSUME TransferOf(t) PROVE Current(t)'
  <2>1. client'[c] = t
    BY <1>1, <1>2
  <2>2. ~TransferOf(t) => Current(t)'
    BY DEF Current, TransferOf
  <2>3. Current(t)' => Current(client[c])'
    BY ONLY <2>1
  <2> QED
    BY <2>2, <2>3
<1>6. TransferOf(old)
  BY <1>4, <1>5 DEF TransferOf
<1>7. PICK r \in Routes : r = old.plan[1].route
  BY <1>0, <1>1, <1>6, FirstAction
<1>8. /\ a = old.plan[1] /\ a.kind = "transfer" /\ a.route = r /\ r.source # r.target
      /\ Len(old.results) = 0
      /\ {r.source, r.target} \subseteq old.locks
  BY <1>0, <1>1, <1>6, <1>7, FirstAction
<1>9. r \in routes
  BY <1>0, <1>8 DEF Perform, Allowed
<1>10. /\ DOMAIN old.seen \subseteq {r.gateway} \cup old.locks
       /\ old.locks \subseteq {r.source, r.target} /\ old.touched = {}
       /\ \A s \in old.locks \ {r.gateway} : old.seen[s] = fleet[s]
  BY <1>0, <1>6, <1>7, <1>8 DEF Current, TransferOf
<1>11. /\ Changed(a) = r.target
       /\ Effect(a, old.seen).version = old.seen[r.target].version + 1
       /\ Effect(a, old.seen).consumed = old.seen[r.source].produced
       /\ Effect(a, old.seen).produced = old.seen[r.target].produced
  <2>1. old.seen \in [DOMAIN old.seen -> FleetRow] /\ old.locks \subseteq DOMAIN old.seen
    BY <1>3 DEF WellFormed, Transaction
  <2>2. \A i \in DOMAIN a.rows : a.rows[i] \in DOMAIN old.seen
    BY <1>1, <2>1
  <2> QED
    BY <1>1, <1>8, <2>1, <2>2, EffectShape, ChangedIsRow
<1>12. /\ r.gateway # r.source => old.seen[r.source] = fleet[r.source]
       /\ r.gateway # r.target => old.seen[r.target] = fleet[r.target]
  BY <1>8, <1>10
<1>13. t.seen[r.target] = Effect(a, old.seen) /\ DOMAIN t.seen = DOMAIN old.seen
  BY <1>4, <1>11
<1>14. Len(t.results) = 1 /\ t.results[1] = ResultOf(old, a)
  <2>1. old.results \in Seq(StoredCommand) /\ ResultOf(old, a) \in StoredCommand
    BY <1>1, <1>3, PerformedFields DEF WellFormed, Transaction
  <2>2. t.results[Len(old.results) + 1] = ResultOf(old, a) /\ Len(t.results) = Len(old.results) + 1
    BY <1>4, <2>1, AppendProperties
  <2> QED
    BY <1>8, <2>2
<1>15. /\ t.results[1].ecu = r.target /\ t.results[1].route = r
       /\ r.gateway # r.target => t.results[1].previous = fleet[r.target].version
  BY <1>8, <1>11, <1>12, <1>14 DEF ResultOf, RouteOf
<1>16. r.gateway # r.target =>
         /\ t.seen[r.target].version = fleet[r.target].version + 1
         /\ t.seen[r.target].produced = fleet[r.target].produced
         /\ r.gateway # r.source => t.seen[r.target].consumed = fleet[r.source].produced
  BY <1>11, <1>12, <1>13
<1>17. /\ t.touched \subseteq {r.target}
       /\ r.gateway # r.target /\ r.target \notin t.touched =>
            t.seen[r.target].consumed = fleet[r.target].consumed
  <2>1. \/ t.touched = {r.target}
        \/ /\ t.touched = {}
           /\ Effect(a, old.seen).consumed = old.seen[r.target].consumed
    BY ONLY <1>4, <1>10, <1>11
  <2> QED
    BY ONLY <2>1, <1>12, <1>13
<1>18. /\ DOMAIN t.seen \subseteq {r.gateway} \cup t.locks
       /\ t.locks \subseteq {r.source, r.target} /\ {r.source, r.target} \subseteq t.locks
       /\ t.plan[1].route = r /\ Len(t.results) # 0
  BY <1>4, <1>7, <1>8, <1>10, <1>13, <1>14
<1>19. UNCHANGED <<fleet, routes>>
  BY <1>1
<1> QED
  BY ONLY <1>9, <1>15, <1>16, <1>17, <1>18, <1>19 DEF Current

\* A transfer that starts has read its gateway only.
LEMMA StartIsCurrent ==
    ASSUME NetworkInv, NEW c \in Clients, NEW kind, NEW execution, NEW plan, NEW read,
           kind = "direct" /\ plan[1].kind = "transfer" => read \subseteq {plan[1].route.gateway},
           Start(c, kind, execution, plan, read)
    PROVE  Current(client[c])'
<1>1. client'[c] = [kind |-> kind, execution |-> execution, plan |-> plan,
                    seen |-> [e \in read |-> fleet[e]], locks |-> {}, touched |-> {},
                    results |-> <<>>]
  BY ReplacedClient DEF Start, NetworkInv
<1>2. PICK t : t = client'[c]
  OBVIOUS
<1>3. /\ t.kind = kind /\ t.plan = plan /\ DOMAIN t.seen = read /\ t.locks = {}
      /\ t.touched = {} /\ Len(t.results) = 0
  BY <1>1, <1>2
<1>4. Current(t)'
  BY ONLY <1>3, kind = "direct" /\ plan[1].kind = "transfer" => read \subseteq {plan[1].route.gateway}
     DEF Current
<1> QED
  BY <1>2, <1>4

-----------------------------------------------------------------------------
(* Versions *)

\* A finite set of naturals, shifted.
LEMMA ShiftedSet ==
    ASSUME NEW A, IsFiniteSet(A), A \subseteq Nat, NEW n \in Nat
    PROVE  /\ IsFiniteSet({n + i : i \in A})
           /\ Cardinality({n + i : i \in A}) = Cardinality(A)
<1> DEFINE f == [i \in A |-> n + i]
           B == {n + i : i \in A}
<1>1. /\ f \in [A -> B] /\ \A b \in B : \E i \in A : f[i] = b
      /\ \A i, j \in A : f[i] = f[j] => i = j
  OBVIOUS
<1> HIDE DEF f, B
<1>2. f \in Bijection(A, B)
  BY ONLY <1>1, Fun_IsBij
<1>3. ExistsBijection(A, B)
  BY <1>2 DEF ExistsBijection
<1> QED
  BY <1>3, FS_Bijection DEF B

\* The results of a transaction on one ECU are finitely many.
LEMMA ActedOnIsFinite ==
    ASSUME NEW t, WellFormed(t), NEW e
    PROVE  /\ IsFiniteSet(ActedOn(t, e)) /\ Cardinality(ActedOn(t, e)) \in Nat
           /\ ActedOn(t, e) \subseteq Nat
<1>1. t.results \in Seq(StoredCommand)
  BY DEF WellFormed, Transaction
<1>2. DOMAIN t.results = 1 .. Len(t.results) /\ Len(t.results) \in Nat
  BY <1>1, LenProperties
<1>3. ActedOn(t, e) \subseteq 1 .. Len(t.results)
  BY <1>2 DEF ActedOn
<1>4. IsFiniteSet(1 .. Len(t.results))
  BY <1>2, FS_Interval
<1> QED
  BY <1>2, <1>3, <1>4, FS_Subset, FS_CardinalityType

\* An action gives out the next version of its row.
LEMMA PerformCounts ==
    ASSUME NEW t, WellFormed(t), NEW a \in PlannedActions,
           \A i \in DOMAIN a.rows : a.rows[i] \in t.locks,
           NEW rows, rows \subseteq DOMAIN t.seen, Changed(a) \in rows,
           Acted(t) \subseteq rows,
           fleet \in [Ecus -> FleetRow], Counted(t, rows)
    PROVE  Counted(Performed(t, a), rows)
<1>0. PICK p, e, n : p = Performed(t, a) /\ e = Changed(a) /\ n = Len(t.results) + 1
  OBVIOUS
<1>1. /\ p.seen = [t.seen EXCEPT ![e] = Effect(a, t.seen)]
      /\ p.results = Append(t.results, ResultOf(t, a))
      /\ ResultOf(t, a) \in StoredCommand /\ e \in DOMAIN t.seen
  BY ONLY <1>0, WellFormed(t), a \in PlannedActions,
          \A i \in DOMAIN a.rows : a.rows[i] \in t.locks, PerformedFields
<1>2. /\ t.seen \in [DOMAIN t.seen -> FleetRow] /\ DOMAIN t.seen \subseteq Ecus
      /\ t.results \in Seq(StoredCommand) /\ t.locks \subseteq DOMAIN t.seen
  BY DEF WellFormed, Transaction
<1>3. Effect(a, t.seen).version = t.seen[e].version + 1
  <2>1. \A i \in DOMAIN a.rows : a.rows[i] \in DOMAIN t.seen
    BY <1>2
  <2> QED
    BY <1>0, <1>2, <2>1, EffectShape
<1>4. /\ p.seen[e].version = t.seen[e].version + 1
      /\ \A s \in DOMAIN t.seen : s # e => p.seen[s].version = t.seen[s].version
  BY <1>1, <1>3
<1>5. /\ Len(t.results) \in Nat /\ DOMAIN t.results = 1 .. Len(t.results)
      /\ DOMAIN p.results = 1 .. n /\ n \notin DOMAIN t.results
      /\ \A i \in DOMAIN t.results : p.results[i] = t.results[i]
      /\ p.results[n].ecu = e /\ p.results[n].previous = t.seen[e].version
  <2>1. /\ Len(t.results) \in Nat /\ DOMAIN t.results = 1 .. Len(t.results)
    BY <1>2, LenProperties
  <2>2. /\ p.results \in Seq(StoredCommand) /\ Len(p.results) = Len(t.results) + 1
        /\ \A i \in 1 .. Len(t.results) : p.results[i] = t.results[i]
        /\ p.results[Len(t.results) + 1] = ResultOf(t, a)
    BY <1>1, <1>2, AppendProperties
  <2>3. DOMAIN p.results = 1 .. n
    BY <1>0, <2>2, LenProperties
  <2>4. ResultOf(t, a).ecu = e /\ ResultOf(t, a).previous = t.seen[e].version
    BY <1>0 DEF ResultOf
  <2> QED
    BY <1>0, <2>1, <2>2, <2>3, <2>4
<1>6. \A i \in DOMAIN p.results : i \in DOMAIN t.results \/ i = n
  BY <1>0, <1>5
<1>7. /\ \A s : s # e => ActedOn(p, s) = ActedOn(t, s)
      /\ ActedOn(p, e) = ActedOn(t, e) \cup {n} /\ n \notin ActedOn(t, e)
  <2>1. \A i \in DOMAIN t.results : i \in DOMAIN p.results
    BY <1>0, <1>5
  <2>2. n \in DOMAIN p.results
    BY <1>0, <1>5
  <2>3. \A s : s # e => ActedOn(p, s) = ActedOn(t, s)
    BY <1>5, <1>6, <2>1 DEF ActedOn
  <2>4. ActedOn(p, e) = ActedOn(t, e) \cup {n} /\ n \notin ActedOn(t, e)
    BY <1>5, <1>6, <2>1, <2>2 DEF ActedOn
  <2> QED
    BY <2>3, <2>4
<1>8. Cardinality(ActedOn(p, e)) = Cardinality(ActedOn(t, e)) + 1
  BY <1>7, ActedOnIsFinite, FS_AddElement
<1>9. \A s \in Ecus : fleet[s].version \in Nat
  BY DEF FleetRow
<1>10. \A s \in DOMAIN t.seen : t.seen[s].version \in Nat
  BY <1>2 DEF FleetRow
<1>11. \A s \in rows : Cardinality(ActedOn(t, s)) \in Nat
                       /\ t.seen[s].version = fleet[s].version + Cardinality(ActedOn(t, s))
  BY ActedOnIsFinite DEF Counted
<1>12. \A s \in rows : p.seen[s].version = fleet[s].version + Cardinality(ActedOn(p, s))
  <2> TAKE s \in rows
  <2>1. CASE s = e
    <3>1. /\ p.seen[e].version = t.seen[e].version + 1
          /\ Cardinality(ActedOn(p, e)) = Cardinality(ActedOn(t, e)) + 1
      BY <1>4, <1>8
    <3>2. /\ Cardinality(ActedOn(t, e)) \in Nat /\ fleet[e].version \in Nat
          /\ t.seen[e].version = fleet[e].version + Cardinality(ActedOn(t, e))
      BY <1>1, <1>2, <1>9, <1>11, <2>1
    <3> QED
      BY ONLY <2>1, <3>1, <3>2
  <2>2. CASE s # e
    BY <1>4, <1>7, <1>11, <2>2
  <2> QED
    BY <2>1, <2>2
<1>13. \A i \in DOMAIN t.results :
         LET s == t.results[i].ecu
         IN  /\ s \in rows /\ t.results[i].previous \in Nat
             /\ fleet[s].version <= t.results[i].previous
             /\ t.results[i].previous < t.seen[s].version
  <2> TAKE i \in DOMAIN t.results
  <2>1. t.results[i] \in StoredCommand
    BY <1>2, <1>5, ElementOfSeq
  <2> QED
    BY <2>1 DEF Counted, Acted, StoredCommand
<1>14. ASSUME NEW i \in DOMAIN p.results
       PROVE  /\ fleet[p.results[i].ecu].version <= p.results[i].previous
              /\ p.results[i].previous < p.seen[p.results[i].ecu].version
  <2>1. CASE i \in DOMAIN t.results
    <3>1. PICK s \in rows : s = t.results[i].ecu
      BY <1>13, <2>1
    <3>2. /\ p.results[i] = t.results[i] /\ t.results[i].previous \in Nat
          /\ fleet[s].version <= t.results[i].previous
          /\ t.results[i].previous < t.seen[s].version /\ t.seen[s].version \in Nat
      BY <1>5, <1>10, <1>13, <2>1, <3>1
    <3>3. t.seen[s].version <= p.seen[s].version /\ p.seen[s].version \in Nat
      BY <1>4, <1>10, <3>1
    <3> QED
      BY <3>1, <3>2, <3>3
  <2>2. CASE i = n
    <3>1. fleet[e].version <= t.seen[e].version
      BY <1>0, <1>2, <1>9, <1>11
    <3>2. t.seen[e].version < p.seen[e].version
      BY <1>1, <1>4, <1>10
    <3> QED
      BY <1>5, <2>2, <3>1, <3>2
  <2> QED
    BY <1>6, <2>1, <2>2
<1>15. ASSUME NEW i \in DOMAIN p.results, NEW j \in DOMAIN p.results, i # j,
              p.results[i].ecu = p.results[j].ecu
       PROVE  p.results[i].previous # p.results[j].previous
  <2>1. CASE i \in DOMAIN t.results /\ j \in DOMAIN t.results
    BY <1>5, <1>15, <2>1 DEF Counted
  <2>2. ASSUME NEW k \in DOMAIN t.results, t.results[k].ecu = e
        PROVE  t.results[k].previous # t.seen[e].version
    BY <1>10, <1>13, <1>1, <2>2
  <2>3. CASE i = n /\ j \in DOMAIN t.results
    BY <1>5, <1>15, <2>2, <2>3
  <2>4. CASE j = n /\ i \in DOMAIN t.results
    BY <1>5, <1>15, <2>2, <2>4
  <2> QED
    BY <1>6, <1>15, <2>1, <2>3, <2>4
<1>16. Counted(p, rows)
  BY ONLY <1>12, <1>14, <1>15 DEF Counted
<1> QED
  BY <1>0, <1>16

\* A claimed scenario, which has read every ECU, reads no row anew as it locks it.
LEMMA LockCounts ==
    ASSUME NEW t, WellFormed(t), NEW e \in Ecus, fleet \in [Ecus -> FleetRow],
           Counted(t, DOMAIN t.seen), DOMAIN t.seen = Ecus
    PROVE  Counted(Locked(t, e), DOMAIN Locked(t, e).seen)
<1>0. PICK u : u = Locked(t, e)
  OBVIOUS
<1>1. u.results = t.results
  BY ONLY <1>0, WellFormed(t), e \in Ecus, fleet \in [Ecus -> FleetRow], LockedFields
<1>2. u.seen = [s \in DOMAIN t.seen \cup {e} |-> IF s \in DOMAIN t.seen THEN t.seen[s] ELSE fleet[s]]
  BY <1>0 DEF Locked, WellFormed, Transaction
<1>3. DOMAIN u.seen = Ecus /\ \A s \in Ecus : u.seen[s] = t.seen[s]
  BY <1>2
<1>4. \A i \in DOMAIN t.results : t.results[i].ecu \in Ecus
  BY DEF WellFormed, Transaction
<1>5. Counted(u, DOMAIN u.seen)
  BY <1>1, <1>3, <1>4 DEF Counted, ActedOn
<1> QED
  BY <1>0, <1>5

\* A scenario that has just read every ECU has given out no version.
LEMMA ClaimCounts ==
    ASSUME NEW t, WellFormed(t), DOMAIN t.seen = {}, fleet \in [Ecus -> FleetRow],
           NEW u, u.seen = fleet, u.results = t.results
    PROVE  Counted(u, DOMAIN u.seen)
<1>1. DOMAIN t.results = {}
  BY DEF WellFormed, Transaction
<1>2. \A e : ActedOn(u, e) = {}
  BY <1>1 DEF ActedOn
<1>3. \A e \in Ecus : fleet[e].version \in Nat
  BY DEF FleetRow
<1> QED
  BY <1>1, <1>2, <1>3, FS_EmptySet DEF Counted

\* A commit of versions that were counted leaves the versions counted.
LEMMA CommitCounts ==
    ASSUME NetworkInv, NEW c \in Clients, CommitFleet(c), VersionsCount,
           Counted(client[c], Acted(client[c]))
    PROVE  VersionsCount'
<1>0. PICK t, n : t = client[c] /\ n = Len(stored)
  OBVIOUS
<1>1. /\ Active(c) /\ WellFormed(t) /\ n \in Nat
      /\ DOMAIN t.results = 1 .. Len(t.plan) /\ Len(t.plan) \in Nat
      /\ DOMAIN stored = 1 .. n /\ DOMAIN stored' = 1 .. n + Len(t.plan)
      /\ \A i \in DOMAIN stored : stored'[i] = stored[i]
      /\ \A i \in DOMAIN t.results : stored'[n + i] = t.results[i]
      /\ \A i \in DOMAIN stored' : i \notin DOMAIN stored =>
           i - n \in DOMAIN t.results /\ stored'[i] = t.results[i - n]
      /\ stored' \in Seq(StoredCommand)
  BY <1>0, CommitAppends
<1>2. \A e \in Ecus : fleet'[e].version = IF e \in Acted(t) THEN t.seen[e].version
                                          ELSE fleet[e].version
  BY <1>0, <1>1, FlushedRows DEF CommitFleet
<1>3. \A e \in Ecus : fleet[e].version \in Nat
  BY DEF NetworkInv, FleetRow
<1>4. /\ \A i \in DOMAIN stored : stored[i] \in StoredCommand
      /\ \A i \in DOMAIN t.results : t.results[i] \in StoredCommand
  BY <1>1, LenProperties, ElementOfSeq DEF NetworkInv, WellFormed, Transaction
<1>5. Acted(t) \subseteq Ecus /\ Acted(t) \subseteq DOMAIN t.seen
      /\ \A e \in Acted(t) : t.seen[e].version \in Nat
  BY <1>1 DEF WellFormed, Transaction, Acted, FleetRow
<1>6. ASSUME NEW e \in Ecus
      PROVE  /\ fleet[e].version <= fleet'[e].version /\ fleet'[e].version \in Nat
             /\ Cardinality(ActedOn(t, e)) \in Nat
             /\ fleet'[e].version = fleet[e].version + Cardinality(ActedOn(t, e))
  <2>1. Cardinality(ActedOn(t, e)) \in Nat
    BY <1>1, ActedOnIsFinite
  <2>2. CASE e \in Acted(t)
    BY <1>0, <1>2, <1>3, <1>5, <2>1, <2>2 DEF Counted
  <2>3. CASE e \notin Acted(t)
    <3>1. ActedOn(t, e) = {}
      BY <2>3 DEF ActedOn, Acted
    <3> QED
      BY <1>2, <1>3, <2>3, <3>1, FS_EmptySet
  <2> QED
    BY <2>2, <2>3
\* New results start from versions that no stored one did.
<1>7. /\ \A i \in DOMAIN stored : /\ stored[i].ecu \in Ecus /\ stored[i].previous \in Nat
                                 /\ stored[i].previous < fleet[stored[i].ecu].version
      /\ \A i \in DOMAIN t.results :
           /\ t.results[i].ecu \in Ecus /\ t.results[i].previous \in Nat
           /\ fleet[t.results[i].ecu].version <= t.results[i].previous
           /\ t.results[i].previous < fleet'[t.results[i].ecu].version
  <2>1. \A i \in DOMAIN stored : /\ stored[i].ecu \in Ecus /\ stored[i].previous \in Nat
                                 /\ stored[i].previous < fleet[stored[i].ecu].version
    BY <1>4 DEF VersionsCount, StoredCommand
  <2>2. ASSUME NEW i \in DOMAIN t.results
        PROVE  /\ t.results[i].ecu \in Ecus /\ t.results[i].previous \in Nat
               /\ fleet[t.results[i].ecu].version <= t.results[i].previous
               /\ t.results[i].previous < fleet'[t.results[i].ecu].version
    <3>1. t.results[i].ecu \in Acted(t)
      BY DEF Acted
    <3>2. t.results[i].previous \in Nat
      BY <1>4 DEF StoredCommand
    <3>3. /\ fleet[t.results[i].ecu].version <= t.results[i].previous
          /\ t.results[i].previous < t.seen[t.results[i].ecu].version
      BY <1>0 DEF Counted
    <3> QED
      BY <1>2, <1>5, <3>1, <3>2, <3>3
  <2> QED
    BY <2>1, <2>2
<1>8. \A i \in DOMAIN stored' : stored'[i].previous < fleet'[stored'[i].ecu].version
  <2> TAKE i \in DOMAIN stored'
  <2>1. CASE i \in DOMAIN stored
    <3>1. PICK e \in Ecus : e = stored[i].ecu
      BY <1>7, <2>1
    <3>2. stored[i].previous \in Nat /\ stored[i].previous < fleet[e].version
      BY <1>7, <2>1, <3>1
    <3>3. fleet[e].version \in Nat /\ fleet'[e].version \in Nat
          /\ fleet[e].version <= fleet'[e].version
      BY <1>3, <1>6
    <3>4. stored'[i] = stored[i]
      BY <1>1, <2>1
    <3>5. stored[i].previous < fleet'[e].version
      BY ONLY <3>2, <3>3
    <3> QED
      BY ONLY <3>1, <3>4, <3>5
  <2>2. CASE i \notin DOMAIN stored
    BY <1>1, <1>7, <2>2
  <2> QED
    BY <2>1, <2>2
<1>9. ASSUME NEW e \in Ecus
      PROVE  /\ fleet'[e].version = 1 + Cardinality(CommandsOn(e)')
             /\ \A i, j \in CommandsOn(e)' : i # j => stored'[i].previous # stored'[j].previous
  <2> DEFINE New == {n + i : i \in ActedOn(t, e)}
  <2>1. CommandsOn(e)' = CommandsOn(e) \cup New
    <3>1. \A i \in CommandsOn(e)' : i \in CommandsOn(e) \cup New
      <4> TAKE i \in CommandsOn(e)'
      <4>1. i \in DOMAIN stored' /\ stored'[i].ecu = e
        BY DEF CommandsOn
      <4>2. CASE i \in DOMAIN stored
        BY <1>1, <4>1, <4>2 DEF CommandsOn
      <4>3. CASE i \notin DOMAIN stored
        <5>1. i - n \in ActedOn(t, e)
          BY <1>1, <4>1, <4>3 DEF ActedOn
        <5>2. i = n + (i - n)
          BY <1>1, <4>1
        <5> QED
          BY <5>1, <5>2
      <4> QED
        BY <4>2, <4>3
    <3>2. \A i \in CommandsOn(e) : i \in CommandsOn(e)'
      BY <1>1 DEF CommandsOn
    <3>3. \A i \in ActedOn(t, e) : n + i \in CommandsOn(e)'
      <4> TAKE i \in ActedOn(t, e)
      <4>1. i \in DOMAIN t.results /\ t.results[i].ecu = e
        BY DEF ActedOn
      <4>2. n + i \in DOMAIN stored' /\ stored'[n + i] = t.results[i]
        BY <1>1, <4>1
      <4> QED
        BY <4>1, <4>2 DEF CommandsOn
    <3> QED
      BY <3>1, <3>2, <3>3
  <2>2. CommandsOn(e) \cap New = {}
    BY <1>1 DEF CommandsOn, ActedOn
  <2>3. IsFiniteSet(CommandsOn(e)) /\ Cardinality(CommandsOn(e)) \in Nat
    <3>1. CommandsOn(e) \subseteq 1 .. n /\ IsFiniteSet(1 .. n)
      BY <1>1, FS_Interval DEF CommandsOn
    <3> QED
      BY <3>1, FS_Subset, FS_CardinalityType
  <2>4. IsFiniteSet(New) /\ Cardinality(New) = Cardinality(ActedOn(t, e))
    BY <1>1, ActedOnIsFinite, ShiftedSet
  <2>5. Cardinality(CommandsOn(e)') = Cardinality(CommandsOn(e)) + Cardinality(ActedOn(t, e))
    <3>1. Cardinality(CommandsOn(e) \cup New)
            = Cardinality(CommandsOn(e)) + Cardinality(New) - Cardinality(CommandsOn(e) \cap New)
      BY <2>3, <2>4, FS_Union
    <3>2. Cardinality({}) = 0
      BY FS_EmptySet
    <3>3. Cardinality(CommandsOn(e)') = Cardinality(CommandsOn(e) \cup New)
      BY ONLY <2>1
    <3>4. Cardinality(CommandsOn(e) \cap New) = 0
      BY ONLY <2>2, <3>2
    <3> HIDE DEF New
    <3> QED
      BY <1>6, <2>3, <2>4, <3>1, <3>3, <3>4
  <2>6. fleet'[e].version = 1 + Cardinality(CommandsOn(e)')
    <3>1. fleet[e].version = 1 + Cardinality(CommandsOn(e))
      BY DEF VersionsCount
    <3> QED
      BY <1>6, <2>3, <2>5, <3>1
  <2>7. ASSUME NEW i \in CommandsOn(e)', NEW j \in CommandsOn(e)', i # j
        PROVE  stored'[i].previous # stored'[j].previous
    <3>1. /\ i \in DOMAIN stored' /\ stored'[i].ecu = e
          /\ j \in DOMAIN stored' /\ stored'[j].ecu = e
      BY DEF CommandsOn
    <3>2. CASE i \in DOMAIN stored /\ j \in DOMAIN stored
      <4>1. i \in CommandsOn(e) /\ j \in CommandsOn(e)
        BY <1>1, <3>1, <3>2 DEF CommandsOn
      <4> QED
        BY <1>1, <2>7, <3>2, <4>1 DEF VersionsCount
    <3>3. ASSUME NEW k \in DOMAIN stored', k \in DOMAIN stored, stored'[k].ecu = e
          PROVE  stored'[k].previous \in Nat /\ stored'[k].previous < fleet[e].version
      BY <1>1, <1>7, <3>3
    <3>4. ASSUME NEW k \in DOMAIN stored', k \notin DOMAIN stored, stored'[k].ecu = e
          PROVE  /\ stored'[k].previous \in Nat /\ fleet[e].version <= stored'[k].previous
                 /\ k - n \in ActedOn(t, e) /\ stored'[k] = t.results[k - n]
      BY <1>1, <1>7, <3>4 DEF ActedOn
    <3>5. CASE i \in DOMAIN stored /\ j \notin DOMAIN stored
      BY <1>3, <3>1, <3>3, <3>4, <3>5
    <3>6. CASE i \notin DOMAIN stored /\ j \in DOMAIN stored
      BY <1>3, <3>1, <3>3, <3>4, <3>6
    <3>7. CASE i \notin DOMAIN stored /\ j \notin DOMAIN stored
      <4>1. /\ i - n \in DOMAIN t.results /\ j - n \in DOMAIN t.results
            /\ stored'[i] = t.results[i - n] /\ stored'[j] = t.results[j - n]
            /\ t.results[i - n].ecu = e /\ t.results[j - n].ecu = e
        BY <3>1, <3>4, <3>7 DEF ActedOn
      <4>2. i - n # j - n
        BY <1>1, <2>7, <3>1
      <4> QED
        BY <1>0, <4>1, <4>2 DEF Counted
    <3> QED
      BY <3>2, <3>5, <3>6, <3>7
  <2> QED
    BY <2>6, <2>7
<1> QED
  BY <1>8, <1>9 DEF VersionsCount

-----------------------------------------------------------------------------
(* The invariant of the updates *)

\* Versions that were counted stay so while no row changes.
LEMMA CountedStays ==
    ASSUME NEW t, NEW rows, Counted(t, rows), UNCHANGED fleet
    PROVE  Counted(t, rows)'
BY DEF Counted, ActedOn

\* A step of one transaction that changes no ECU.
LEMMA LocalSerial ==
    ASSUME SerialInv, NetworkInv', NEW c \in Clients, NEW t, client' = [client EXCEPT ![c] = t],
           UNCHANGED <<fleet, stored>>, routes \subseteq routes',
           t # NoRequest => Current(t)',
           OnlyScenarios /\ Claimed(c)' => Counted(t, DOMAIN t.seen)'
    PROVE  SerialInv'
<1>1. /\ client'[c] = t /\ \A d \in Clients \ {c} : client'[d] = client[d]
  BY ReplacedClient DEF SerialInv, NetworkInv
<1>2. \A d \in Clients \ {c} : (Active(d)' <=> Active(d)) /\ (Claimed(d)' <=> Claimed(d))
  BY <1>1 DEF Active, Claimed, Waiting
<1>3. (\A d \in Clients : Active(d) => Current(client[d]))'
  <2> SUFFICES ASSUME NEW d \in Clients, Active(d)'
               PROVE  Current(client[d])'
    OBVIOUS
  <2>1. CASE d = c
    <3>1. Current(t)'
      BY <1>1, <2>1 DEF Active
    <3> QED
      BY <1>1, <2>1, <3>1
  <2>2. CASE d # c
    <3>1. PICK u : u = client[d]
      OBVIOUS
    <3>2. Current(u) /\ client'[d] = u
      BY <1>1, <1>2, <2>2, <3>1 DEF SerialInv
    <3>3. Current(u)'
      BY <3>2, CurrentStays
    <3> QED
      BY <3>2, <3>3
  <2> QED
    BY <2>1, <2>2
<1>4. (OnlyScenarios' <=> OnlyScenarios) /\ (OnlyTransfers' <=> OnlyTransfers)
  BY DEF OnlyScenarios, OnlyTransfers, ByScenarios
<1>5. ASSUME OnlyScenarios', NEW d \in Clients, Claimed(d)'
      PROVE  Counted(client[d], DOMAIN client[d].seen)'
  <2>1. CASE d = c
    BY <1>1, <1>4, <1>5, <2>1
  <2>2. CASE d # c
    <3>1. PICK u : u = client[d]
      OBVIOUS
    <3>2. Counted(u, DOMAIN u.seen) /\ client'[d] = u
      BY <1>1, <1>2, <1>4, <1>5, <2>2, <3>1 DEF SerialInv
    <3>3. Counted(u, DOMAIN u.seen)'
      BY <3>2, CountedStays
    <3> QED
      BY <3>2, <3>3
  <2> QED
    BY <2>1, <2>2
<1>6. OnlyTransfers' \/ OnlyScenarios' => VersionsCount'
  BY <1>4 DEF SerialInv, VersionsCount, CommandsOn
<1> QED
  BY <1>3, <1>5, <1>6 DEF SerialInv

\* A request starts.
LEMMA StartSerial ==
    ASSUME SerialInv, NetworkInv', NEW c \in Clients, NEW kind, NEW execution, NEW plan, NEW read,
           kind = "direct" /\ plan[1].kind = "transfer" => read \subseteq {plan[1].route.gateway},
           kind = "scenario" => read = {},
           Start(c, kind, execution, plan, read)
    PROVE  SerialInv'
<1>1. PICK t : /\ t.kind = kind /\ DOMAIN t.seen = read
               /\ client' = [client EXCEPT ![c] = t]
  <2> DEFINE t == [kind |-> kind, execution |-> execution, plan |-> plan,
                   seen |-> [e \in read |-> fleet[e]], locks |-> {}, touched |-> {},
                   results |-> <<>>]
  <2>1. t.kind = kind /\ DOMAIN t.seen = read
    OBVIOUS
  <2> QED
    BY <2>1 DEF Start
<1>2. client'[c] = t /\ UNCHANGED <<fleet, stored, routes>>
  BY <1>1, ReplacedClient DEF Start, SerialInv, NetworkInv
<1>3. Current(t)'
  <2>1. Current(client[c])'
    BY StartIsCurrent DEF SerialInv
  <2> QED
    BY <1>2, <2>1
<1>4. ~Claimed(c)'
  BY <1>1, <1>2 DEF Claimed, Waiting
<1> QED
  BY <1>1, <1>2, <1>3, <1>4, LocalSerial

\* A scenario is claimed.
LEMMA ClaimSerial ==
    ASSUME SerialInv, NetworkInv', NEW c \in Clients, ClaimScenario(c)
    PROVE  SerialInv'
<1>0. PICK old, t : old = client[c] /\ t = [old EXCEPT !.seen = fleet]
  OBVIOUS
<1>1. /\ Active(c) /\ Waiting(c) /\ client' = [client EXCEPT ![c] = t]
      /\ UNCHANGED <<fleet, stored, routes>>
  BY <1>0 DEF ClaimScenario
<1>2. WellFormed(old) /\ old.kind = "scenario" /\ DOMAIN old.seen = {}
      /\ fleet \in [Ecus -> FleetRow]
  BY <1>0, <1>1 DEF SerialInv, NetworkInv, ClientsInv, Waiting
<1>3. t.seen = fleet /\ t.results = old.results /\ t.kind = "scenario"
  BY <1>0, <1>2 DEF WellFormed, Transaction
<1>4. Current(t)'
  BY <1>3 DEF Current
<1>5. Counted(t, DOMAIN t.seen)
  BY <1>2, <1>3, ClaimCounts
<1>6. Counted(t, DOMAIN t.seen)'
  BY <1>1, <1>5, CountedStays
<1> QED
  BY <1>1, <1>4, <1>6, LocalSerial

\* A row is locked.
LEMMA LockSerial ==
    ASSUME SerialInv, NetworkInv', NEW c \in Clients, LockRow(c)
    PROVE  SerialInv'
<1>0. PICK e, old, t : e \in Ecus /\ e = NextLock(c) /\ old = client[c] /\ t = Locked(old, e)
  BY LockShape DEF SerialInv
<1>1. /\ More(c) /\ Active(c) /\ client' = [client EXCEPT ![c] = t]
      /\ UNCHANGED <<fleet, stored, routes>>
  BY <1>0, LockShape DEF SerialInv
<1>2. client'[c] = t
  BY <1>1, ReplacedClient DEF SerialInv, NetworkInv
<1>3. Current(t)'
  <2>1. Current(client[c])'
    BY <1>1, LockKeepsCurrent DEF SerialInv
  <2> QED
    BY <1>2, <2>1
<1>4. ASSUME OnlyScenarios, Claimed(c)' PROVE Counted(t, DOMAIN t.seen)'
  <2>1. WellFormed(old) /\ fleet \in [Ecus -> FleetRow]
    BY <1>0, <1>1, NextAction DEF SerialInv, NetworkInv
  <2>2. old.kind = "scenario"
    <3>1. t.kind = old.kind
      BY ONLY <1>0, e \in Ecus, <2>1, LockedFields
    <3> QED
      BY <1>2, <1>4, <3>1 DEF Claimed
  <2>3. DOMAIN old.seen = Ecus /\ Claimed(c)
    BY <1>0, <1>1, <2>2, NextAction DEF SerialInv, Claimed, More
  <2>4. Counted(old, DOMAIN old.seen)
    BY <1>0, <1>4, <2>3 DEF SerialInv
  <2>5. Counted(t, DOMAIN t.seen)
    BY ONLY <1>0, e \in Ecus, <2>1, <2>3, <2>4, LockCounts
  <2> QED
    BY <1>1, <2>5, CountedStays
<1> QED
  BY <1>1, <1>3, <1>4, LocalSerial

\* An action is run.
LEMMA PerformSerial ==
    ASSUME SerialInv, NetworkInv', NEW c \in Clients, Perform(c)
    PROVE  SerialInv'
<1>0. PICK old, a, t : old = client[c] /\ a = Action(c) /\ t = Performed(old, a)
  OBVIOUS
<1>1. /\ More(c) /\ Active(c) /\ client' = [client EXCEPT ![c] = t]
      /\ UNCHANGED <<fleet, stored, routes>> /\ a \in PlannedActions
      /\ \A i \in DOMAIN a.rows : a.rows[i] \in old.locks
  BY <1>0, PerformShape DEF SerialInv
<1>2. client'[c] = t
  BY <1>1, ReplacedClient DEF SerialInv, NetworkInv
<1>3. Current(t)'
  <2>1. Current(client[c])'
    BY <1>1, PerformKeepsCurrent DEF SerialInv
  <2> QED
    BY <1>2, <2>1
<1>4. ASSUME OnlyScenarios, Claimed(c)' PROVE Counted(t, DOMAIN t.seen)'
  <2>1. WellFormed(old) /\ fleet \in [Ecus -> FleetRow]
    BY <1>0, <1>1, NextAction DEF SerialInv, NetworkInv
  <2>2. /\ t.kind = old.kind /\ t.seen = [old.seen EXCEPT ![Changed(a)] = Effect(a, old.seen)]
        /\ Changed(a) \in DOMAIN old.seen
    BY ONLY <1>0, <1>1, <2>1, PerformedFields
  <2>3. old.kind = "scenario"
    BY <1>2, <1>4, <2>2 DEF Claimed
  <2>4. Claimed(c)
    BY <1>0, <1>1, <2>3 DEF Claimed, More
  <2>5. Counted(old, DOMAIN old.seen)
    BY <1>0, <1>4, <2>4 DEF SerialInv
  <2>6. Acted(old) \subseteq DOMAIN old.seen
    BY <2>1 DEF WellFormed, Transaction, Acted
  <2>7. Counted(t, DOMAIN old.seen)
    BY <1>0, <1>1, <2>1, <2>2, <2>5, <2>6, PerformCounts
  <2>8. Counted(t, DOMAIN t.seen)
    BY <2>2, <2>7
  <2> QED
    BY <1>1, <2>8, CountedStays
<1> QED
  BY <1>1, <1>3, <1>4, LocalSerial

\* A request ends without a commit.
LEMMA EndSerial ==
    ASSUME SerialInv, NetworkInv', NEW c \in Clients, End(c),
           UNCHANGED <<fleet, routes, stored, executions>>
    PROVE  SerialInv'
<1>1. client' = [client EXCEPT ![c] = NoRequest] /\ ~Claimed(c)'
  BY ReplacedClient DEF End, Claimed, Active, SerialInv, NetworkInv
<1> QED
  BY <1>1, LocalSerial

\* A step of no transaction.
LEMMA QuietSerial ==
    ASSUME SerialInv, NetworkInv', UNCHANGED <<fleet, stored, client>>, routes \subseteq routes'
    PROVE  SerialInv'
<1>1. \A d \in Clients : (Active(d)' <=> Active(d)) /\ (Claimed(d)' <=> Claimed(d))
  BY DEF Active, Claimed, Waiting
<1>2. (\A d \in Clients : Active(d) => Current(client[d]))'
  <2> SUFFICES ASSUME NEW d \in Clients, Active(d)'
               PROVE  Current(client[d])'
    OBVIOUS
  <2>1. PICK u : u = client[d]
    OBVIOUS
  <2>2. Current(u) /\ client'[d] = u
    BY <1>1, <2>1 DEF SerialInv
  <2>3. Current(u)'
    BY <2>2, CurrentStays
  <2> QED
    BY <2>2, <2>3
<1>3. (OnlyScenarios' <=> OnlyScenarios) /\ (OnlyTransfers' <=> OnlyTransfers)
  BY DEF OnlyScenarios, OnlyTransfers, ByScenarios
<1>4. ASSUME OnlyScenarios', NEW d \in Clients, Claimed(d)'
      PROVE  Counted(client[d], DOMAIN client[d].seen)'
  <2>1. PICK u : u = client[d]
    OBVIOUS
  <2>2. Counted(u, DOMAIN u.seen) /\ client'[d] = u
    BY <1>1, <1>3, <1>4, <2>1 DEF SerialInv
  <2>3. Counted(u, DOMAIN u.seen)'
    BY <2>2, CountedStays
  <2> QED
    BY <2>2, <2>3
<1>5. OnlyTransfers' \/ OnlyScenarios' => VersionsCount'
  BY <1>3 DEF SerialInv, VersionsCount, CommandsOn
<1> QED
  BY <1>2, <1>4, <1>5 DEF SerialInv

\* A transfer that is to be committed.
LEMMA TransferIsDone ==
    ASSUME SerialInv, NEW c \in Clients, CommitFleet(c), TransferOf(client[c])
    PROVE  LET t == client[c]
           IN  \E r \in routes :
                 /\ {r.source, r.target} \subseteq Ecus
                 /\ DOMAIN t.results = {1} /\ t.results[1].ecu = r.target
                 /\ t.touched \subseteq {r.target} /\ Acted(t) = {r.target}
                 /\ t.results[1].route = r
                 /\ r.gateway # r.target =>
                      /\ t.results[1].previous = fleet[r.target].version
                      /\ t.seen[r.target].version = fleet[r.target].version + 1
                      /\ t.seen[r.target].produced = fleet[r.target].produced
                      /\ r.target \notin t.touched =>
                           t.seen[r.target].consumed = fleet[r.target].consumed
                      /\ r.gateway # r.source =>
                           t.seen[r.target].consumed = fleet[r.source].produced
<1>0. PICK t : t = client[c]
  OBVIOUS
<1>1. /\ WellFormed(t) /\ Len(t.results) = Len(t.plan) /\ DOMAIN t.results = 1 .. Len(t.plan)
      /\ Active(c)
  BY <1>0, CommitAppends DEF SerialInv
<1>2. Len(t.plan) = 1 /\ DOMAIN t.results = {1} /\ Len(t.results) # 0
  BY <1>0, <1>1 DEF WellFormed, TransferOf
<1>3. PICK r : r = t.plan[1].route
  OBVIOUS
<1>4. /\ r \in routes /\ t.touched \subseteq {r.target}
      /\ t.results[1].ecu = r.target
      /\ t.results[1].route = r
      /\ r.gateway # r.target =>
           /\ t.results[1].previous = fleet[r.target].version
           /\ t.seen[r.target].version = fleet[r.target].version + 1
           /\ t.seen[r.target].produced = fleet[r.target].produced
           /\ r.target \notin t.touched =>
                t.seen[r.target].consumed = fleet[r.target].consumed
           /\ r.gateway # r.source =>
                t.seen[r.target].consumed = fleet[r.source].produced
  BY <1>0, <1>1, <1>2, <1>3 DEF SerialInv, Current, TransferOf
<1>5. {r.source, r.target} \subseteq Ecus
  BY <1>4, EcuNetworkAssumption DEF SerialInv, NetworkInv
<1>6. Acted(t) = {r.target}
  BY <1>2, <1>4 DEF Acted
<1> QED
  BY <1>0, <1>2, <1>4, <1>5, <1>6

\* A transfer that is to be committed gives out the next version of its target,
\* if that is not its gateway.
LEMMA TransferCounts ==
    ASSUME SerialInv, NEW c \in Clients, CommitFleet(c), TransferOf(client[c]),
           client[c].results[1].route.gateway # client[c].results[1].ecu
    PROVE  Counted(client[c], Acted(client[c]))
<1>0. PICK t : t = client[c]
  OBVIOUS
<1>1. PICK r \in routes :
         /\ r.target \in Ecus /\ DOMAIN t.results = {1} /\ t.results[1].ecu = r.target
         /\ Acted(t) = {r.target} /\ t.results[1].previous = fleet[r.target].version
         /\ t.seen[r.target].version = fleet[r.target].version + 1
  BY <1>0, TransferIsDone
<1>2. ActedOn(t, r.target) = {1} /\ Cardinality({1}) = 1
  BY <1>1, FS_Singleton DEF ActedOn
<1>3. fleet[r.target].version \in Nat
  BY <1>1 DEF SerialInv, NetworkInv, FleetRow
<1>4. /\ \A e \in Acted(t) : t.seen[e].version = fleet[e].version + Cardinality(ActedOn(t, e))
      /\ \A i \in DOMAIN t.results : i = 1
  BY <1>1, <1>2, <1>3
<1>5. /\ fleet[r.target].version <= t.results[1].previous
      /\ t.results[1].previous < t.seen[r.target].version
  BY <1>1, <1>3
<1>6. Counted(t, Acted(t))
  BY <1>1, <1>4, <1>5 DEF Counted
<1> QED
  BY <1>0, <1>6

\* A commit: the stored commands stay of one kind only if this one is of it.
LEMMA CommitSerial ==
    ASSUME SerialInv, NetworkInv', NEW c \in Clients, CommitFleet(c)
    PROVE  SerialInv'
<1>0. PICK t, n : t = client[c] /\ n = Len(stored)
  OBVIOUS
<1>1. /\ Active(c) /\ WellFormed(t) /\ 1 \in DOMAIN t.results /\ n \in Nat
      /\ n + 1 \in DOMAIN stored' /\ stored'[n + 1] = t.results[1]
      /\ \A i \in DOMAIN stored : i \in DOMAIN stored' /\ stored'[i] = stored[i]
  <2>1. /\ Active(c) /\ WellFormed(t) /\ n \in Nat /\ Len(t.plan) \in Nat /\ Len(t.plan) > 0
        /\ DOMAIN t.results = 1 .. Len(t.plan) /\ DOMAIN stored = 1 .. n
        /\ DOMAIN stored' = 1 .. n + Len(t.plan)
        /\ \A i \in DOMAIN stored : stored'[i] = stored[i]
        /\ \A i \in DOMAIN t.results : stored'[n + i] = t.results[i]
    BY <1>0, CommitAppends DEF SerialInv
  <2>2. 1 \in DOMAIN t.results /\ n + 1 \in DOMAIN stored'
    BY <2>1
  <2> QED
    BY <2>1, <2>2
<1>2. /\ stored'[n + 1].execution = t.execution /\ stored'[n + 1].kind = t.plan[1].kind
  BY <1>1 DEF WellFormed
<1>3. client' = [client EXCEPT ![c] = NoRequest] /\ routes' = routes /\ fleet' = Flushed(c)
  BY DEF CommitFleet, End
<1>4. client'[c] = NoRequest /\ \A d \in Clients \ {c} : client'[d] = client[d]
  BY <1>3, ReplacedClient DEF SerialInv, NetworkInv
<1>5. \A d \in Clients : /\ Active(d)' => d # c /\ Active(d)
                         /\ Claimed(d)' => d # c /\ Claimed(d)
  BY <1>4 DEF Active, Claimed, Waiting
<1>6. (\A d \in Clients : Active(d) => Current(client[d]))'
  <2> SUFFICES ASSUME NEW d \in Clients, Active(d)'
               PROVE  Current(client[d])'
    OBVIOUS
  <2>1. PICK u : u = client[d]
    OBVIOUS
  <2>2. Current(u) /\ client'[d] = u /\ d # c /\ Active(d) /\ WellFormed(u)
    BY <1>4, <1>5, <2>1 DEF SerialInv, NetworkInv, ClientsInv
  <2>3. \A e \in u.locks : e \in Ecus /\ e \notin t.locks
    BY <1>0, <1>1, <2>1, <2>2 DEF SerialInv, NetworkInv, ClientsInv, WellFormed, Transaction
  <2>4. \A e \in u.locks : fleet'[e] = fleet[e]
    BY <1>0, <1>1, <1>3, <2>3, FlushedRows DEF SerialInv
  <2>5. Current(u)'
    BY <1>3, <2>2, <2>4, CurrentStays
  <2> QED
    BY <2>2, <2>5
<1>7. OnlyScenarios' => OnlyScenarios /\ Claimed(c)
  <2> SUFFICES ASSUME OnlyScenarios' PROVE OnlyScenarios /\ Claimed(c)
    OBVIOUS
  <2>1. OnlyScenarios
    BY <1>1 DEF OnlyScenarios, ByScenarios
  <2>2. t.execution # NoRequest
    BY <1>1, <1>2 DEF OnlyScenarios, ByScenarios
  <2> QED
    BY <1>0, <2>1, <2>2, CommittedIsClaimed DEF SerialInv
<1>8. OnlyTransfers' =>
        OnlyTransfers /\ TransferOf(t) /\ t.results[1].route.gateway # t.results[1].ecu
  <2> SUFFICES ASSUME OnlyTransfers'
               PROVE  /\ OnlyTransfers /\ TransferOf(t)
                      /\ t.results[1].route.gateway # t.results[1].ecu
    OBVIOUS
  <2>1. OnlyTransfers
    BY <1>1 DEF OnlyTransfers, ByScenarios
  <2>2. t.execution = NoRequest /\ t.plan[1].kind = "transfer"
    BY <1>1, <1>2 DEF OnlyTransfers, ByScenarios
  <2>3. t.results[1].route.gateway # t.results[1].ecu
    BY <1>1 DEF OnlyTransfers
  <2> QED
    BY <1>0, <2>1, <2>2, <2>3, CommittedIsClaimed DEF SerialInv, TransferOf
<1>9. (OnlyScenarios => \A d \in Clients : Claimed(d) => Counted(client[d], DOMAIN client[d].seen))'
  <2>1. OnlyScenarios' => \A d \in Clients : ~Claimed(d)'
    BY <1>5, <1>7 DEF SerialInv, NetworkInv, ClientsInv
  <2> QED
    BY <2>1
<1>10. OnlyTransfers' \/ OnlyScenarios' => VersionsCount /\ Counted(t, Acted(t))
  <2>1. CASE OnlyTransfers'
    BY <1>0, <1>8, <2>1, TransferCounts DEF SerialInv
  <2>2. CASE OnlyScenarios'
    <3>1. Counted(t, DOMAIN t.seen) /\ VersionsCount
      BY <1>0, <1>7, <2>2 DEF SerialInv
    <3>2. Acted(t) \subseteq DOMAIN t.seen
      BY <1>1 DEF WellFormed, Transaction, Acted
    <3>3. Counted(t, Acted(t))
      BY <3>1, <3>2 DEF Counted
    <3> QED
      BY <3>1, <3>3
  <2> QED
    BY <2>1, <2>2
<1>11. OnlyTransfers' \/ OnlyScenarios' => VersionsCount'
  BY <1>0, <1>10, CommitCounts DEF SerialInv
<1> QED
  BY <1>6, <1>9, <1>11 DEF SerialInv

\* Every step of the network keeps the invariant of the updates.
LEMMA SerialInvStep ==
    ASSUME SerialInv, NetworkStep \/ UNCHANGED fleetVars
    PROVE  SerialInv'
<1>0. NetworkInv'
  BY NetworkInvStep DEF SerialInv
<1>1. CASE UNCHANGED fleetVars
  BY <1>0, <1>1, QuietSerial DEF fleetVars
<1>2. ASSUME NEW r \in Routes, CreateSignalRoute(r)
      PROVE  SerialInv'
  BY <1>0, <1>2, QuietSerial DEF CreateSignalRoute
<1>3. ASSUME NEW c \in Clients, NEW e \in Ecus, NEW v \in Values, StartPublish(c, e, v)
      PROVE  SerialInv'
  <2> DEFINE plan == <<PublishSignalOf(e, v)>>
  <2>1. plan[1].kind = "publish" /\ Start(c, "direct", NoRequest, plan, {e})
    BY <1>3 DEF StartPublish, PublishSignalOf
  <2> HIDE DEF plan
  <2> QED
    BY <1>0, <2>1, StartSerial
<1>4. ASSUME NEW c \in Clients, NEW r \in Routes, StartTransfer(c, r)
      PROVE  SerialInv'
  <2> DEFINE plan == <<TransferOn(r)>>
             read == {r.gateway} \cap Ecus
  <2>1. plan[1].route = r /\ Start(c, "direct", NoRequest, plan, read)
        /\ read \subseteq {r.gateway}
    BY <1>4 DEF StartTransfer, TransferOn
  <2> HIDE DEF plan, read
  <2> QED
    BY <1>0, <2>1, StartSerial
<1>5. ASSUME NEW c \in Clients, NEW x \in Executions, NEW plan \in Plans,
             StartScenario(c, x, plan)
      PROVE  SerialInv'
  BY <1>0, <1>5, StartSerial DEF StartScenario
<1>6. ASSUME NEW c \in Clients, RunFleet(c)
      PROVE  SerialInv'
  BY <1>0, <1>6, ClaimSerial, LockSerial, PerformSerial, CommitSerial, EndSerial
     DEF RunFleet, Answer, FleetDeadlockVictim, DropRequest
<1> QED
  BY <1>1, <1>2, <1>3, <1>4, <1>5, <1>6 DEF NetworkStep

\* Every ECU starts at version 1 and without a command.
LEMMA SerialInitHolds == NetworkInit => SerialInv
<1> SUFFICES ASSUME NetworkInit PROVE SerialInv
  OBVIOUS
<1>1. NetworkInv
  BY NetworkInitHolds
<1>2. \A c \in Clients : ~Active(c) /\ ~Claimed(c)
  BY DEF NetworkInit, Active, Claimed
<1>3. DOMAIN stored = {} /\ \A e \in Ecus : fleet[e].version = 1
  BY DEF NetworkInit
<1>4. VersionsCount
  <2>1. \A e \in Ecus : CommandsOn(e) = {}
    BY <1>3 DEF CommandsOn
  <2> QED
    <3>1. \A e \in Ecus : fleet[e].version = 1 + Cardinality(CommandsOn(e))
      <4> TAKE e \in Ecus
      <4>1. CommandsOn(e) = {} /\ fleet[e].version = 1
        BY <1>3, <2>1
      <4>2. Cardinality({}) = 0
        BY FS_EmptySet
      <4> QED
        BY ONLY <4>1, <4>2
    <3> QED
      BY <1>3, <2>1, <3>1 DEF VersionsCount
<1> QED
  BY <1>1, <1>2, <1>4 DEF SerialInv

\* What TransfersAreCurrent says of a step, for a command stored in it.
TransferIsCurrent(x) ==
    LET r == x.route
        old == fleet[r.target]
        new == fleet'[r.target]
    IN  /\ r \in routes /\ x.ecu = r.target
        /\ \A e \in Ecus \ {r.target} : fleet'[e] = fleet[e]
        /\ r.gateway # r.target =>
             /\ x.previous = old.version /\ new.version = old.version + 1
             /\ new.produced = old.produced
        /\ r.gateway \notin {r.source, r.target} =>
             new.consumed = fleet[r.source].produced

TransferStep ==
    \A i \in DOMAIN stored' \ DOMAIN stored :
      stored'[i].kind = "transfer" /\ stored'[i].execution = NoRequest =>
        TransferIsCurrent(stored'[i])

\* A commit of a transfer.
LEMMA CommitTransfers ==
    ASSUME SerialInv, NEW c \in Clients, CommitFleet(c)
    PROVE  TransferStep
<1>0. PICK t, n : t = client[c] /\ n = Len(stored)
  OBVIOUS
<1>1. /\ Active(c) /\ WellFormed(t)
      /\ \A i \in DOMAIN stored' : i \notin DOMAIN stored =>
           i - n \in DOMAIN t.results /\ stored'[i] = t.results[i - n]
      /\ DOMAIN t.results = 1 .. Len(t.plan)
  BY <1>0, CommitAppends DEF SerialInv
<1> SUFFICES ASSUME NEW i \in DOMAIN stored' \ DOMAIN stored, stored'[i].kind = "transfer",
                    stored'[i].execution = NoRequest
             PROVE  TransferIsCurrent(stored'[i])
  BY DEF TransferStep
<1>2. PICK k \in DOMAIN t.results : stored'[i] = t.results[k]
  BY <1>1
<1>3. t.execution = NoRequest /\ t.plan[k].kind = "transfer"
  BY <1>1, <1>2 DEF WellFormed
<1>4. t.kind = "direct" /\ Len(t.plan) = 1
  BY <1>0, <1>3, CommittedIsClaimed DEF SerialInv
<1>5. k = 1 /\ TransferOf(t)
  BY <1>1, <1>3, <1>4 DEF TransferOf
<1>6. PICK r \in routes :
         /\ {r.source, r.target} \subseteq Ecus
         /\ t.results[1].ecu = r.target /\ t.results[1].route = r
         /\ t.touched \subseteq {r.target} /\ Acted(t) = {r.target}
         /\ r.gateway # r.target =>
              /\ t.results[1].previous = fleet[r.target].version
              /\ t.seen[r.target].version = fleet[r.target].version + 1
              /\ t.seen[r.target].produced = fleet[r.target].produced
              /\ r.target \notin t.touched =>
                   t.seen[r.target].consumed = fleet[r.target].consumed
              /\ r.gateway # r.source =>
                   t.seen[r.target].consumed = fleet[r.source].produced
  BY <1>0, <1>5, TransferIsDone
<1>7. fleet' \in [Ecus -> FleetRow] /\ fleet \in [Ecus -> FleetRow]
      /\ \A e \in Ecus :
           /\ fleet'[e].produced = IF e \in t.touched THEN t.seen[e].produced ELSE fleet[e].produced
           /\ fleet'[e].consumed = IF e \in t.touched THEN t.seen[e].consumed ELSE fleet[e].consumed
           /\ fleet'[e].version = IF e \in Acted(t) THEN t.seen[e].version ELSE fleet[e].version
  BY <1>0, <1>1, FlushedRows DEF CommitFleet, SerialInv, NetworkInv
<1>8. /\ r.gateway # r.target =>
           /\ fleet'[r.target].version = fleet[r.target].version + 1
           /\ fleet'[r.target].produced = fleet[r.target].produced
      /\ r.gateway \notin {r.source, r.target} =>
           fleet'[r.target].consumed = fleet[r.source].produced
  BY <1>6, <1>7
<1>9. ASSUME NEW e \in Ecus \ {r.target} PROVE fleet'[e] = fleet[e]
  <2>1. /\ fleet'[e].produced = fleet[e].produced /\ fleet'[e].consumed = fleet[e].consumed
        /\ fleet'[e].version = fleet[e].version
    BY <1>6, <1>7
  <2>2. fleet'[e] \in FleetRow /\ fleet[e] \in FleetRow
    BY <1>7
  <2> QED
    BY <2>1, <2>2 DEF FleetRow
<1>10. /\ stored'[i].ecu = r.target /\ stored'[i].route = r
       /\ r.gateway # r.target => stored'[i].previous = fleet[r.target].version
  BY <1>2, <1>5, <1>6
<1> QED
  BY <1>8, <1>9, <1>10 DEF TransferIsCurrent

\* Commands are stored by commits only.
LEMMA TransfersStep ==
    ASSUME SerialInv, NetworkStep \/ UNCHANGED fleetVars
    PROVE  TransferStep
<1>1. CASE UNCHANGED stored
  BY <1>1 DEF TransferStep
<1>2. CASE \E c \in Clients : CommitFleet(c)
  BY <1>2, CommitTransfers
<1> QED
  BY <1>1, <1>2 DEF NetworkStep, RunFleet, CreateSignalRoute, StartPublish, StartTransfer,
     StartScenario, Start, ClaimScenario, LockRow, Perform, Answer, FleetDeadlockVictim,
     DropRequest, fleetVars

\* A step of the fleet is one of the network, or leaves the network alone.
LEMMA NetworkStepSplits ==
    ASSUME [Next]_vars
    PROVE  NetworkStep \/ UNCHANGED fleetVars
BY DEF Next, vars

\* NetworkTypeOK is part of the invariant.
LEMMA NetworkTypesFollow == NetworkInv => NetworkTypeOK
<1> SUFFICES ASSUME NetworkInv PROVE NetworkTypeOK
  OBVIOUS
<1>1. \A e \in Ecus : fleet[e].produced \in Values /\ fleet[e].consumed \in Values
  BY DEF NetworkInv, FleetRow
<1>2. \A c \in Clients : Active(c) =>
         /\ client[c].locks \subseteq DOMAIN client[c].seen
         /\ client[c].touched \subseteq client[c].locks
         /\ Len(client[c].results) <= Len(client[c].plan)
  BY DEF NetworkInv, ClientsInv, WellFormed, Transaction
<1> QED
  BY <1>1, <1>2 DEF NetworkInv, NetworkTypeOK

\* NetworkInv is invariant, however many requests and routes there are.
THEOREM NetworkInvariance == Spec => []NetworkInv
<1>1. Init => NetworkInv
  BY NetworkInitHolds DEF Init
<1>2. NetworkInv /\ [Next]_vars => NetworkInv'
  BY NetworkStepSplits, NetworkInvStep
<1> QED
  BY <1>1, <1>2, PTL DEF Spec

\* The rows of the ECUs have their types, a transaction changes only rows it has
\* locked, and the bound on the commands is kept.
THEOREM NetworkTypes == Spec => []NetworkTypeOK
BY NetworkInvariance, NetworkTypesFollow, PTL

\* A stored execution stands for all the actions of one plan, stored together and
\* in their order, and nothing is stored under an execution that is not: whatever
\* transfers, publications and other scenarios are in flight (scenario_service.py).
THEOREM ScenariosStayWhole == Spec => []ScenariosAreWhole
<1>1. NetworkInv => ScenariosAreWhole
  BY DEF NetworkInv
<1> QED
  BY <1>1, NetworkInvariance, PTL

\* SerialInv is invariant.
THEOREM SerialInvariance == Spec => []SerialInv
<1>1. Init => SerialInv
  BY SerialInitHolds DEF Init
<1>2. SerialInv /\ [Next]_vars => SerialInv'
  BY NetworkStepSplits, SerialInvStep
<1> QED
  BY <1>1, <1>2, PTL DEF Spec

\* While only transfers, or only scenarios, have committed, the version of every
\* ECU counts its commands and no two commands started from one version, whatever
\* routes there are: only a committed transfer whose gateway is its own target
\* ends that, as transfer_signal_route has read that row before it locks it.
THEOREM UpdatesAreSerial == Spec => []AloneTheyAreSerial
<1>1. SerialInv => AloneTheyAreSerial
  BY DEF SerialInv, AloneTheyAreSerial, OnlyTransfers, OnlyScenarios, VersionsCount
<1> QED
  BY <1>1, SerialInvariance, PTL

\* Whatever routes there are and whatever else is in flight, a direct transfer
\* changes its target only, advances the version stored there at the commit, and
\* leaves there the value its source has then; of an end that is its own gateway,
\* read before the locks, it may have an older row (transfer_signal_route).
THEOREM TransfersStayCurrent == Spec => TransfersAreCurrent
<1>1. SerialInv /\ [Next]_vars => [TransferStep]_fleetVars
  BY NetworkStepSplits, TransfersStep
<1>2. Spec => [][TransferStep]_fleetVars
  BY <1>1, SerialInvariance, PTL DEF Spec
<1> QED
  BY <1>2 DEF TransfersAreCurrent, TransferStep, TransferIsCurrent

\* The histories of one ECU and of several, for any number of requests and any
\* routes.
THEOREM HistoriesHold == Spec => []HistoriesAreSound
<1> DEFINE Offered == workload \in Workloads
<1>1. Init => Offered
  BY DEF Init
<1>2. Offered /\ [Next]_vars => Offered'
  BY DEF Next, vars
<1>3. EcuInv /\ SerialInv /\ Offered => HistoriesAreSound
  <2> SUFFICES ASSUME EcuInv, SerialInv, Offered PROVE HistoriesAreSound
    OBVIOUS
  <2>1. EcuTypeOK /\ (overtaken = 0 => CommandsAreOneHistory /\ TaskRunsAreDue)
    BY TaskRunsFollow DEF EcuInv, EcuTypeInv
  <2>2. NetworkTypeOK /\ ScenariosAreWhole /\ AloneTheyAreSerial
    BY NetworkTypesFollow
       DEF SerialInv, NetworkInv, AloneTheyAreSerial, OnlyTransfers, OnlyScenarios, VersionsCount
  <2> QED
    BY <2>1, <2>2 DEF HistoriesAreSound, TypeOK
<1> HIDE DEF Offered
<1> QED
  BY <1>1, <1>2, <1>3, EcuInvariance, SerialInvariance, PTL DEF Spec
===============================================================================
