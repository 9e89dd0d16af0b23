--------------------------------- MODULE Sums ---------------------------------
(***************************************************************************)
(* Sums over a finite set, as MapThenSumSet of the community modules       *)
(* computes them by recursion over a set that it takes apart in an order   *)
(* of its own.  That it adds up, in whatever order, is proved here, by     *)
(* taking a smallest counterexample where one would use induction.         *)
(***************************************************************************)
EXTENDS Integers, FiniteSetsExt, FiniteSetTheorems, TLAPS

\* The sum of f[x] over the x in S.
Total(f, S) == MapThenSumSet(LAMBDA x : f[x], S)

Taken(s) == CHOOSE x \in s : TRUE

\* What the recursion defines: g[s] is the sum over s, for every part s of S.
Sums(g, f, S) ==
  g = [s \in SUBSET S |-> IF s = {} THEN 0 ELSE f[Taken(s)] + g[s \ {Taken(s)}]]

LEMMA Smallest ==
  ASSUME NEW S, IsFiniteSet(S), NEW B \in SUBSET SUBSET S, B # {}
  PROVE  \E T \in B : \A U \in B : U \subseteq T => U = T
<1>1. IsWellFoundedOn(StrictSubsetOrdering(S), SUBSET S)
  BY FS_StrictSubsetOrderingWellFounded, FS_FiniteSubsetsOfFinite
<1>2. PICK T \in B : \A U \in B : ~(<<U, T>> \in StrictSubsetOrdering(S))
  BY <1>1, WFMin
<1> QED BY <1>2 DEF StrictSubsetOrdering

LEMMA SmallestNumber ==
  ASSUME NEW B \in SUBSET Nat, B # {}
  PROVE  \E m \in B : \A n \in B : m <= n
<1>1. PICK m \in B : \A n \in B : ~(<<n, m>> \in OpToRel(<, Nat))
  BY NatLessThanWellFounded, WFMin
<1>2. \A n \in B : ~(n < m)
  BY <1>1 DEF OpToRel
<1> QED BY <1>2

LEMMA TakenIs == ASSUME NEW s, s # {} PROVE Taken(s) \in s
BY DEF Taken

\* The recursion is sound, level by level of the cardinality.
LevelSums(g, f, S, n) ==
  /\ g \in [{s \in SUBSET S : Cardinality(s) <= n} -> Int]
  /\ \A s \in SUBSET S : Cardinality(s) <= n =>
       g[s] = IF s = {} THEN 0 ELSE f[Taken(s)] + g[s \ {Taken(s)}]

LEMMA LevelExists ==
  ASSUME NEW S, IsFiniteSet(S), NEW f, \A x \in S : f[x] \in Int, NEW n \in Nat
  PROVE  \E g : LevelSums(g, f, S, n)
<1> DEFINE B == {m \in Nat : ~\E g : LevelSums(g, f, S, m)}
<1> SUFFICES ASSUME B # {} PROVE FALSE
  OBVIOUS
<1>1. PICK m \in B : \A k \in B : m <= k
  BY SmallestNumber
<1>2. \A s \in SUBSET S : IsFiniteSet(s) /\ Cardinality(s) \in Nat
  BY FS_Subset, FS_CardinalityType
<1>3. CASE m = 0
  <2> DEFINE g == [s \in {s \in SUBSET S : Cardinality(s) <= 0} |-> 0]
  <2>1. \A s \in SUBSET S : Cardinality(s) <= 0 => s = {}
    BY <1>2, FS_EmptySet
  <2>2. LevelSums(g, f, S, 0)
    BY <2>1 DEF LevelSums
  <2> QED BY <1>3, <2>2
<1>4. CASE m # 0
  <2>1. m - 1 \in Nat /\ m - 1 \notin B
    BY <1>1, <1>4
  <2>2. PICK g : LevelSums(g, f, S, m - 1)
    BY <2>1
  <2> DEFINE D == {s \in SUBSET S : Cardinality(s) <= m}
             h == [s \in D |-> IF Cardinality(s) <= m - 1 THEN g[s]
                               ELSE f[Taken(s)] + g[s \ {Taken(s)}]]
  <2>3. ASSUME NEW s \in D, s # {}
        PROVE  /\ Taken(s) \in S /\ f[Taken(s)] \in Int
               /\ s \ {Taken(s)} \in SUBSET S /\ s \ {Taken(s)} \in D
               /\ Cardinality(s \ {Taken(s)}) <= m - 1
               /\ g[s \ {Taken(s)}] \in Int
    <3>1. Taken(s) \in s /\ s \in SUBSET S
      BY <2>3, TakenIs
    <3>2. Cardinality(s \ {Taken(s)}) = Cardinality(s) - 1
      BY <1>2, <3>1, FS_RemoveElement
    <3>3. Cardinality(s \ {Taken(s)}) <= m - 1 /\ Cardinality(s \ {Taken(s)}) <= m
      BY <1>2, <3>1, <3>2
    <3> QED BY <3>1, <3>3, <2>2 DEF LevelSums
  <2>4. \A s \in D : ~(Cardinality(s) <= m - 1) => s # {}
    BY <1>1, <1>4, FS_EmptySet
  <2>5. ASSUME NEW s \in D PROVE h[s] \in Int
    BY <2>2, <2>3, <2>4 DEF LevelSums
  <2>6. h \in [D -> Int]
    BY <2>5
  <2>7. ASSUME NEW s \in SUBSET S, Cardinality(s) <= m
        PROVE  h[s] = IF s = {} THEN 0 ELSE f[Taken(s)] + h[s \ {Taken(s)}]
    <3>1. s \in D
      BY <2>7
    <3>2. CASE s = {}
      <4>1. Cardinality(s) <= m - 1
        BY <2>1, <3>2, FS_EmptySet
      <4> QED BY <3>1, <3>2, <4>1, <2>2 DEF LevelSums
    <3>3. CASE s # {}
      <4>1. h[s \ {Taken(s)}] = g[s \ {Taken(s)}]
        BY <2>3, <3>1, <3>3
      <4>2. h[s] = f[Taken(s)] + g[s \ {Taken(s)}]
        BY <3>1, <3>3, <2>2 DEF LevelSums
      <4> QED BY <3>3, <4>1, <4>2
    <3> QED BY <3>2, <3>3
  <2>8. LevelSums(h, f, S, m)
    BY <2>6, <2>7 DEF LevelSums
  <2> QED BY <2>8
<1> QED BY <1>3, <1>4

LEMMA SumsExist ==
  ASSUME NEW S, IsFiniteSet(S), NEW f, \A x \in S : f[x] \in Int
  PROVE  \E g : Sums(g, f, S)
<1>1. Cardinality(S) \in Nat
  BY FS_CardinalityType
<1>2. PICK g : LevelSums(g, f, S, Cardinality(S))
  BY <1>1, LevelExists
<1>3. \A s \in SUBSET S : Cardinality(s) <= Cardinality(S)
  BY FS_Subset
<1>4. {s \in SUBSET S : Cardinality(s) <= Cardinality(S)} = SUBSET S
  BY <1>3
<1>5. g \in [SUBSET S -> Int]
  BY <1>2, <1>4 DEF LevelSums
<1>6. \A s \in SUBSET S : g[s] = IF s = {} THEN 0 ELSE f[Taken(s)] + g[s \ {Taken(s)}]
  BY <1>2, <1>3 DEF LevelSums
<1> QED BY <1>5, <1>6 DEF Sums

LEMMA SumsInt ==
  ASSUME NEW S, IsFiniteSet(S), NEW f, \A x \in S : f[x] \in Int, NEW g, Sums(g, f, S),
         NEW T \in SUBSET S
  PROVE  g[T] \in Int
<1> DEFINE B == {U \in SUBSET S : g[U] \notin Int}
<1> SUFFICES ASSUME B # {} PROVE FALSE
  OBVIOUS
<1>0. B \in SUBSET SUBSET S
  OBVIOUS
<1>1. PICK U \in B : \A V \in B : V \subseteq U => V = U
  <2> HIDE DEF B
  <2> QED BY <1>0, Smallest
<1>2. U # {}
  BY <1>1 DEF Sums
<1>3. Taken(U) \in U
  BY <1>2, TakenIs
<1>4. U \ {Taken(U)} \in SUBSET S /\ U \ {Taken(U)} # U
  BY <1>3
<1>5. g[U \ {Taken(U)}] \in Int
  BY <1>1, <1>4
<1>6. g[U] = f[Taken(U)] + g[U \ {Taken(U)}]
  BY <1>2 DEF Sums
<1> QED BY <1>1, <1>3, <1>5, <1>6

\* Any element may be taken first.
LEMMA SumsSplit ==
  ASSUME NEW S, IsFiniteSet(S), NEW f, \A x \in S : f[x] \in Int, NEW g, Sums(g, f, S),
         NEW T \in SUBSET S, NEW x \in T
  PROVE  g[T] = f[x] + g[T \ {x}]
<1> DEFINE B == {U \in SUBSET S : \E y \in U : g[U] # f[y] + g[U \ {y}]}
<1> SUFFICES ASSUME B # {} PROVE FALSE
  OBVIOUS
<1>0. B \in SUBSET SUBSET S
  OBVIOUS
<1>1. PICK U \in B : \A V \in B : V \subseteq U => V = U
  <2> HIDE DEF B
  <2> QED BY <1>0, Smallest
<1>2. PICK y \in U : g[U] # f[y] + g[U \ {y}]
  BY <1>1
<1>3. PICK t : t = Taken(U)
  OBVIOUS
<1>4. t \in U /\ g[U] = f[t] + g[U \ {t}]
  BY <1>2, <1>3, TakenIs DEF Sums
<1>5. t # y
  BY <1>2, <1>4
<1>6. U \ {t} \notin B /\ U \ {y} \notin B
  BY <1>1, <1>2, <1>4
<1>7. g[U \ {t}] = f[y] + g[(U \ {t}) \ {y}]
  BY <1>2, <1>5, <1>6
<1>8. g[U \ {y}] = f[t] + g[(U \ {y}) \ {t}]
  BY <1>4, <1>5, <1>6
<1>9. (U \ {t}) \ {y} = (U \ {y}) \ {t}
  OBVIOUS
<1>10. g[(U \ {t}) \ {y}] \in Int /\ f[y] \in Int /\ f[t] \in Int
  <2>1. (U \ {t}) \ {y} \in SUBSET S /\ y \in S /\ t \in S
    BY <1>2, <1>4
  <2>2. g[(U \ {t}) \ {y}] \in Int
    <3> HIDE DEF B
    <3> QED BY <2>1, SumsInt
  <2> QED BY <2>1, <2>2
<1>11. PICK k \in Int : k = g[(U \ {t}) \ {y}]
  BY <1>10
<1>12. g[U \ {t}] = f[y] + k /\ g[U \ {y}] = f[t] + k
  BY <1>7, <1>8, <1>9, <1>11
<1>13. g[U] = f[y] + g[U \ {y}]
  <2> HIDE DEF B
  <2> QED BY <1>4, <1>10, <1>12
<1> QED BY <1>2, <1>13

LEMMA SumsUnique ==
  ASSUME NEW S, NEW T, IsFiniteSet(S), IsFiniteSet(T), NEW f, NEW e, NEW g, NEW h,
         Sums(g, f, S), Sums(h, e, T), NEW U \in SUBSET (S \cap T),
         \A x \in U : f[x] = e[x]
  PROVE  g[U] = h[U]
<1> DEFINE B == {V \in SUBSET U : g[V] # h[V]}
<1> SUFFICES ASSUME B # {} PROVE FALSE
  OBVIOUS
<1>1. IsFiniteSet(U)
  BY FS_Subset
<1>0. B \in SUBSET SUBSET U
  OBVIOUS
<1>2. PICK V \in B : \A W \in B : W \subseteq V => W = V
  <2> HIDE DEF B
  <2> QED BY <1>0, <1>1, Smallest
<1>3. V \in SUBSET S /\ V \in SUBSET T
  OBVIOUS
<1>4. V # {}
  BY <1>2, <1>3 DEF Sums
<1>5. PICK t : t = Taken(V) /\ t \in V
  BY <1>4, TakenIs
<1>6. g[V] = f[t] + g[V \ {t}] /\ h[V] = e[t] + h[V \ {t}]
  BY <1>3, <1>4, <1>5 DEF Sums
<1>7. V \ {t} \notin B
  BY <1>2, <1>5
<1> QED BY <1>2, <1>5, <1>6, <1>7
-----------------------------------------------------------------------------
\* The sum of the parts of a finite set, as one function.
LEMMA TotalIsSum ==
  ASSUME NEW S, IsFiniteSet(S), NEW f, \A x \in S : f[x] \in Int
  PROVE  \E g : Sums(g, f, S) /\ \A T \in SUBSET S : Total(f, T) = g[T]
<1>1. PICK g : Sums(g, f, S)
  BY SumsExist
<1>2. ASSUME NEW T \in SUBSET S PROVE Total(f, T) = g[T]
  <2>1. IsFiniteSet(T)
    BY FS_Subset
  <2>2. \E h : Sums(h, f, T)
    BY <2>1, SumsExist
  <2>3. PICK h : Sums(h, f, T) /\ Total(f, T) = h[T]
    BY <2>2 DEF Total, MapThenSumSet, MapThenFoldSet, Sums, Taken
  <2>4. T \in SUBSET (S \cap T)
    OBVIOUS
  <2>5. h[T] = g[T]
    BY <1>1, <2>1, <2>3, <2>4, SumsUnique
  <2> QED BY <2>3, <2>5
<1> QED BY <1>1, <1>2

\* Nothing adds up to nothing: no booking owed, no withdrawal paid.
THEOREM TotalEmpty == ASSUME NEW f PROVE Total(f, {}) = 0
<1>1. \A x \in {} : f[x] \in Int
  OBVIOUS
<1>2. PICK g : Sums(g, f, {}) /\ \A T \in SUBSET {} : Total(f, T) = g[T]
  BY <1>1, TotalIsSum, FS_EmptySet
<1>3. {} \in SUBSET {}
  OBVIOUS
<1> QED BY <1>2, <1>3 DEF Sums

\* The sum of integer amounts is one.
THEOREM TotalInt ==
  ASSUME NEW S, IsFiniteSet(S), NEW f, \A x \in S : f[x] \in Int
  PROVE  Total(f, S) \in Int
<1>1. PICK g : Sums(g, f, S) /\ \A T \in SUBSET S : Total(f, T) = g[T]
  BY TotalIsSum
<1>2. S \in SUBSET S
  OBVIOUS
<1> QED BY <1>1, <1>2, SumsInt

\* An element of the set, and the rest.
THEOREM TotalSplit ==
  ASSUME NEW S, IsFiniteSet(S), NEW f, \A x \in S : f[x] \in Int, NEW y \in S
  PROVE  Total(f, S) = f[y] + Total(f, S \ {y})
<1>1. PICK g : Sums(g, f, S) /\ \A T \in SUBSET S : Total(f, T) = g[T]
  BY TotalIsSum
<1>2. S \in SUBSET S /\ S \ {y} \in SUBSET S
  OBVIOUS
<1>3. g[S] = f[y] + g[S \ {y}]
  BY <1>1, <1>2, SumsSplit
<1> QED BY <1>1, <1>2, <1>3

\* What is summed only matters on the set.
THEOREM TotalSame ==
  ASSUME NEW S, IsFiniteSet(S), NEW f, NEW e, \A x \in S : f[x] \in Int /\ e[x] = f[x]
  PROVE  Total(e, S) = Total(f, S)
<1>1. PICK g : Sums(g, f, S) /\ \A T \in SUBSET S : Total(f, T) = g[T]
  BY TotalIsSum
<1>2. \A x \in S : e[x] \in Int
  OBVIOUS
<1>3. PICK h : Sums(h, e, S) /\ \A T \in SUBSET S : Total(e, T) = h[T]
  BY <1>2, TotalIsSum
<1>4. S \in SUBSET S /\ S \in SUBSET (S \cap S) /\ \A x \in S : f[x] = e[x]
  OBVIOUS
<1>5. g[S] = h[S]
  BY <1>1, <1>3, <1>4, SumsUnique
<1> QED BY <1>1, <1>3, <1>4, <1>5

\* One value changes, and the sum by as much.
THEOREM TotalChange ==
  ASSUME NEW S, IsFiniteSet(S), NEW f, NEW e, \A x \in S : f[x] \in Int /\ e[x] \in Int,
         NEW y \in S, \A x \in S \ {y} : e[x] = f[x]
  PROVE  Total(e, S) = Total(f, S) - f[y] + e[y]
<1>1. IsFiniteSet(S \ {y}) /\ (\A x \in S : f[x] \in Int) /\ \A x \in S : e[x] \in Int
  BY FS_RemoveElement
<1>2. Total(e, S \ {y}) = Total(f, S \ {y})
  BY <1>1, TotalSame
<1>3. Total(f, S) = f[y] + Total(f, S \ {y}) /\ Total(e, S) = e[y] + Total(e, S \ {y})
  BY <1>1, TotalSplit
<1>4. Total(f, S \ {y}) \in Int
  BY <1>1, TotalInt
<1> QED BY <1>2, <1>3, <1>4

\* Values that are no greater have no greater sum.
THEOREM TotalAtMost ==
  ASSUME NEW S, IsFiniteSet(S), NEW f, NEW e,
         \A x \in S : f[x] \in Int /\ e[x] \in Int /\ e[x] <= f[x]
  PROVE  Total(e, S) <= Total(f, S)
<1> DEFINE B == {T \in SUBSET S : ~(Total(e, T) <= Total(f, T))}
<1> SUFFICES ASSUME B # {} PROVE FALSE
  OBVIOUS
<1>0. B \in SUBSET SUBSET S
  OBVIOUS
<1>1. PICK T \in B : \A V \in B : V \subseteq T => V = T
  <2> HIDE DEF B
  <2> QED BY <1>0, Smallest
<1>2. T # {}
  <2>1. 0 <= 0 /\ Total(e, {}) = 0 /\ Total(f, {}) = 0
    BY TotalEmpty
  <2> QED BY <1>1, <2>1
<1>3. PICK t : t \in T
  BY <1>2
<1>4. IsFiniteSet(T) /\ IsFiniteSet(T \ {t})
  BY FS_Subset, FS_RemoveElement
<1>5. Total(e, T \ {t}) <= Total(f, T \ {t})
  BY <1>1, <1>3
<1>6. Total(f, T) = f[t] + Total(f, T \ {t}) /\ Total(e, T) = e[t] + Total(e, T \ {t})
  BY <1>3, <1>4, TotalSplit
<1>7. Total(f, T \ {t}) \in Int /\ Total(e, T \ {t}) \in Int
  BY <1>4, TotalInt
<1> QED BY <1>1, <1>3, <1>5, <1>6, <1>7

\* Nor do zeros.
LEMMA TotalZero ==
  ASSUME NEW S, IsFiniteSet(S), NEW f, \A x \in S : f[x] = 0
  PROVE  Total(f, S) = 0
<1> DEFINE B == {T \in SUBSET S : Total(f, T) # 0}
<1> SUFFICES ASSUME B # {} PROVE FALSE
  BY TotalEmpty
<1>0. B \in SUBSET SUBSET S
  OBVIOUS
<1>1. PICK T \in B : \A V \in B : V \subseteq T => V = T
  <2> HIDE DEF B
  <2> QED BY <1>0, Smallest
<1>2. T # {}
  BY <1>1, TotalEmpty
<1>3. PICK t : t \in T
  BY <1>2
<1>4. IsFiniteSet(T) /\ \A x \in T : f[x] \in Int
  BY FS_Subset
<1>5. Total(f, T) = f[t] + Total(f, T \ {t})
  BY <1>3, <1>4, TotalSplit
<1>6. Total(f, T \ {t}) = 0
  BY <1>1, <1>3
<1> QED BY <1>1, <1>3, <1>5, <1>6

\* Nothing outside a part of the set counts.
THEOREM TotalPart ==
  ASSUME NEW S, IsFiniteSet(S), NEW P \in SUBSET S, NEW f, NEW e, \A x \in S : f[x] \in Int,
         \A x \in P : e[x] = f[x], \A x \in S \ P : f[x] = 0
  PROVE  Total(e, P) = Total(f, S)
<1> DEFINE B == {T \in SUBSET S : P \subseteq T /\ Total(f, T) # Total(f, P)}
<1>0. B \in SUBSET SUBSET S
  OBVIOUS
<1>1. ASSUME B # {} PROVE FALSE
  <2>1. PICK T \in B : \A V \in B : V \subseteq T => V = T
    <3> HIDE DEF B
    <3> QED BY <1>0, <1>1, Smallest
  <2>2. PICK t : t \in T \ P
    <3>1. P \subseteq T /\ Total(f, T) # Total(f, P)
      BY <2>1
    <3>2. T # P
      BY <3>1, Zenon
    <3> QED BY <3>1, <3>2
  <2>3. IsFiniteSet(T) /\ \A x \in T : f[x] \in Int
    BY FS_Subset
  <2>4. Total(f, T) = f[t] + Total(f, T \ {t}) /\ IsFiniteSet(T \ {t})
    BY <2>2, <2>3, TotalSplit, FS_RemoveElement
  <2>5. PICK k \in Int : k = Total(f, T \ {t})
    BY <2>3, <2>4, TotalInt
  <2>6. f[t] = 0
    BY <2>2
  <2>7. k = Total(f, P)
    <3>1. PICK V : V = T \ {t}
      OBVIOUS
    <3>2. V \in SUBSET S /\ P \subseteq V /\ V # T /\ V \subseteq T
      BY <2>2, <3>1
    <3>3. V \notin B
      BY <2>1, <3>2
    <3> QED BY <2>5, <3>1, <3>2, <3>3
  <2>8. Total(f, T) = 0 + k
    BY <2>4, <2>5, <2>6
  <2>9. Total(f, T) = k
    BY <2>8
  <2> QED BY <2>1, <2>7, <2>9
<1>2. Total(f, S) = Total(f, P)
  BY <1>1
<1>3. IsFiniteSet(P) /\ \A x \in P : f[x] \in Int /\ e[x] = f[x]
  BY FS_Subset
<1>4. Total(e, P) = Total(f, P)
  BY <1>3, TotalSame
<1> QED BY <1>2, <1>4

\* The first n + 1 of them, and the next.
LEMMA TotalNext ==
  ASSUME NEW n \in Nat, NEW f, \A x \in 0 .. n + 1 : f[x] \in Int
  PROVE  Total(f, 0 .. n + 1) = f[n + 1] + Total(f, 0 .. n)
<1>1. IsFiniteSet(0 .. n + 1) /\ n + 1 \in 0 .. n + 1
  BY FS_Interval
<1>2. (0 .. n + 1) \ {n + 1} = 0 .. n
  OBVIOUS
<1>3. Total(f, 0 .. n + 1) = f[n + 1] + Total(f, (0 .. n + 1) \ {n + 1})
  BY <1>1, TotalSplit
<1> QED BY <1>2, <1>3

\* The first of them.
LEMMA TotalFirst ==
  ASSUME NEW f, f[0] \in Int
  PROVE  Total(f, 0 .. 0) = f[0]
<1>1. 0 .. 0 = {0} /\ {0} \ {0} = {} /\ IsFiniteSet({0}) /\ \A x \in {0} : f[x] \in Int
  BY FS_Singleton
<1>2. Total(f, {0}) = f[0] + Total(f, {0} \ {0})
  BY <1>1, TotalSplit
<1>3. Total(f, {0}) = f[0] + Total(f, {})
  BY <1>1, <1>2
<1> QED BY <1>1, <1>3, TotalEmpty

\* A part of what is never negative adds up to no more than the whole.
THEOREM TotalFewer ==
  ASSUME NEW S, IsFiniteSet(S), NEW P \in SUBSET S, NEW f, \A x \in S : f[x] \in Nat
  PROVE  Total(f, P) <= Total(f, S)
<1> DEFINE e == [x \in S |-> IF x \in P THEN f[x] ELSE 0]
<1>1. /\ \A x \in S : e[x] \in Int /\ f[x] \in Int /\ e[x] <= f[x]
      /\ \A x \in P : f[x] = e[x]
      /\ \A x \in S \ P : e[x] = 0
  OBVIOUS
<1> HIDE DEF e
<1>2. Total(f, P) = Total(e, S)
  BY <1>1, TotalPart
<1>3. Total(e, S) <= Total(f, S)
  BY <1>1, TotalAtMost
<1> QED BY <1>2, <1>3

\* A tick makes everything a tick older: the sum over the ages moves with it.
THEOREM TotalShift ==
  ASSUME NEW n \in Nat, NEW f, NEW e, \A x \in 0 .. n : f[x] \in Int,
         e[0] = 0, \A x \in 0 .. n : e[x + 1] = f[x]
  PROVE  Total(e, 0 .. n + 1) = Total(f, 0 .. n)
<1> DEFINE B == {m \in 0 .. n : Total(e, 0 .. m + 1) # Total(f, 0 .. m)}
<1> SUFFICES ASSUME B # {} PROVE FALSE
  OBVIOUS
<1>1. PICK m \in B : \A k \in B : m <= k
  <2>1. B \in SUBSET Nat
    OBVIOUS
  <2> HIDE DEF B
  <2> QED BY <2>1, SmallestNumber
<1>2. m \in 0 .. n /\ m \in Nat
  OBVIOUS
<1>3. \A x \in 0 .. m + 1 : e[x] \in Int
  <2> SUFFICES ASSUME NEW x \in 0 .. m + 1, x # 0 PROVE e[x] \in Int
    OBVIOUS
  <2>1. x - 1 \in 0 .. n /\ (x - 1) + 1 = x
    BY <1>2
  <2> QED BY <2>1
<1>4. Total(e, 0 .. m + 1) = f[m] + Total(e, 0 .. m)
  BY <1>2, <1>3, TotalNext
<1>5. CASE m = 0
  <2>1. Total(e, 0 .. 0) = 0 /\ Total(f, 0 .. 0) = f[0] /\ f[0] \in Int
    BY <1>2, TotalFirst
  <2> QED BY <1>1, <1>4, <1>5, <2>1
<1>6. CASE m # 0
  <2>1. PICK k \in Nat : m = k + 1
    <3>1. m - 1 \in Nat /\ m = (m - 1) + 1
      BY <1>2, <1>6
    <3> QED BY <3>1
  <2>2. k \in 0 .. n /\ k \notin B
    BY <1>1, <1>2, <2>1
  <2>3. Total(e, 0 .. m) = Total(f, 0 .. k)
    BY <2>1, <2>2
  <2>4. \A x \in 0 .. k + 1 : f[x] \in Int
    BY <1>2, <2>1
  <2>5. Total(f, 0 .. m) = f[m] + Total(f, 0 .. k)
    BY <2>1, <2>4, TotalNext
  <2> QED BY <1>1, <1>4, <2>3, <2>5
<1> QED BY <1>5, <1>6
\* One of them, and one more.
LEMMA TotalOne ==
  ASSUME NEW f, NEW x, f[x] \in Int
  PROVE  Total(f, {x}) = f[x]
<1>1. IsFiniteSet({x}) /\ {x} \ {x} = {} /\ x \in {x} /\ \A y \in {x} : f[y] \in Int
  BY FS_Singleton
<1>2. Total(f, {x}) = f[x] + Total(f, {x} \ {x})
  BY <1>1, TotalSplit
<1>3. Total(f, {x}) = f[x] + Total(f, {})
  BY <1>1, <1>2
<1> QED BY <1>3, TotalEmpty

LEMMA TotalMore ==
  ASSUME NEW f, NEW S, IsFiniteSet(S), NEW x, x \notin S, \A y \in S \cup {x} : f[y] \in Int
  PROVE  Total(f, S \cup {x}) = f[x] + Total(f, S)
<1>1. IsFiniteSet(S \cup {x}) /\ (S \cup {x}) \ {x} = S /\ x \in S \cup {x}
  BY FS_AddElement
<1>2. Total(f, S \cup {x}) = f[x] + Total(f, (S \cup {x}) \ {x})
  BY <1>1, TotalSplit
<1> QED BY <1>1, <1>2
===============================================================================
