----------------------------- MODULE Induction -----------------------------
(***************************************************************************)
(* Induction over data, in the form the provers can use: sets and          *)
(* functions take the place of the predicates and operators of the         *)
(* library's induction theorems.  Then facts on folds, on products,        *)
(* division and powers, for the proofs about computations.                 *)
(***************************************************************************)
EXTENDS WellFoundedInduction, FiniteSetTheorems, SequenceTheorems, SequencesExt, TLAPS

\* Every set of naturals has a least element.
LEMMA LeastNatural ==
  ASSUME NEW T, T \subseteq Nat, T # {}
  PROVE  \E m \in T : \A k \in T : m <= k
  <1> DEFINE R == {ss \in Nat \X Nat : ss[1] < ss[2]}
  <1>1. IsWellFoundedOn(R, Nat)
    BY NatLessThanWellFounded, Zenon DEF OpToRel
  <1> HIDE DEF R
  <1>2. PICK m \in T : \A k \in T : ~ (<<k, m>> \in R)
    BY <1>1, WFMin, Zenon
  <1>3. \A x, y \in T : x < y => <<x, y>> \in R
    BY DEF R
  <1>4. \A k \in T : m <= k
    <2>1. TAKE k \in T
    <2>2. ~(k < m)
      BY <1>2, <1>3
    <2>3. k \in Nat /\ m \in Nat
      OBVIOUS
    <2>4. QED
      BY <2>2, <2>3
  <1>5. QED
    BY <1>4

\* A set that holds zero and with every natural the next one holds them all.
LEMMA NaturalsIn ==
  ASSUME NEW T, 0 \in T, \A n \in Nat : n \in T => n + 1 \in T
  PROVE  Nat \subseteq T
  <1> SUFFICES ASSUME ~(Nat \subseteq T) PROVE FALSE
    OBVIOUS
  <1> DEFINE Out == {n \in Nat : n \notin T}
  <1>1. Out \subseteq Nat /\ Out # {}
    OBVIOUS
  <1> HIDE DEF Out
  <1>2. PICK m \in Out : \A k \in Out : m <= k
    BY <1>1, LeastNatural
  <1>3. m \in Nat /\ m \notin T /\ m # 0
    BY <1>2 DEF Out
  <1>4. m - 1 \in Nat /\ ~(m <= m - 1)
    BY <1>3
  <1>5. m - 1 \in T
    BY <1>2, <1>4 DEF Out
  <1>6. (m - 1) + 1 = m
    BY <1>3
  <1>7. QED
    BY <1>3, <1>4, <1>5, <1>6

-----------------------------------------------------------------------------
\* Sums over finite sets.  SumFunctionOnSet takes the elements in an order of
\* its own; g is the function it computes on the subsets of S.
Summed(g, f, S) ==
  g = [s \in SUBSET S |-> IF s = {} THEN 0
                          ELSE f[CHOOSE x \in s : TRUE] + g[s \ {CHOOSE x \in s : TRUE}]]

\* A member of a set that is not empty.
LEMMA ChosenIn ==
  ASSUME NEW s, s # {}
  PROVE  (CHOOSE x \in s : TRUE) \in s
  OBVIOUS

\* The recursion of the fold has a solution.
LEMMA SumExists ==
  ASSUME NEW f, NEW S, IsFiniteSet(S)
  PROVE  \E g : Summed(g, f, S)
  <1> DEFINE c(s) == CHOOSE x \in s : TRUE
             Upto(g, n) ==
               /\ g = [s \in SUBSET S |-> g[s]]
               /\ \A s \in SUBSET S : Cardinality(s) <= n =>
                    g[s] = IF s = {} THEN 0 ELSE f[c(s)] + g[s \ {c(s)}]
             T == {n \in Nat : \E g : Upto(g, n)}
  <1>0. \A s \in SUBSET S : /\ IsFiniteSet(s) /\ Cardinality(s) \in Nat
                            /\ Cardinality(s) = 0 <=> s = {}
                            /\ Cardinality(s) <= Cardinality(S)
    BY FS_Subset, FS_CardinalityType, FS_EmptySet
  <1>1. 0 \in T
    <2> DEFINE g == [s \in SUBSET S |-> 0]
    <2>1. Upto(g, 0)
      BY <1>0
    <2>2. QED
      BY <2>1
  <1>2. ASSUME NEW n \in Nat, n \in T
        PROVE  n + 1 \in T
    <2>1. PICK g : Upto(g, n)
      BY <1>2
    <2> DEFINE h == [s \in SUBSET S |-> IF Cardinality(s) <= n THEN g[s]
                                        ELSE f[c(s)] + g[s \ {c(s)}]]
    <2>2. ASSUME NEW s \in SUBSET S, Cardinality(s) <= n + 1
          PROVE  h[s] = IF s = {} THEN 0 ELSE f[c(s)] + h[s \ {c(s)}]
      <3>1. CASE s = {}
        <4>1. Cardinality(s) = 0 /\ 0 <= n
          BY <3>1, <1>0, <1>2
        <4>2. g[s] = 0
          BY <2>1, <3>1, <4>1
        <4>3. QED
          BY <3>1, <4>1, <4>2
      <3>2. CASE s # {}
        <4>1. c(s) \in s
          BY <3>2, ChosenIn
        <4>2. s \ {c(s)} \in SUBSET S /\ Cardinality(s \ {c(s)}) = Cardinality(s) - 1
          BY <4>1, <1>0, FS_RemoveElement
        <4> HIDE DEF c
        <4>3. h[s \ {c(s)}] = g[s \ {c(s)}]
          BY <4>2, <2>2, <1>0
        <4>4. h[s] = f[c(s)] + g[s \ {c(s)}]
          <5>1. CASE Cardinality(s) <= n
            BY <5>1, <2>1, <3>2
          <5>2. CASE ~(Cardinality(s) <= n)
            BY <5>2
          <5>3. QED
            BY <5>1, <5>2
        <4>5. QED
          BY <3>2, <4>3, <4>4
      <3>3. QED
        BY <3>1, <3>2
    <2>3. h = [s \in SUBSET S |-> h[s]]
      OBVIOUS
    <2> HIDE DEF h
    <2>4. Upto(h, n + 1)
      BY <2>2, <2>3
    <2> HIDE DEF Upto
    <2>5. n + 1 \in Nat
      OBVIOUS
    <2>6. QED
      BY <2>4, <2>5
  <1>3. Nat \subseteq T
    <2> HIDE DEF T
    <2>1. QED
      BY <1>1, <1>2, NaturalsIn
  <1>4. Cardinality(S) \in Nat
    BY FS_CardinalityType
  <1>5. PICK g : Upto(g, Cardinality(S))
    BY <1>3, <1>4
  <1>6. \A s \in SUBSET S : g[s] = IF s = {} THEN 0 ELSE f[c(s)] + g[s \ {c(s)}]
    BY <1>5, <1>0
  <1>7. Summed(g, f, S)
    BY <1>5, <1>6 DEF Summed
  <1>8. QED
    BY <1>7

\* On the subsets of S it is the sum of whatever it is asked for.
LEMMA SumIs ==
  ASSUME NEW f, NEW S, IsFiniteSet(S)
  PROVE  \E g : Summed(g, f, S) /\ SumFunctionOnSet(f, S) = g[S]
  <1> DEFINE g == CHOOSE g : Summed(g, f, S)
  <1>1. Summed(g, f, S)
    BY SumExists
  <1>2. SumFunctionOnSet(f, S) = g[S]
    BY Zenon DEF SumFunctionOnSet, FoldFunctionOnSet, MapThenFoldSet, Summed
  <1>3. QED
    BY <1>1, <1>2

\* The sums do not depend on the set whose subsets they are taken on.
LEMMA SumAgrees ==
  ASSUME NEW f, NEW S, NEW T, T \subseteq S, IsFiniteSet(S),
         NEW g, NEW h, Summed(g, f, S), Summed(h, f, T)
  PROVE  \A s \in SUBSET T : g[s] = h[s]
  <1> DEFINE c(s) == CHOOSE x \in s : TRUE
             Bad == {s \in SUBSET T : g[s] # h[s]}
             Sizes == {Cardinality(s) : s \in Bad}
  <1>0. \A s \in SUBSET T : IsFiniteSet(s) /\ Cardinality(s) \in Nat
    BY FS_Subset, FS_CardinalityType
  <1>1. /\ \A s \in SUBSET S : g[s] = IF s = {} THEN 0 ELSE f[c(s)] + g[s \ {c(s)}]
        /\ \A s \in SUBSET T : h[s] = IF s = {} THEN 0 ELSE f[c(s)] + h[s \ {c(s)}]
    BY Zenon DEF Summed
  <1> SUFFICES ASSUME Bad # {} PROVE FALSE
    OBVIOUS
  <1>2. Sizes \subseteq Nat /\ Sizes # {}
    BY <1>0
  <1>3. PICK m \in Sizes : \A k \in Sizes : m <= k
    <2> HIDE DEF Sizes
    <2>1. QED
      BY <1>2, LeastNatural
  <1>4. PICK s \in Bad : m = Cardinality(s)
    OBVIOUS
  <1>5. s \in SUBSET T /\ s \in SUBSET S /\ g[s] # h[s]
    BY <1>4
  <1>6. s # {}
    BY <1>1, <1>5
  <1>7. c(s) \in s
    BY <1>6, ChosenIn
  <1>8. s \ {c(s)} \in SUBSET T /\ Cardinality(s \ {c(s)}) = Cardinality(s) - 1
    BY <1>0, <1>5, <1>7, FS_RemoveElement
  <1>9. g[s \ {c(s)}] # h[s \ {c(s)}]
    BY <1>1, <1>5, <1>6
  <1> HIDE DEF c
  <1>10. Cardinality(s) - 1 \in Sizes
    BY <1>8, <1>9
  <1>11. Cardinality(s) \in Nat
    BY <1>0, <1>5
  <1> HIDE DEF Sizes
  <1>12. QED
    BY <1>3, <1>4, <1>10, <1>11

\* The sum over nothing.
LEMMA SumEmpty ==
  ASSUME NEW f
  PROVE  SumFunctionOnSet(f, {}) = 0
  <1>1. PICK g : Summed(g, f, {}) /\ SumFunctionOnSet(f, {}) = g[{}]
    BY SumIs, FS_EmptySet
  <1>2. QED
    BY <1>1 DEF Summed

\* The sum over a set, less the element its fold takes first.
LEMMA SumChosen ==
  ASSUME NEW f, NEW S, IsFiniteSet(S), S # {}
  PROVE  LET c == CHOOSE x \in S : TRUE
         IN  SumFunctionOnSet(f, S) = f[c] + SumFunctionOnSet(f, S \ {c})
  <1> DEFINE c == CHOOSE x \in S : TRUE
  <1>1. IsFiniteSet(S \ {c}) /\ S \ {c} \subseteq S
    BY FS_Subset
  <1>2. PICK g : Summed(g, f, S) /\ SumFunctionOnSet(f, S) = g[S]
    BY SumIs
  <1>3. PICK h : Summed(h, f, S \ {c}) /\ SumFunctionOnSet(f, S \ {c}) = h[S \ {c}]
    BY <1>1, SumIs
  <1>4. g[S] = f[c] + g[S \ {c}]
    BY <1>2, Zenon DEF Summed
  <1>5. g[S \ {c}] = h[S \ {c}]
    <2> HIDE DEF c
    <2>1. QED
      BY <1>1, <1>2, <1>3, SumAgrees
  <1>6. QED
    BY <1>2, <1>3, <1>4, <1>5

\* A sum of integers is an integer.
LEMMA SumType ==
  ASSUME NEW S, IsFiniteSet(S), NEW f, \A x \in S : f[x] \in Int
  PROVE  \A s \in SUBSET S : SumFunctionOnSet(f, s) \in Int
  <1> DEFINE Bad == {s \in SUBSET S : SumFunctionOnSet(f, s) \notin Int}
             Sizes == {Cardinality(s) : s \in Bad}
             c(s) == CHOOSE x \in s : TRUE
  <1> SUFFICES ASSUME Bad # {} PROVE FALSE
    OBVIOUS
  <1>0. \A s \in SUBSET S : IsFiniteSet(s) /\ Cardinality(s) \in Nat
    BY FS_Subset, FS_CardinalityType
  <1>1. Sizes \subseteq Nat /\ Sizes # {}
    BY <1>0
  <1>2. PICK m \in Sizes : \A k \in Sizes : m <= k
    <2> HIDE DEF Sizes
    <2>1. QED
      BY <1>1, LeastNatural
  <1>3. PICK s \in Bad : m = Cardinality(s)
    OBVIOUS
  <1>4. s \in SUBSET S /\ SumFunctionOnSet(f, s) \notin Int
    BY <1>3
  <1>5. s # {}
    BY <1>4, SumEmpty
  <1>6. c(s) \in s
    BY <1>5, ChosenIn
  <1>7. SumFunctionOnSet(f, s) = f[c(s)] + SumFunctionOnSet(f, s \ {c(s)})
    BY <1>0, <1>4, <1>5, SumChosen
  <1>8. s \ {c(s)} \in SUBSET S /\ Cardinality(s \ {c(s)}) = Cardinality(s) - 1
    BY <1>0, <1>4, <1>6, FS_RemoveElement
  <1> HIDE DEF c
  <1>9. SumFunctionOnSet(f, s \ {c(s)}) \notin Int
    BY <1>4, <1>6, <1>7
  <1>10. Cardinality(s) - 1 \in Sizes
    BY <1>8, <1>9
  <1>11. Cardinality(s) \in Nat
    BY <1>0, <1>4
  <1> HIDE DEF Sizes
  <1>12. QED
    BY <1>2, <1>3, <1>10, <1>11

\* A sum of integers, less any one of them: the order does not matter.
LEMMA SumRemove ==
  ASSUME NEW S, IsFiniteSet(S), NEW f, \A x \in S : f[x] \in Int
  PROVE  \A s \in SUBSET S : \A x \in s :
           SumFunctionOnSet(f, s) = f[x] + SumFunctionOnSet(f, s \ {x})
  <1> DEFINE Fine(s) == \A x \in s : SumFunctionOnSet(f, s) = f[x] + SumFunctionOnSet(f, s \ {x})
             Bad == {s \in SUBSET S : ~Fine(s)}
             Sizes == {Cardinality(s) : s \in Bad}
  <1> SUFFICES ASSUME Bad # {} PROVE FALSE
    OBVIOUS
  <1>0. \A s \in SUBSET S : IsFiniteSet(s) /\ Cardinality(s) \in Nat
    BY FS_Subset, FS_CardinalityType
  <1>1. Sizes \subseteq Nat /\ Sizes # {}
    BY <1>0
  <1>2. PICK m \in Sizes : \A k \in Sizes : m <= k
    <2> HIDE DEF Sizes
    <2>1. QED
      BY <1>1, LeastNatural
  <1>3. PICK s \in Bad : m = Cardinality(s)
    OBVIOUS
  <1>4. PICK x \in s : SumFunctionOnSet(f, s) # f[x] + SumFunctionOnSet(f, s \ {x})
    BY <1>3
  <1>5. PICK y \in s : SumFunctionOnSet(f, s) = f[y] + SumFunctionOnSet(f, s \ {y})
    BY <1>0, <1>3, <1>4, SumChosen, ChosenIn
  <1>6. x # y
    BY <1>4, <1>5
  <1>7. \A z \in s : /\ s \ {z} \in SUBSET S
                     /\ Cardinality(s \ {z}) = Cardinality(s) - 1
    BY <1>0, <1>3, FS_RemoveElement
  <1>8. \A z \in s : Fine(s \ {z})
    <2>1. SUFFICES ASSUME NEW z \in s, ~Fine(s \ {z}) PROVE FALSE
      OBVIOUS
    <2> HIDE DEF Fine
    <2>2. Cardinality(s) - 1 \in Sizes
      BY <1>7, <2>1
    <2>3. Cardinality(s) \in Nat
      BY <1>0, <1>3
    <2> HIDE DEF Sizes
    <2>4. QED
      BY <1>2, <1>3, <2>2, <2>3
  <1>9. /\ SumFunctionOnSet(f, s \ {y}) = f[x] + SumFunctionOnSet(f, (s \ {y}) \ {x})
        /\ SumFunctionOnSet(f, s \ {x}) = f[y] + SumFunctionOnSet(f, (s \ {x}) \ {y})
    <2>1. x \in s \ {y} /\ y \in s \ {x}
      BY <1>6
    <2>2. QED
      BY <1>8, <2>1
  <1>10. (s \ {y}) \ {x} = (s \ {x}) \ {y}
    OBVIOUS
  <1>11. /\ f[x] \in Int /\ f[y] \in Int
         /\ SumFunctionOnSet(f, (s \ {x}) \ {y}) \in Int
    <2>1. (s \ {x}) \ {y} \in SUBSET S /\ x \in S /\ y \in S
      BY <1>3
    <2>2. QED
      BY <2>1, SumType
  <1>12. SumFunctionOnSet(f, s) = f[y] + (f[x] + SumFunctionOnSet(f, (s \ {x}) \ {y}))
    BY <1>5, <1>9, <1>10
  <1>13. SumFunctionOnSet(f, s) # f[x] + (f[y] + SumFunctionOnSet(f, (s \ {x}) \ {y}))
    BY <1>4, <1>9
  <1> DEFINE rest == SumFunctionOnSet(f, (s \ {x}) \ {y})
  <1> HIDE DEF rest
  <1>14. f[y] + (f[x] + rest) = f[x] + (f[y] + rest)
    BY <1>11 DEF rest
  <1>15. QED
    BY <1>12, <1>13, <1>14 DEF rest

-----------------------------------------------------------------------------
\* The sum of the first k elements of a sequence of numbers.
SumUpto(f, k) == SumFunctionOnSet(f, 1 .. k)

\* One element more.
LEMMA SumUptoStep ==
  ASSUME NEW n \in Nat, NEW f, \A i \in 1 .. n : f[i] \in Int
  PROVE  /\ SumUpto(f, 0) = 0
         /\ \A k \in 0 .. n : SumUpto(f, k) \in Int
         /\ \A k \in 1 .. n : SumUpto(f, k) = SumUpto(f, k - 1) + f[k]
  <1>1. IsFiniteSet(1 .. n)
    BY FS_Interval
  <1>2. SumUpto(f, 0) = 0
    <2>1. 1 .. 0 = {}
      OBVIOUS
    <2>2. QED
      BY <2>1, SumEmpty DEF SumUpto
  <1>3. ASSUME NEW k \in 0 .. n
        PROVE  SumUpto(f, k) \in Int
    <2>1. 1 .. k \in SUBSET (1 .. n)
      OBVIOUS
    <2>2. QED
      BY <1>1, <2>1, SumType DEF SumUpto
  <1>4. ASSUME NEW k \in 1 .. n
        PROVE  SumUpto(f, k) = SumUpto(f, k - 1) + f[k]
    <2>1. 1 .. k \in SUBSET (1 .. n) /\ k \in 1 .. k /\ (1 .. k) \ {k} = 1 .. k - 1
      OBVIOUS
    <2>2. SumUpto(f, k) = f[k] + SumUpto(f, k - 1)
      BY <1>1, <2>1, SumRemove DEF SumUpto
    <2>3. k - 1 \in 0 .. n /\ f[k] \in Int
      OBVIOUS
    <2>4. SumUpto(f, k - 1) \in Int
      BY <1>3, <2>3
    <2>5. QED
      BY <2>2, <2>3, <2>4
  <1>5. QED
    BY <1>2, <1>3, <1>4

\* Sums of naturals grow.
LEMMA SumUptoGrows ==
  ASSUME NEW n \in Nat, NEW f, \A i \in 1 .. n : f[i] \in Nat
  PROVE  \A k \in 0 .. n : SumUpto(f, k) \in Nat /\ SumUpto(f, k) <= SumUpto(f, n)
  <1>1. /\ SumUpto(f, 0) = 0
        /\ \A k \in 0 .. n : SumUpto(f, k) \in Int
        /\ \A k \in 1 .. n : SumUpto(f, k) = SumUpto(f, k - 1) + f[k]
    <2>1. \A i \in 1 .. n : f[i] \in Int
      OBVIOUS
    <2>2. QED
      BY <2>1, SumUptoStep
  <1> HIDE DEF SumUpto
  <1>2. \A k \in 0 .. n : SumUpto(f, k) \in Nat
    <2> DEFINE T == {k \in Nat : k <= n => SumUpto(f, k) \in Nat}
    <2>1. 0 \in T
      BY <1>1
    <2>2. ASSUME NEW k \in Nat, k \in T
          PROVE  k + 1 \in T
      <3>1. CASE k + 1 <= n
        <4>1. k + 1 \in 1 .. n /\ (k + 1) - 1 = k /\ k <= n
          BY <3>1
        <4>2. SumUpto(f, k + 1) = SumUpto(f, k) + f[k + 1]
          BY <1>1, <4>1
        <4>3. SumUpto(f, k) \in Nat /\ f[k + 1] \in Nat
          BY <4>1, <2>2
        <4>4. QED
          BY <4>2, <4>3
      <3>2. CASE ~(k + 1 <= n)
        BY <3>2
      <3>3. QED
        BY <3>1, <3>2
    <2> HIDE DEF T
    <2>3. Nat \subseteq T
      BY <2>1, <2>2, NaturalsIn
    <2>4. QED
      BY <2>3 DEF T
  <1>3. \A k \in 0 .. n : SumUpto(f, k) <= SumUpto(f, n)
    <2> DEFINE T == {d \in Nat : d <= n => SumUpto(f, n - d) <= SumUpto(f, n)}
    <2>1. 0 \in T
      <3>1. SumUpto(f, n) \in Nat /\ n - 0 = n
        BY <1>2
      <3>2. QED
        BY <3>1
    <2>2. ASSUME NEW d \in Nat, d \in T
          PROVE  d + 1 \in T
      <3>1. CASE d + 1 <= n
        <4>1. n - d \in 1 .. n /\ n - (d + 1) = (n - d) - 1 /\ d <= n
          BY <3>1
        <4>2. SumUpto(f, n - d) = SumUpto(f, n - (d + 1)) + f[n - d]
          BY <1>1, <4>1
        <4>3. SumUpto(f, n - d) <= SumUpto(f, n) /\ f[n - d] \in Nat
          BY <4>1, <2>2
        <4>4. SumUpto(f, n - (d + 1)) \in Nat /\ SumUpto(f, n) \in Nat
          <5>1. n - (d + 1) \in 0 .. n /\ n \in 0 .. n
            BY <3>1
          <5>2. QED
            BY <5>1, <1>2
        <4>5. SumUpto(f, n - (d + 1)) <= SumUpto(f, n)
          BY <4>2, <4>3, <4>4
        <4>6. QED
          BY <4>5
      <3>2. CASE ~(d + 1 <= n)
        BY <3>2
      <3>3. QED
        BY <3>1, <3>2
    <2> HIDE DEF T
    <2>3. Nat \subseteq T
      BY <2>1, <2>2, NaturalsIn
    <2>4. SUFFICES ASSUME NEW k \in 0 .. n PROVE SumUpto(f, k) <= SumUpto(f, n)
      OBVIOUS
    <2>5. n - k \in Nat /\ n - k <= n /\ n - (n - k) = k
      OBVIOUS
    <2>6. n - k \in T
      BY <2>3, <2>5
    <2>7. QED
      BY <2>5, <2>6 DEF T
  <1>4. QED
    BY <1>2, <1>3

-----------------------------------------------------------------------------
\* Arithmetic modulo m.

\* Division with remainder.
LEMMA DivMod ==
  ASSUME NEW s \in Int, NEW m \in Nat \ {0}
  PROVE  /\ s \div m \in Int /\ s % m \in 0 .. m - 1
         /\ s = m * (s \div m) + (s % m)
  <1>1. m \in Int /\ m > 0
    OBVIOUS
  <1>2. s \div m \in Int /\ s % m \in 0 .. m - 1
    BY <1>1
  <1>3. s = (s \div m) * m + (s % m)
    BY <1>1
  <1>4. QED
    BY <1>1, <1>2, <1>3

\* A number below m is the remainder of itself and any multiple of m.
LEMMA UniqueRemainder ==
  ASSUME NEW m \in Nat \ {0}, NEW k \in Int, NEW r \in 0 .. m - 1
  PROVE  (m * k + r) % m = r
  <1> DEFINE y == m * k + r
             d == y \div m
             e == y % m
  <1>0. m * k \in Int /\ y \in Int
    OBVIOUS
  <1>1. d \in Int /\ e \in 0 .. m - 1 /\ y = m * d + e
    BY <1>0, DivMod
  <1> HIDE DEF d, e
  <1>2. m * (k - d) = e - r
    BY <1>1
  <1>3. CASE k - d >= 1
    <2>1. m * (k - d) >= m
      BY <1>1, <1>3
    <2>2. QED
      BY <2>1, <1>2, <1>1
  <1>4. CASE k - d <= -1
    <2>1. m * (k - d) <= -m
      BY <1>1, <1>4
    <2>2. QED
      BY <2>1, <1>2, <1>1
  <1>5. CASE k = d
    BY <1>1, <1>5 DEF e
  <1>6. QED
    BY <1>1, <1>3, <1>4, <1>5

\* A sum may be reduced before the next number is added.
LEMMA ModAdd ==
  ASSUME NEW s \in Int, NEW a \in Int, NEW m \in Nat \ {0}
  PROVE  ((s % m) + a) % m = (s + a) % m
  <1> DEFINE q == s \div m
             x == (s % m) + a
             d == x \div m
             e == x % m
  <1>1. q \in Int /\ s % m \in Int /\ s = m * q + (s % m)
    BY DivMod
  <1>2. x \in Int /\ d \in Int /\ e \in 0 .. m - 1 /\ x = m * d + e
    BY <1>1, DivMod
  <1>3. s + a = m * q + x
    <2>1. s + a = (m * q + (s % m)) + a /\ m * q \in Int
      BY <1>1
    <2>2. QED
      BY <2>1, <1>1
  <1> HIDE DEF q, x, d, e
  <1>4. m * q \in Int /\ m * d \in Int /\ m * (q + d) = m * q + m * d
    BY <1>1, <1>2
  <1>5. s + a = m * (q + d) + e
    BY <1>2, <1>3, <1>4
  <1>6. (m * (q + d) + e) % m = e
    BY <1>1, <1>2, UniqueRemainder
  <1>7. QED
    BY <1>5, <1>6 DEF e, x

-----------------------------------------------------------------------------
\* g goes from base by a step for every number of the range.
Iterates(g, base, step, W) ==
  g[0] = base /\ \A k \in 1 .. W : g[k] = step[<<g[k - 1], k>>]

\* A recursion over a range of numbers has a solution.
LEMMA RecursionExists ==
  ASSUME NEW W \in Nat, NEW S, NEW base \in S, NEW step \in [S \X (1 .. W) -> S]
  PROVE  \E g \in [0 .. W -> S] : Iterates(g, base, step, W)
  <1> DEFINE Solves(g, n) == g[0] = base /\ \A k \in 1 .. n : g[k] = step[<<g[k - 1], k>>]
             T == {n \in Nat : n <= W => \E g \in [0 .. n -> S] : Solves(g, n)}
  <1>1. 0 \in T
    <2>1. [k \in 0 .. 0 |-> base] \in [0 .. 0 -> S]
      OBVIOUS
    <2>2. Solves([k \in 0 .. 0 |-> base], 0)
      OBVIOUS
    <2>3. QED
      BY <2>1, <2>2
  <1>2. ASSUME NEW n \in Nat, n \in T
        PROVE  n + 1 \in T
    <2>1. SUFFICES ASSUME n + 1 <= W
                   PROVE  \E g \in [0 .. n + 1 -> S] : Solves(g, n + 1)
      OBVIOUS
    <2>2. PICK g \in [0 .. n -> S] : Solves(g, n)
      BY <1>2, <2>1
    <2> DEFINE h == [k \in 0 .. n + 1 |-> IF k = n + 1 THEN step[<<g[n], n + 1>>] ELSE g[k]]
    <2>3. <<g[n], n + 1>> \in S \X (1 .. W)
      BY <2>1
    <2>4. h \in [0 .. n + 1 -> S]
      BY <2>3
    <2>5. h[0] = base
      BY <2>2
    <2>6. ASSUME NEW k \in 1 .. n + 1
          PROVE  h[k] = step[<<h[k - 1], k>>]
      <3>1. CASE k = n + 1
        <4>1. h[n + 1] = step[<<g[n], n + 1>>] /\ h[n] = g[n] /\ k - 1 = n
          BY <3>1
        <4>2. QED
          BY <3>1, <4>1
      <3>2. CASE k # n + 1
        <4>1. k \in 1 .. n /\ k - 1 \in 0 .. n /\ k - 1 # n + 1 /\ k \in 0 .. n + 1 /\ k - 1 \in 0 .. n + 1
          BY <3>2
        <4>2. h[k] = g[k] /\ h[k - 1] = g[k - 1]
          BY <4>1, <3>2
        <4>3. QED
          BY <4>1, <4>2, <2>2
      <3>3. QED
        BY <3>1, <3>2
    <2>7. QED
      BY <2>4, <2>5, <2>6
  <1> HIDE DEF T
  <1>3. Nat \subseteq T
    BY <1>1, <1>2, NaturalsIn
  <1>4. W \in T
    BY <1>3
  <1>5. QED
    BY <1>4 DEF T, Iterates

-----------------------------------------------------------------------------
\* Folds over finite sets, which take an element from the set again and again:
\* pick[s] is the one that is taken from s.
Picks(pick, S) == \A s \in SUBSET S : s # {} => pick[s] \in s

\* What holds of a set without the element picked from it holds of the set.
Climbs(T, pick, S) == \A s \in SUBSET S : s # {} /\ s \ {pick[s]} \in T => s \in T

\* What holds of the empty set, and climbs, holds of all subsets.
LEMMA SubsetInduction ==
  ASSUME NEW S, IsFiniteSet(S), NEW pick, Picks(pick, S),
         NEW T, {} \in T, Climbs(T, pick, S)
  PROVE  SUBSET S \subseteq T
  <1> DEFINE N == {n \in Nat : \A s \in SUBSET S : Cardinality(s) <= n => s \in T}
  <1>1. \A s \in SUBSET S : /\ IsFiniteSet(s) /\ Cardinality(s) \in Nat
                            /\ Cardinality(s) = 0 <=> s = {}
    BY FS_Subset, FS_CardinalityType, FS_EmptySet
  <1>2. 0 \in N
    <2>1. ASSUME NEW s \in SUBSET S, Cardinality(s) <= 0
          PROVE  s \in T
      <3>1. Cardinality(s) = 0
        BY <1>1, <2>1
      <3>2. s = {}
        BY <1>1, <3>1
      <3>3. QED
        BY <3>2
    <2>2. QED
      BY <2>1
  <1>3. ASSUME NEW n \in Nat, n \in N
        PROVE  n + 1 \in N
    <2>1. SUFFICES ASSUME NEW s \in SUBSET S, Cardinality(s) <= n + 1
                   PROVE  s \in T
      OBVIOUS
    <2>2. CASE s = {}
      BY <2>2
    <2>3. CASE s # {}
      <3>1. pick[s] \in s
        BY <2>3 DEF Picks
      <3>2. s \ {pick[s]} \in SUBSET S /\ Cardinality(s \ {pick[s]}) = Cardinality(s) - 1
        BY <1>1, <3>1, FS_RemoveElement
      <3>3. Cardinality(s) \in Nat
        BY <1>1
      <3>4. s \ {pick[s]} \in T
        BY <1>3, <2>1, <3>2, <3>3
      <3>5. QED
        BY <2>3, <3>4 DEF Climbs
    <2>4. QED
      BY <2>2, <2>3
  <1> HIDE DEF N
  <1>4. Nat \subseteq N
    BY <1>2, <1>3, NaturalsIn
  <1>5. ASSUME NEW s \in SUBSET S
        PROVE  s \in T
    <2>1. Cardinality(s) \in N
      BY <1>1, <1>4
    <2>2. Cardinality(s) \in Nat /\ Cardinality(s) <= Cardinality(s)
      BY <1>1
    <2>3. QED
      BY <2>1, <2>2 DEF N
  <1>6. QED
    BY <1>5

\* g is what the fold computes on the subsets of S.
Folded(g, base, step, pick, S) ==
  \A s \in SUBSET S : g[s] = IF s = {} THEN base ELSE step[<<pick[s], g[s \ {pick[s]}]>>]

LEMMA SubsetRecursion ==
  ASSUME NEW S, IsFiniteSet(S), NEW pick, Picks(pick, S),
         NEW R, NEW base \in R, NEW step \in [S \X R -> R]
  PROVE  \E g \in [SUBSET S -> R] : Folded(g, base, step, pick, S)
  <1> DEFINE Upto(g, n) == \A s \in SUBSET S : Cardinality(s) <= n =>
                             g[s] = IF s = {} THEN base ELSE step[<<pick[s], g[s \ {pick[s]}]>>]
             N == {n \in Nat : \E g \in [SUBSET S -> R] : Upto(g, n)}
  <1>1. \A s \in SUBSET S : /\ IsFiniteSet(s) /\ Cardinality(s) \in Nat
                            /\ Cardinality(s) = 0 <=> s = {}
                            /\ Cardinality(s) <= Cardinality(S)
    BY FS_Subset, FS_CardinalityType, FS_EmptySet
  <1>2. 0 \in N
    <2> DEFINE g == [s \in SUBSET S |-> base]
    <2>1. g \in [SUBSET S -> R] /\ Upto(g, 0)
      BY <1>1
    <2>2. QED
      BY <2>1
  <1>3. ASSUME NEW n \in Nat, n \in N
        PROVE  n + 1 \in N
    <2>1. PICK g \in [SUBSET S -> R] : Upto(g, n)
      BY <1>3
    <2> DEFINE less(s) == s \ {pick[s]}
               h == [s \in SUBSET S |-> IF s = {} \/ Cardinality(s) <= n THEN g[s]
                                        ELSE step[<<pick[s], g[less(s)]>>]]
    <2>2. ASSUME NEW s \in SUBSET S, s # {}
          PROVE  /\ pick[s] \in S /\ less(s) \in SUBSET S
                 /\ Cardinality(less(s)) = Cardinality(s) - 1
                 /\ step[<<pick[s], g[less(s)]>>] \in R
      <3>1. pick[s] \in s
        BY <2>2 DEF Picks
      <3>2. less(s) \in SUBSET S /\ Cardinality(less(s)) = Cardinality(s) - 1
        BY <1>1, <3>1, FS_RemoveElement
      <3>3. <<pick[s], g[less(s)]>> \in S \X R
        BY <3>1, <3>2
      <3>4. QED
        BY <3>1, <3>2, <3>3
    <2> HIDE DEF less
    <2>3. h \in [SUBSET S -> R]
      BY <2>2
    <2>4. ASSUME NEW s \in SUBSET S, Cardinality(s) <= n + 1
          PROVE  h[s] = IF s = {} THEN base ELSE step[<<pick[s], h[less(s)]>>]
      <3>1. CASE s = {}
        <4>1. Cardinality(s) <= n
          BY <3>1, <1>1
        <4>2. g[s] = base
          BY <2>1, <3>1, <4>1
        <4>3. QED
          BY <3>1, <4>2
      <3>2. CASE s # {}
        <4>1. Cardinality(less(s)) <= n /\ less(s) \in SUBSET S
          <5>1. Cardinality(s) \in Nat
            BY <1>1
          <5>2. less(s) \in SUBSET S /\ Cardinality(less(s)) = Cardinality(s) - 1
            BY <2>2, <3>2
          <5>3. QED
            BY <2>4, <5>1, <5>2
        <4>2. h[less(s)] = g[less(s)]
          BY <4>1
        <4>3. h[s] = step[<<pick[s], g[less(s)]>>]
          <5>1. CASE Cardinality(s) <= n
            BY <5>1, <2>1, <3>2 DEF less
          <5>2. CASE ~(Cardinality(s) <= n)
            BY <5>2, <3>2
          <5>3. QED
            BY <5>1, <5>2
        <4>4. QED
          BY <3>2, <4>2, <4>3
      <3>3. QED
        BY <3>1, <3>2
    <2> HIDE DEF h
    <2>5. Upto(h, n + 1)
      BY <2>4 DEF less
    <2> HIDE DEF Upto
    <2>6. n + 1 \in Nat
      OBVIOUS
    <2>7. QED
      BY <2>3, <2>5, <2>6
  <1>4. Nat \subseteq N
    <2> HIDE DEF N
    <2>1. QED
      BY <1>2, <1>3, NaturalsIn
  <1>5. Cardinality(S) \in Nat
    BY FS_CardinalityType
  <1>6. PICK g \in [SUBSET S -> R] : Upto(g, Cardinality(S))
    BY <1>4, <1>5
  <1>7. Folded(g, base, step, pick, S)
    BY <1>1, <1>6 DEF Folded
  <1>8. QED
    BY <1>7

-----------------------------------------------------------------------------
\* Sequences of sequences.

\* The recursion of FlattenSeq, for the first n sequences.
Flattening(g, s, n) == g = [i \in 1..n |-> IF i = 1 THEN s[i] ELSE g[i - 1] \o s[i]]

\* It has a solution.
LEMMA FlatteningExists ==
  ASSUME NEW s
  PROVE  \A n \in Nat : \E g : Flattening(g, s, n)
  <1> DEFINE T == {n \in Nat : \E g : Flattening(g, s, n)}
  <1>1. 0 \in T
    <2>1. Flattening([i \in 1..0 |-> <<>>], s, 0)
      <3>1. 1..0 = {}
        OBVIOUS
      <3>2. QED
        BY <3>1, Zenon DEF Flattening
    <2>2. QED
      BY <2>1
  <1>2. \A n \in Nat : n \in T => n + 1 \in T
    <2>1. TAKE n \in Nat
    <2>2. HAVE n \in T
    <2>3. PICK g : Flattening(g, s, n)
      BY <2>2
    <2> DEFINE Turn(i) == IF i = 1 THEN s[i] ELSE g[i - 1] \o s[i]
               h == [i \in 1..n + 1 |-> Turn(i)]
    <2>4. \A i \in 1..n : g[i] = h[i]
      <3>1. TAKE i \in 1..n
      <3>2. g[i] = Turn(i)
        BY <2>3 DEF Flattening
      <3>3. i \in 1..n + 1
        OBVIOUS
      <3> HIDE DEF Turn
      <3>4. QED
        BY <3>2, <3>3
    <2>5. \A i \in 1..n + 1 : Turn(i) = IF i = 1 THEN s[i] ELSE h[i - 1] \o s[i]
      <3>1. SUFFICES ASSUME NEW i \in 1..n + 1, i # 1
                     PROVE  g[i - 1] = h[i - 1]
        BY Zenon
      <3>2. i - 1 \in 1..n
        BY <3>1
      <3>3. QED
        BY <3>2, <2>4
    <2> HIDE DEF Turn
    <2>6. Flattening(h, s, n + 1)
      BY <2>5, Zenon DEF Flattening
    <2>7. QED
      BY <2>6
  <1> HIDE DEF T
  <1>3. Nat \subseteq T
    BY <1>1, <1>2, NaturalsIn
  <1>4. QED
    BY <1>3 DEF T

\* FlattenSeq is the last turn of it.
LEMMA FlattenIs ==
  ASSUME NEW s, Len(s) \in Nat, Len(s) # 0
  PROVE  \E g : Flattening(g, s, Len(s)) /\ FlattenSeq(s) = g[Len(s)]
  <1> DEFINE g == CHOOSE g : Flattening(g, s, Len(s))
  <1>1. Flattening(g, s, Len(s))
    BY FlatteningExists
  <1>2. FlattenSeq(s) = g[Len(s)]
    BY Zenon DEF FlattenSeq, Flattening
  <1>3. QED
    BY <1>1, <1>2

\* Two sequences that begin alike flatten alike, as far as they agree.
LEMMA FlatteningAgrees ==
  ASSUME NEW B, NEW n \in Nat, NEW s, NEW t, NEW g, NEW h,
         \A i \in 1..n : s[i] \in Seq(B) /\ t[i] = s[i],
         Flattening(g, s, n), Flattening(h, t, n + 1)
  PROVE  \A i \in 1..n : g[i] \in Seq(B) /\ h[i] = g[i]
  <1> DEFINE T == {k \in Nat : k \in 1..n => g[k] \in Seq(B) /\ h[k] = g[k]}
  <1>1. 0 \in T
    OBVIOUS
  <1>2. \A k \in Nat : k \in T => k + 1 \in T
    <2>1. TAKE k \in Nat
    <2>2. HAVE k \in T
    <2>3. SUFFICES ASSUME k + 1 \in 1..n PROVE g[k + 1] \in Seq(B) /\ h[k + 1] = g[k + 1]
      OBVIOUS
    <2>4. k + 1 \in 1..n /\ k + 1 \in 1..n + 1 /\ (k + 1) - 1 = k
      BY <2>3
    <2>5. /\ g[k + 1] = IF k + 1 = 1 THEN s[k + 1] ELSE g[k] \o s[k + 1]
          /\ h[k + 1] = IF k + 1 = 1 THEN t[k + 1] ELSE h[k] \o t[k + 1]
      BY <2>4 DEF Flattening
    <2>6. s[k + 1] \in Seq(B) /\ t[k + 1] = s[k + 1]
      BY <2>3
    <2>7. CASE k = 0
      BY <2>5, <2>6, <2>7
    <2>8. CASE k # 0
      <3>1. g[k] \in Seq(B) /\ h[k] = g[k]
        BY <2>2, <2>3, <2>8
      <3>2. g[k] \o s[k + 1] \in Seq(B)
        BY <3>1, <2>6, ConcatProperties
      <3>3. k + 1 # 1
        BY <2>8
      <3>4. QED
        BY <3>1, <3>2, <3>3, <2>5, <2>6
    <2>9. QED
      BY <2>7, <2>8
  <1> HIDE DEF T
  <1>3. Nat \subseteq T
    BY <1>1, <1>2, NaturalsIn
  <1>4. QED
    BY <1>3 DEF T

\* One sequence more.
LEMMA FlattenAppend ==
  ASSUME NEW B, NEW s \in Seq(Seq(B)), NEW o \in Seq(B)
  PROVE  /\ FlattenSeq(s) \in Seq(B)
         /\ FlattenSeq(Append(s, o)) = FlattenSeq(s) \o o
  <1> DEFINE n == Len(s)
             t == Append(s, o)
  <1>1. /\ n \in Nat /\ t \in Seq(Seq(B)) /\ Len(t) = n + 1
        /\ \A i \in 1..n : t[i] = s[i] /\ s[i] \in Seq(B)
        /\ t[n + 1] = o
    BY AppendProperties, LenProperties, ElementOfSeq
  <1> HIDE DEF t, n
  <1>2. PICK h : Flattening(h, t, n + 1) /\ FlattenSeq(t) = h[n + 1]
    <2>1. Len(t) \in Nat /\ Len(t) # 0
      BY <1>1
    <2>2. QED
      BY <2>1, <1>1, FlattenIs
  <1>3. n + 1 \in 1..n + 1 /\ (n + 1) - 1 = n
    BY <1>1
  <1>4. h[n + 1] = IF n + 1 = 1 THEN t[n + 1] ELSE h[n] \o t[n + 1]
    BY <1>2, <1>3 DEF Flattening
  <1>5. CASE n = 0
    <2>1. s = <<>>
      BY <1>5, EmptySeq DEF n
    <2>2. FlattenSeq(s) = <<>>
      BY <2>1 DEF FlattenSeq
    <2>3. <<>> \o o = o /\ <<>> \in Seq(B)
      BY ConcatEmptySeq, EmptySeq
    <2>4. QED
      BY <2>2, <2>3, <1>1, <1>2, <1>4, <1>5 DEF t
  <1>6. CASE n # 0
    <2>1. PICK g : Flattening(g, s, n) /\ FlattenSeq(s) = g[n]
      BY <1>1, <1>6, FlattenIs DEF n
    <2>2. \A i \in 1..n : g[i] \in Seq(B) /\ h[i] = g[i]
      <3>1. n \in Nat /\ \A i \in 1..n : s[i] \in Seq(B) /\ t[i] = s[i]
        BY <1>1
      <3>2. Flattening(g, s, n) /\ Flattening(h, t, n + 1)
        BY <1>2, <2>1
      <3>3. QED
        BY <3>1, <3>2, FlatteningAgrees, SMTT(40)
    <2>3. n \in 1..n
      BY <1>1, <1>6
    <2>4. n + 1 # 1
      BY <1>1, <1>6
    <2>5. QED
      BY <2>1, <2>2, <2>3, <2>4, <1>1, <1>2, <1>4 DEF t
  <1>7. QED
    BY <1>5, <1>6

\* No sequence, and one.
LEMMA FlattenFew ==
  /\ FlattenSeq(<<>>) = <<>>
  /\ \A B : \A o \in Seq(B) : FlattenSeq(<<o>>) = o
<1>1. FlattenSeq(<<>>) = <<>>
  BY DEF FlattenSeq
<1>2. ASSUME NEW B, NEW o \in Seq(B)
      PROVE  FlattenSeq(<<o>>) = o
  <2>1. <<>> \in Seq(Seq(B)) /\ Append(<<>>, o) = <<o>>
    BY EmptySeq
  <2>2. FlattenSeq(Append(<<>>, o)) = FlattenSeq(<<>>) \o o
    BY <2>1, FlattenAppend
  <2>3. <<>> \o o = o
    BY ConcatEmptySeq
  <2>4. QED
    BY <1>1, <2>1, <2>2, <2>3
<1>3. QED
  BY <1>1, <1>2

\* What is flattened in two parts.
LEMMA FlattenConcat ==
  ASSUME NEW B, NEW s \in Seq(Seq(B))
  PROVE  \A u \in Seq(Seq(B)) :
           /\ FlattenSeq(u) \in Seq(B)
           /\ FlattenSeq(s \o u) = FlattenSeq(s) \o FlattenSeq(u)
<1> DEFINE Good(u) == FlattenSeq(u) \in Seq(B) /\ FlattenSeq(s \o u) = FlattenSeq(s) \o FlattenSeq(u)
           T == {n \in Nat : \A u \in Seq(Seq(B)) : Len(u) = n => Good(u)}
<1>0. FlattenSeq(s) \in Seq(B)
  <2>1. <<>> \in Seq(B)
    BY EmptySeq
  <2>2. QED
    BY <2>1, FlattenAppend
<1>1. 0 \in T
  <2>1. ASSUME NEW u \in Seq(Seq(B)), Len(u) = 0
        PROVE  Good(u)
    <3>1. u = <<>>
      BY <2>1, EmptySeq
    <3>2. s \o <<>> = s /\ FlattenSeq(s) \o <<>> = FlattenSeq(s) /\ <<>> \in Seq(B)
      BY <1>0, ConcatEmptySeq, EmptySeq
    <3>3. FlattenSeq(<<>>) = <<>>
      BY FlattenFew
    <3>4. QED
      BY <3>1, <3>2, <3>3
  <2>2. QED
    BY <2>1
<1>2. ASSUME NEW n \in Nat, n \in T
      PROVE  n + 1 \in T
  <2>1. ASSUME NEW u \in Seq(Seq(B)), Len(u) = n + 1
        PROVE  Good(u)
    <3>1. u # <<>>
      BY <2>1, EmptySeq
    <3>2. PICK v \in Seq(Seq(B)), e \in Seq(B) : u = Append(v, e)
      BY <3>1, SequenceEmptyOrAppend
    <3>3. Len(u) = Len(v) + 1 /\ Len(v) \in Nat
      BY <3>2, AppendProperties, LenProperties
    <3>4. Len(v) = n
      BY <2>1, <3>3
    <3>5. FlattenSeq(v) \in Seq(B) /\ FlattenSeq(s \o v) = FlattenSeq(s) \o FlattenSeq(v)
      BY <1>2, <3>4
    <3>6. s \o v \in Seq(Seq(B)) /\ s \o Append(v, e) = Append(s \o v, e)
      OBVIOUS
    <3>7. FlattenSeq(Append(v, e)) = FlattenSeq(v) \o e
      BY FlattenAppend
    <3>8. FlattenSeq(Append(s \o v, e)) = FlattenSeq(s \o v) \o e
      BY <3>6, FlattenAppend
    <3> DEFINE a == FlattenSeq(s)
               b == FlattenSeq(v)
    <3>9. a \in Seq(B) /\ b \in Seq(B)
      BY <1>0, <3>5
    <3> HIDE DEF a, b
    <3>10. b \o e \in Seq(B) /\ (a \o b) \o e = a \o (b \o e)
      BY <3>9
    <3>11. QED
      BY <3>2, <3>5, <3>6, <3>7, <3>8, <3>10 DEF a, b
  <2> HIDE DEF Good
  <2>2. QED
    BY <2>1
<1>3. Nat \subseteq T
  <2> HIDE DEF T
  <2>1. QED
    BY <1>1, <1>2, NaturalsIn
<1>4. ASSUME NEW u \in Seq(Seq(B))
      PROVE  Good(u)
  <2>1. Len(u) \in T
    BY <1>3, LenProperties
  <2> HIDE DEF Good
  <2>2. QED
    BY <2>1
<1>5. QED
  BY <1>4

-----------------------------------------------------------------------------
\* Products and division.

\* A product with a sum.
LEMMA Distribute ==
  ASSUME NEW a \in Int, NEW b \in Int, NEW m \in Int
  PROVE  (a + b) * m = a * m + b * m
  OBVIOUS

\* Multiples grow with their factor.
LEMMA Multiples ==
  ASSUME NEW m \in Nat \ {0}, NEW j \in Int, NEW k \in Int
  PROVE  /\ k * m \in Int /\ 0 * m = 0 /\ (k + 1) * m = k * m + m /\ (k - 1) * m = k * m - m
         /\ j <= k => j * m <= k * m
         /\ j < k => j * m + m <= k * m
         /\ k \in Nat => k * m \in Nat
  <1>1. k * m \in Int /\ j * m \in Int /\ 0 * m = 0
    OBVIOUS
  <1>2. (k + 1) * m = k * m + m /\ (k - 1) * m = k * m - m
    OBVIOUS
  <1>3. j <= k => j * m <= k * m
    OBVIOUS
  <1>4. j < k => j * m + m <= k * m
    <2>1. j < k => j + 1 <= k
      OBVIOUS
    <2>2. j + 1 <= k => (j + 1) * m <= k * m
      OBVIOUS
    <2>3. (j + 1) * m = j * m + m
      OBVIOUS
    <2>4. QED
      BY <2>1, <2>2, <2>3
  <1>5. k \in Nat => k * m \in Nat
    OBVIOUS
  <1>6. QED
    BY <1>1, <1>2, <1>3, <1>4, <1>5

\* Quotient and remainder are what they multiply back to.
LEMMA DivisionIs ==
  ASSUME NEW m \in Nat \ {0}, NEW k \in Int, NEW r \in 0 .. m - 1
  PROVE  (k * m + r) \div m = k /\ (k * m + r) % m = r
  <1> DEFINE y == k * m + r
             d == y \div m
             e == y % m
  <1>1. k * m \in Int /\ y \in Int
    BY Multiples
  <1>2. d \in Int /\ e \in 0 .. m - 1 /\ y = m * d + e
    BY <1>1, DivMod
  <1>3. y = d * m + e
    BY <1>2
  <1>4. k * m + r = d * m + e /\ d * m \in Int
    BY <1>2, <1>3, Multiples
  <1> HIDE DEF d, e, y
  <1>5. ~(k < d)
    <2>1. k < d => k * m + m <= d * m
      BY <1>2, Multiples
    <2>2. QED
      BY <1>1, <1>2, <1>4, <2>1
  <1>6. ~(d < k)
    <2>1. d < k => d * m + m <= k * m
      BY <1>2, Multiples
    <2>2. QED
      BY <1>1, <1>2, <1>4, <2>1
  <1>7. k = d
    BY <1>2, <1>5, <1>6
  <1>8. r = e
    BY <1>1, <1>2, <1>4, <1>7
  <1>9. QED
    BY <1>7, <1>8 DEF d, e, y

-----------------------------------------------------------------------------
\* Folds over the places of a list.

\* The last element of 1 .. k, which a fold over 1 .. k takes first.
LEMMA LastPlace ==
  ASSUME NEW k \in Nat
  PROVE  /\ k # 0 => 1 .. k # {} /\ Max(1 .. k) = k /\ (1 .. k) \ {k} = 1 .. k - 1
         /\ \A d \in SUBSET (1 .. k) : d # {} => Max(d) \in d
  <1>1. ASSUME NEW d \in SUBSET (1 .. k), d # {}
        PROVE  \E x \in d : \A y \in d : x >= y
    <2> DEFINE T == {k - x : x \in d}
    <2>1. T \subseteq Nat /\ T # {}
      <3>1. \A x \in d : x \in 1 .. k
        BY <1>1
      <3>2. \A x \in 1 .. k : k - x \in Nat
        OBVIOUS
      <3>3. QED
        BY <1>1, <3>1, <3>2
    <2> HIDE DEF T
    <2>2. PICK t \in T : \A u \in T : t <= u
      BY <2>1, LeastNatural
    <2>3. PICK x \in d : t = k - x
      BY <2>2 DEF T
    <2>4. \A y \in d : k - y \in T
      BY DEF T
    <2>5. \A y \in d : x >= y
      BY <2>2, <2>3, <2>4
    <2>6. QED
      BY <2>5
  <1>2. ASSUME NEW d \in SUBSET (1 .. k), d # {}
        PROVE  Max(d) \in d /\ \A y \in d : Max(d) >= y
    BY <1>1, <1>2 DEF Max
  <1>3. ASSUME k # 0
        PROVE  1 .. k # {} /\ Max(1 .. k) = k /\ (1 .. k) \ {k} = 1 .. k - 1
    <2>1. k \in 1 .. k
      BY <1>3
    <2>2. Max(1 .. k) \in 1 .. k /\ Max(1 .. k) >= k
      BY <1>2, <2>1
    <2>3. Max(1 .. k) = k
      BY <2>2
    <2>4. (1 .. k) \ {k} = 1 .. k - 1
      OBVIOUS
    <2>5. QED
      BY <2>1, <2>3, <2>4
  <1>4. QED
    BY <1>2, <1>3

\* A fold over the places of a list is defined, when its steps stay in a set V.
LEMMA FoldExists ==
  ASSUME NEW q \in Nat, NEW V, NEW b \in V, NEW step \in [(1 .. q) \X V -> V]
  PROVE  \E g \in [SUBSET (1 .. q) -> V] :
           \A d \in SUBSET (1 .. q) :
             /\ g[d] = IF d = {} THEN b ELSE step[<<Max(d), g[d \ {Max(d)}]>>]
             /\ d # {} => Max(d) \in 1 .. q
<1> DEFINE D == 1 .. q
           pick == [d \in SUBSET D |-> Max(d)]
<1>1. IsFiniteSet(D)
  BY FS_Interval
<1>2. Picks(pick, D)
  BY LastPlace DEF Picks
<1>3. \A d \in SUBSET D : pick[d] = Max(d)
  OBVIOUS
<1>4. step \in [D \X V -> V]
  OBVIOUS
<1> HIDE DEF pick, D
<1>5. PICK g \in [SUBSET D -> V] : Folded(g, b, step, pick, D)
  BY <1>1, <1>2, <1>4, SubsetRecursion, Zenon
<1>6. \A d \in SUBSET D : g[d] = IF d = {} THEN b ELSE step[<<Max(d), g[d \ {Max(d)}]>>]
  BY <1>3, <1>5 DEF Folded
<1>7. \A d \in SUBSET D : d # {} => Max(d) \in D
  BY <1>2, <1>3 DEF Picks
<1>8. QED
  BY <1>5, <1>6, <1>7 DEF D

-----------------------------------------------------------------------------
\* Powers.

\* f holds the powers of b.
PowersOf(f, b) == f = [n \in Nat |-> IF n = 0 THEN 1 ELSE b * f[n - 1]]

\* The powers of a number exist.
LEMMA PowersExist ==
  ASSUME NEW b \in Nat
  PROVE  \E f : PowersOf(f, b)
<1> DEFINE Upto(g, n) == g[0] = 1 /\ \A k \in 1 .. n : g[k] = b * g[k - 1]
           T == {n \in Nat : \E g \in [0 .. n -> Nat] : Upto(g, n)}
<1>1. 0 \in T
  <2>1. [k \in 0 .. 0 |-> 1] \in [0 .. 0 -> Nat] /\ Upto([k \in 0 .. 0 |-> 1], 0)
    OBVIOUS
  <2>2. QED
    BY <2>1
<1>2. ASSUME NEW n \in Nat, n \in T PROVE n + 1 \in T
  <2>1. PICK g \in [0 .. n -> Nat] : Upto(g, n)
    BY <1>2
  <2> DEFINE h == [k \in 0 .. n + 1 |-> IF k = n + 1 THEN b * g[n] ELSE g[k]]
  <2>2. h \in [0 .. n + 1 -> Nat] /\ h[0] = 1
    BY <2>1
  <2>3. ASSUME NEW k \in 1 .. n + 1 PROVE h[k] = b * h[k - 1]
    <3>1. CASE k = n + 1
      <4>1. h[n + 1] = b * g[n] /\ h[n] = g[n] /\ k - 1 = n
        BY <3>1
      <4>2. QED
        BY <3>1, <4>1
    <3>2. CASE k # n + 1
      <4>1. k \in 1 .. n /\ k - 1 \in 0 .. n + 1 /\ k - 1 # n + 1 /\ k \in 0 .. n + 1
        BY <3>2
      <4>2. h[k] = g[k] /\ h[k - 1] = g[k - 1]
        BY <4>1, <3>2
      <4>3. QED
        BY <4>1, <4>2, <2>1
    <3>3. QED
      BY <3>1, <3>2
  <2> HIDE DEF h
  <2>4. Upto(h, n + 1) /\ n + 1 \in Nat
    <3>1. \A k \in 1 .. n + 1 : h[k] = b * h[k - 1]
      BY <2>3
    <3>2. QED
      BY <2>2, <3>1
  <2> HIDE DEF Upto
  <2>5. QED
    BY <2>2, <2>4
<1> HIDE DEF T
<1>3. Nat \subseteq T
  BY <1>1, <1>2, NaturalsIn
<1>4. \A n \in Nat : \E g \in [0 .. n -> Nat] : Upto(g, n)
  BY <1>3 DEF T
<1> DEFINE G == [n \in Nat |-> CHOOSE g \in [0 .. n -> Nat] : Upto(g, n)]
           f == [n \in Nat |-> G[n][n]]
<1>5. \A n \in Nat : G[n] \in [0 .. n -> Nat] /\ Upto(G[n], n)
  <2> HIDE DEF Upto
  <2>1. QED
    BY <1>4
<1> HIDE DEF G
<1>6. ASSUME NEW n \in Nat PROVE \A k \in 0 .. n : G[n + 1][k] = G[n][k]
  <2> DEFINE S == {k \in Nat : k <= n => G[n + 1][k] = G[n][k]}
  <2>1. 0 \in S
    BY <1>5
  <2>2. ASSUME NEW k \in Nat, k \in S PROVE k + 1 \in S
    <3>1. SUFFICES ASSUME k + 1 <= n PROVE G[n + 1][k + 1] = G[n][k + 1]
      OBVIOUS
    <3>2. k + 1 \in 1 .. n /\ k + 1 \in 1 .. n + 1 /\ (k + 1) - 1 = k /\ k <= n
      BY <3>1
    <3>3. G[n + 1][k] = G[n][k]
      BY <2>2, <3>2
    <3>4. G[n + 1][k + 1] = b * G[n + 1][(k + 1) - 1] /\ G[n][k + 1] = b * G[n][(k + 1) - 1]
      BY <1>5, <3>2
    <3>5. QED
      BY <3>2, <3>3, <3>4
  <2> HIDE DEF S
  <2>3. Nat \subseteq S
    BY <2>1, <2>2, NaturalsIn
  <2>4. QED
    BY <2>3 DEF S
<1>7. f[0] = 1
  BY <1>5
<1>8. ASSUME NEW n \in Nat \ {0} PROVE f[n] = b * f[n - 1]
  <2>1. n - 1 \in Nat /\ (n - 1) + 1 = n /\ n \in 1 .. n /\ n - 1 \in 0 .. n - 1
    OBVIOUS
  <2>2. G[n][n] = b * G[n][n - 1]
    BY <1>5, <2>1
  <2>3. G[n][n - 1] = G[n - 1][n - 1]
    BY <1>6, <2>1
  <2>4. QED
    BY <2>1, <2>2, <2>3
<1>9. f = [n \in Nat |-> IF n = 0 THEN 1 ELSE b * f[n - 1]]
  <2>1. \A n \in Nat : f[n] = IF n = 0 THEN 1 ELSE b * f[n - 1]
    BY <1>7, <1>8
  <2>2. f = [n \in Nat |-> f[n]]
    OBVIOUS
  <2> HIDE DEF f
  <2>3. QED
    BY <2>1, <2>2
<1> HIDE DEF f
<1>10. QED
  BY <1>9 DEF PowersOf

\* The powers of a number that is not zero, one by one.
LEMMA PowersStep ==
  ASSUME NEW b \in Nat \ {0}, NEW f, PowersOf(f, b)
  PROVE  f[0] = 1 /\ \A n \in Nat : f[n] \in Nat \ {0} /\ f[n + 1] = b * f[n]
<1>0. \A n \in Nat : f[n] = IF n = 0 THEN 1 ELSE b * f[n - 1]
  BY DEF PowersOf
<1>1. f[0] = 1
  BY <1>0
<1>2. ASSUME NEW n \in Nat PROVE f[n + 1] = b * f[n]
  <2>1. n + 1 \in Nat /\ n + 1 # 0 /\ (n + 1) - 1 = n
    OBVIOUS
  <2>2. QED
    BY <1>0, <2>1
<1> DEFINE T == {n \in Nat : f[n] \in Nat \ {0}}
<1>3. 0 \in T
  BY <1>1
<1>4. ASSUME NEW n \in Nat, n \in T PROVE n + 1 \in T
  <2>1. f[n] \in Nat /\ f[n] > 0
    BY <1>4
  <2>2. b * f[n] \in Nat /\ b * f[n] > 0
    BY <2>1
  <2>3. QED
    BY <1>2, <2>2
<1> HIDE DEF T
<1>5. Nat \subseteq T
  BY <1>3, <1>4, NaturalsIn
<1>6. QED
  BY <1>1, <1>2, <1>5 DEF T

\* Powers with a sum of exponents.
LEMMA PowersMultiply ==
  ASSUME NEW b \in Nat \ {0}, NEW f, PowersOf(f, b), NEW m \in Nat, NEW n \in Nat
  PROVE  f[m + n] = f[m] * f[n]
<1> DEFINE T == {k \in Nat : f[m + k] = f[m] * f[k]}
<1>0. f[0] = 1 /\ \A k \in Nat : f[k] \in Nat /\ f[k + 1] = b * f[k]
  BY PowersStep
<1>1. 0 \in T
  <2>1. m + 0 = m /\ f[m] * 1 = f[m]
    BY <1>0
  <2>2. QED
    BY <1>0, <2>1
<1>2. ASSUME NEW k \in Nat, k \in T PROVE k + 1 \in T
  <2>1. m + (k + 1) = (m + k) + 1 /\ m + k \in Nat
    OBVIOUS
  <2>2. f[m + (k + 1)] = b * (f[m] * f[k])
    BY <1>0, <1>2, <2>1
  <2>3. f[k + 1] = b * f[k] /\ f[m] \in Nat /\ f[k] \in Nat
    BY <1>0
  <2>4. \A x, y \in Nat : b * (x * y) = x * (b * y)
    OBVIOUS
  <2>5. f[m + (k + 1)] = f[m] * f[k + 1]
    BY <2>2, <2>3, <2>4
  <2>6. QED
    BY <2>5
<1> HIDE DEF T
<1>3. Nat \subseteq T
  BY <1>1, <1>2, NaturalsIn
<1>4. QED
  BY <1>3 DEF T

\* A product of larger factors is larger.
LEMMA ProductsGrow ==
  ASSUME NEW a \in Nat, NEW b \in Nat, NEW c \in Nat, NEW d \in Nat, a <= b, c <= d
  PROVE  a * c <= b * d /\ a * c \in Nat /\ b * d \in Nat
<1>1. PICK e \in Nat : b = a + e
  <2>1. b - a \in Nat /\ b = a + (b - a)
    OBVIOUS
  <2>2. QED
    BY <2>1
<1>2. PICK g \in Nat : d = c + g
  <2>1. d - c \in Nat /\ d = c + (d - c)
    OBVIOUS
  <2>2. QED
    BY <2>1
<1>3. (a + e) * (c + g) = a * c + (a * g + (e * c + e * g))
  OBVIOUS
<1>4. a * c \in Nat /\ a * g \in Nat /\ e * c \in Nat /\ e * g \in Nat
  OBVIOUS
<1> DEFINE r == a * g + (e * c + e * g)
           p == a * c
<1>5. r \in Nat /\ p \in Nat
  BY <1>4
<1>6. b * d = p + r
  BY <1>1, <1>2, <1>3
<1> HIDE DEF r, p
<1>7. p <= b * d /\ b * d \in Nat
  BY <1>5, <1>6
<1>8. QED
  BY <1>5, <1>7 DEF p

\* The powers of a number above one grow.
LEMMA PowersGrow ==
  ASSUME NEW b \in Nat \ {0, 1}, NEW f, PowersOf(f, b), NEW m \in Nat, NEW n \in Nat, m < n
  PROVE  f[m] < f[n]
<1> DEFINE T == {k \in Nat : f[m] < f[(m + 1) + k]}
<1>0. \A k \in Nat : f[k] \in Nat \ {0} /\ f[k + 1] = b * f[k]
  BY PowersStep
<1>1. \A x \in Nat \ {0} : x < b * x /\ b * x \in Nat
  <2>1. TAKE x \in Nat \ {0}
  <2>2. 2 \in Nat /\ 2 <= b /\ x <= x /\ b \in Nat /\ x \in Nat
    OBVIOUS
  <2>3. 2 * x <= b * x /\ b * x \in Nat
    BY <2>2, ProductsGrow
  <2>4. QED
    BY <2>3
<1>2. 0 \in T
  <2>1. (m + 1) + 0 = m + 1
    OBVIOUS
  <2>2. f[m] < f[m + 1]
    BY <1>0, <1>1
  <2>3. QED
    BY <2>1, <2>2
<1>3. ASSUME NEW k \in Nat, k \in T PROVE k + 1 \in T
  <2>1. (m + 1) + (k + 1) = ((m + 1) + k) + 1 /\ (m + 1) + k \in Nat
    OBVIOUS
  <2>2. f[(m + 1) + k] < f[((m + 1) + k) + 1]
    BY <1>0, <1>1, <2>1
  <2>3. f[m] < f[(m + 1) + k] /\ f[m] \in Nat /\ f[(m + 1) + k] \in Nat /\ f[((m + 1) + k) + 1] \in Nat
    BY <1>0, <1>3, <2>1
  <2>4. f[m] < f[(m + 1) + (k + 1)]
    BY <2>1, <2>2, <2>3
  <2>5. QED
    BY <2>4
<1> HIDE DEF T
<1>4. Nat \subseteq T
  BY <1>2, <1>3, NaturalsIn
<1>5. n - (m + 1) \in T /\ (m + 1) + (n - (m + 1)) = n
  BY <1>4
<1>6. QED
  BY <1>5 DEF T

\* Powers that compare go on to compare when both are raised.
LEMMA PowersCompare ==
  ASSUME NEW b \in Nat \ {0}, NEW f, PowersOf(f, b), NEW c \in Nat \ {0}, NEW g, PowersOf(g, c),
         NEW x \in Nat, NEW y \in Nat, f[x] <= g[y], NEW n \in Nat
  PROVE  f[x * n] <= g[y * n]
<1> DEFINE T == {k \in Nat : f[x * k] <= g[y * k]}
<1>0. f[0] = 1 /\ g[0] = 1 /\ \A k \in Nat : f[k] \in Nat /\ g[k] \in Nat
  BY PowersStep
<1>1. 0 \in T
  <2>1. x * 0 = 0 /\ y * 0 = 0
    OBVIOUS
  <2>2. QED
    BY <1>0, <2>1
<1>2. ASSUME NEW k \in Nat, k \in T PROVE k + 1 \in T
  <2> DEFINE p == x * k
             q == y * k
  <2>1. p \in Nat /\ q \in Nat /\ x * (k + 1) = p + x /\ y * (k + 1) = q + y /\ f[p] <= g[q]
    BY <1>2
  <2> HIDE DEF p, q
  <2>2. f[p + x] = f[p] * f[x] /\ g[q + y] = g[q] * g[y]
    BY <2>1, PowersMultiply
  <2>3. f[p] * f[x] <= g[q] * g[y]
    BY <1>0, <2>1, ProductsGrow
  <2>4. f[x * (k + 1)] <= g[y * (k + 1)]
    BY <2>1, <2>2, <2>3
  <2>5. QED
    BY <2>4
<1> HIDE DEF T
<1>3. Nat \subseteq T
  BY <1>1, <1>2, NaturalsIn
<1>4. QED
  BY <1>3 DEF T
=============================================================================
