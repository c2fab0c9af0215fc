----------------------------- MODULE SumTheorems -----------------------------
(* What the proofs need of sums over finite sets. The library folds a set by  *)
(* choosing its elements one after another; that the sum is the same whatever *)
(* was chosen first is shown here, each time by a smallest set for which it   *)
(* would fail: the library's induction takes an operator, which the provers   *)
(* cannot be given.                                                           *)
EXTENDS Sums, FiniteSetTheorems, WellFoundedInduction, TLAPS

\* A nonempty set of numbers has a least one.
LEMMA LeastNumber ==
  ASSUME NEW S, S \subseteq Nat, S # {}
  PROVE  \E n \in S : \A m \in S : n <= m
PROOF
<1> DEFINE Below == OpToRel(<, Nat)
<1>1. IsWellFoundedOn(Below, Nat)
  BY NatLessThanWellFounded
<1>2. \A m, n \in Nat : m < n => <<m, n>> \in Below
  BY DEF OpToRel
<1> HIDE DEF Below
<1>3. PICK n \in S : \A m \in S : ~(<<m, n>> \in Below)
  BY <1>1, WFMin
<1>4. \A m \in S : ~(m < n)
  BY <1>2, <1>3
<1> QED BY <1>3, <1>4

\* Of some finite sets, one is among the smallest; so a fact about finite sets
\* holds of all if there is no smallest one it fails for.
LEMMA SmallestSet ==
  ASSUME NEW Bad, Bad # {}, \A T \in Bad : IsFiniteSet(T)
  PROVE  \E T \in Bad : \A U \in Bad : Cardinality(T) <= Cardinality(U)
PROOF
<1> DEFINE Sizes == {Cardinality(T) : T \in Bad}
<1>1. Sizes \subseteq Nat /\ Sizes # {}
  BY FS_CardinalityType
<1>2. PICK n \in Sizes : \A m \in Sizes : n <= m
  BY <1>1, LeastNumber
<1> QED BY <1>2

\* A set that is not empty, without the element chosen of it, is smaller.
ChosenOf(s) == CHOOSE x \in s : TRUE
LeftOf(s) == s \ {ChosenOf(s)}
LEMMA WithoutChosen ==
  ASSUME NEW s, IsFiniteSet(s), s # {}
  PROVE  /\ ChosenOf(s) \in s /\ IsFiniteSet(LeftOf(s)) /\ LeftOf(s) \subseteq s
         /\ Cardinality(s) \in Nat /\ Cardinality(LeftOf(s)) \in Nat /\ Cardinality(LeftOf(s)) = Cardinality(s) - 1
PROOF
<1>1. ChosenOf(s) \in s
  BY DEF ChosenOf
<1>2. IsFiniteSet(LeftOf(s)) /\ Cardinality(LeftOf(s)) = Cardinality(s) - 1
  BY <1>1, FS_RemoveElement DEF LeftOf
<1> QED BY <1>1, <1>2, FS_CardinalityType DEF LeftOf

\* The function by which the library's fold goes through the subsets of S.
Adding(f, it, s) == IF s = {} THEN 0 ELSE f[ChosenOf(s)] + it[LeftOf(s)]
Adds(f, S, it) == it = [s \in SUBSET S |-> Adding(f, it, s)]

LEMMA SumIsFold ==
  ASSUME NEW f, NEW S
  PROVE  SumOf(f, S) = (CHOOSE it : Adds(f, S, it))[S]
PROOF BY DEF SumOf, MapThenSumSet, MapThenFoldSet, Adds, Adding, ChosenOf, LeftOf

\* There is such a function: up to each size, one that is right up to it.
LEMMA FoldExists ==
  ASSUME NEW f, NEW S, IsFiniteSet(S)
  PROVE  \E it : Adds(f, S, it)
PROOF
<1> DEFINE UpTo(n, g) == \A s \in SUBSET S : Cardinality(s) <= n => g[s] = Adding(f, g, s)
           Bad == {n \in Nat : ~(\E g : UpTo(n, g))}
<1>f. \A s \in SUBSET S : IsFiniteSet(s) /\ Cardinality(s) \in Nat
  BY FS_Subset, FS_CardinalityType
<1>r. ASSUME NEW s \in SUBSET S, s # {}
      PROVE  LeftOf(s) \in SUBSET S /\ Cardinality(LeftOf(s)) = Cardinality(s) - 1 /\ Cardinality(s) # 0
  <2>1. LeftOf(s) \subseteq s /\ Cardinality(LeftOf(s)) = Cardinality(s) - 1 /\ Cardinality(LeftOf(s)) \in Nat
    BY <1>f, <1>r, WithoutChosen
  <2> QED BY <2>1, <1>f
<1>1. Bad = {}
  <2> SUFFICES ASSUME Bad # {} PROVE FALSE
    OBVIOUS
  <2>1. PICK n \in Bad : \A m \in Bad : n <= m
    BY LeastNumber
  <2>2. n # 0
    <3> DEFINE z == [s \in SUBSET S |-> 0]
    <3>1. ASSUME NEW s \in SUBSET S, Cardinality(s) <= 0 PROVE z[s] = Adding(f, z, s)
      <4>1. s = {}
        BY <3>1, <1>r, <1>f
      <4> QED BY <4>1 DEF Adding
    <3>2. UpTo(0, z)
      BY <3>1
    <3> QED BY <3>2
  <2>3. PICK g : UpTo(n - 1, g)
    BY <2>1, <2>2
  <2> DEFINE h == [s \in SUBSET S |-> IF Cardinality(s) <= n - 1 THEN g[s] ELSE f[ChosenOf(s)] + g[LeftOf(s)]]
  <2>4. ASSUME NEW s \in SUBSET S, Cardinality(s) <= n PROVE h[s] = Adding(f, h, s)
    <3>1. CASE s = {}
      <4>1. Cardinality(s) = 0 /\ n - 1 >= 0
        BY <3>1, <2>2, FS_EmptySet
      <4>2. h[s] = g[s] /\ g[s] = Adding(f, g, s)
        BY <4>1, <2>3
      <4> QED BY <4>2, <3>1 DEF Adding
    <3>2. CASE s # {}
      <4>1. LeftOf(s) \in SUBSET S /\ Cardinality(LeftOf(s)) = Cardinality(s) - 1 /\ Cardinality(s) \in Nat
        BY <3>2, <1>r, <1>f
      <4>2. Cardinality(LeftOf(s)) <= n - 1
        BY <4>1, <2>4
      <4>3. h[LeftOf(s)] = g[LeftOf(s)]
        BY <4>1, <4>2
      <4>4. h[s] = f[ChosenOf(s)] + g[LeftOf(s)]
        <5>1. CASE Cardinality(s) <= n - 1
          <6>1. g[s] = Adding(f, g, s)
            BY <5>1, <2>3
          <6> QED BY <5>1, <6>1, <3>2 DEF Adding
        <5>2. CASE ~(Cardinality(s) <= n - 1)
          BY <5>2
        <5> QED BY <5>1, <5>2
      <4> QED BY <4>3, <4>4, <3>2 DEF Adding
    <3> QED BY <3>1, <3>2
  <2> HIDE DEF h
  <2>5. UpTo(n, h)
    BY <2>4
  <2> QED BY <2>1, <2>5
<1>2. Cardinality(S) \in Nat
  BY <1>f
<1>3. PICK g : UpTo(Cardinality(S), g)
  BY <1>1, <1>2
<1> DEFINE it == [s \in SUBSET S |-> g[s]]
<1>4. ASSUME NEW s \in SUBSET S PROVE it[s] = Adding(f, it, s)
  <2>1. Cardinality(s) <= Cardinality(S)
    BY FS_Subset
  <2>2. g[s] = Adding(f, g, s)
    BY <2>1, <1>3
  <2> QED BY <2>2, <1>r DEF Adding
<1>5. it = [s \in SUBSET S |-> Adding(f, it, s)]
  BY <1>4
<1> QED BY <1>5 DEF Adds

\* The function for a set gives, for its subsets, what theirs would.
LEMMA FoldOfSubset ==
  ASSUME NEW f, NEW S, IsFiniteSet(S), NEW T \in SUBSET S, NEW it, NEW jt, Adds(f, S, it), Adds(f, T, jt)
  PROVE  it[T] = jt[T]
PROOF
<1> DEFINE Bad == {s \in SUBSET T : it[s] # jt[s]}
<1>i. \A s \in SUBSET S : it[s] = Adding(f, it, s)
  BY DEF Adds
<1>j. \A s \in SUBSET T : jt[s] = Adding(f, jt, s)
  BY DEF Adds
<1>f. \A s \in SUBSET S : IsFiniteSet(s) /\ Cardinality(s) \in Nat
  BY FS_Subset, FS_CardinalityType
<1>1. Bad = {}
  <2> SUFFICES ASSUME Bad # {} PROVE FALSE
    OBVIOUS
  <2>1. PICK s \in Bad : \A u \in Bad : Cardinality(s) <= Cardinality(u)
    BY <1>f, SmallestSet
  <2>2. s \in SUBSET T /\ s \in SUBSET S /\ it[s] # jt[s]
    OBVIOUS
  <2>3. s # {}
    BY <2>2, <1>i, <1>j DEF Adding
  <2>4. LeftOf(s) \subseteq s /\ Cardinality(LeftOf(s)) = Cardinality(s) - 1 /\ Cardinality(s) \in Nat
    BY <2>2, <2>3, <1>f, WithoutChosen
  <2>5. LeftOf(s) \notin Bad
    BY <2>1, <2>4
  <2>6. it[LeftOf(s)] = jt[LeftOf(s)]
    BY <2>2, <2>4, <2>5
  <2> QED BY <2>2, <2>3, <2>6, <1>i, <1>j DEF Adding
<1> QED BY <1>1

\* So a sum is what its own function says: the chosen element and the rest.
LEMMA SumByChoice ==
  ASSUME NEW f, NEW S, IsFiniteSet(S)
  PROVE  SumOf(f, S) = IF S = {} THEN 0 ELSE f[ChosenOf(S)] + SumOf(f, LeftOf(S))
PROOF
<1> DEFINE it == CHOOSE i : Adds(f, S, i)
           jt == CHOOSE j : Adds(f, LeftOf(S), j)
<1>1. Adds(f, S, it)
  BY FoldExists
<1>2. it[S] = Adding(f, it, S)
  BY <1>1 DEF Adds
<1>3. SumOf(f, S) = it[S]
  BY SumIsFold
<1>4. CASE S = {}
  BY <1>2, <1>3, <1>4 DEF Adding
<1>5. CASE S # {}
  <2>1. IsFiniteSet(LeftOf(S)) /\ LeftOf(S) \in SUBSET S
    BY <1>5, WithoutChosen
  <2>2. Adds(f, LeftOf(S), jt)
    BY <2>1, FoldExists
  <2>3. SumOf(f, LeftOf(S)) = jt[LeftOf(S)]
    BY SumIsFold
  <2>4. it[LeftOf(S)] = jt[LeftOf(S)]
    <3> HIDE DEF it, jt
    <3> QED BY <1>1, <2>1, <2>2, FoldOfSubset
  <2> HIDE DEF it, jt
  <2> QED BY <1>2, <1>3, <1>5, <2>3, <2>4 DEF Adding
<1> QED BY <1>4, <1>5

LEMMA SumEmpty == \A f : SumOf(f, {}) = 0
PROOF BY SumByChoice, FS_EmptySet

LEMMA SumIsInt ==
  ASSUME NEW f, NEW S, IsFiniteSet(S), \A x \in S : f[x] \in Int
  PROVE  SumOf(f, S) \in Int
PROOF
<1> DEFINE Bad == {T \in SUBSET S : SumOf(f, T) \notin Int}
<1>f. \A T \in SUBSET S : IsFiniteSet(T) /\ Cardinality(T) \in Nat
  BY FS_Subset, FS_CardinalityType
<1>1. Bad = {}
  <2> SUFFICES ASSUME Bad # {} PROVE FALSE
    OBVIOUS
  <2>1. PICK T \in Bad : \A U \in Bad : Cardinality(T) <= Cardinality(U)
    BY <1>f, SmallestSet
  <2>2. T \in SUBSET S /\ SumOf(f, T) \notin Int
    OBVIOUS
  <2>3. SumOf(f, T) = IF T = {} THEN 0 ELSE f[ChosenOf(T)] + SumOf(f, LeftOf(T))
    BY <2>2, <1>f, SumByChoice
  <2>4. T # {}
    BY <2>2, <2>3
  <2>5. ChosenOf(T) \in T /\ LeftOf(T) \subseteq T /\ Cardinality(LeftOf(T)) = Cardinality(T) - 1 /\ Cardinality(T) \in Nat
    BY <2>2, <2>4, <1>f, WithoutChosen
  <2>6. LeftOf(T) \notin Bad
    BY <2>1, <2>5
  <2>7. SumOf(f, LeftOf(T)) \in Int /\ f[ChosenOf(T)] \in Int
    BY <2>2, <2>5, <2>6
  <2> QED BY <2>2, <2>3, <2>4, <2>7
<1> QED BY <1>1

\* Any element may be taken out of the sum, not only the one chosen.
LEMMA SumWithout ==
  ASSUME NEW f, NEW S, IsFiniteSet(S), \A y \in S : f[y] \in Int, NEW x \in S
  PROVE  SumOf(f, S) = f[x] + SumOf(f, S \ {x})
PROOF
<1> DEFINE Bad == {T \in SUBSET S : \E y \in T : SumOf(f, T) # f[y] + SumOf(f, T \ {y})}
<1>f. \A T \in SUBSET S : IsFiniteSet(T) /\ Cardinality(T) \in Nat
  BY FS_Subset, FS_CardinalityType
<1>i. \A T \in SUBSET S : SumOf(f, T) \in Int
  BY <1>f, SumIsInt
<1>1. Bad = {}
  <2> SUFFICES ASSUME Bad # {} PROVE FALSE
    OBVIOUS
  <2>1. PICK T \in Bad : \A U \in Bad : Cardinality(T) <= Cardinality(U)
    BY <1>f, SmallestSet
  <2>2. PICK y \in T : SumOf(f, T) # f[y] + SumOf(f, T \ {y})
    OBVIOUS
  <2> DEFINE z == ChosenOf(T)
  <2>3. T \in SUBSET S /\ T # {}
    OBVIOUS
  <2>4. z \in T /\ LeftOf(T) = T \ {z} /\ Cardinality(T \ {z}) = Cardinality(T) - 1 /\ Cardinality(T) \in Nat
    BY <2>3, <1>f, WithoutChosen DEF LeftOf
  <2>5. SumOf(f, T) = f[z] + SumOf(f, T \ {z})
    BY <2>3, <2>4, <1>f, SumByChoice
  <2> HIDE DEF z
  <2>6. y # z
    BY <2>2, <2>5
  <2>7. Cardinality(T \ {y}) = Cardinality(T) - 1
    BY <2>3, <1>f, FS_RemoveElement
  <2>8. T \ {z} \notin Bad /\ T \ {y} \notin Bad
    <3>1. ~(Cardinality(T) <= Cardinality(T \ {z})) /\ ~(Cardinality(T) <= Cardinality(T \ {y}))
      BY <2>4, <2>7
    <3> QED BY <2>1, <3>1
  <2>9. SumOf(f, T \ {z}) = f[y] + SumOf(f, (T \ {z}) \ {y})
    BY <2>3, <2>6, <2>8
  <2>10. SumOf(f, T \ {y}) = f[z] + SumOf(f, (T \ {y}) \ {z})
    BY <2>3, <2>4, <2>6, <2>8
  <2>11. SumOf(f, (T \ {z}) \ {y}) = SumOf(f, (T \ {y}) \ {z})
    <3>1. (T \ {z}) \ {y} = (T \ {y}) \ {z}
      OBVIOUS
    <3> QED BY <3>1
  <2>12. SumOf(f, (T \ {y}) \ {z}) \in Int /\ f[y] \in Int /\ f[z] \in Int
    BY <2>3, <2>4, <1>i
  <2> DEFINE a == SumOf(f, T)
             b == SumOf(f, T \ {y})
             c == SumOf(f, T \ {z})
             d == SumOf(f, (T \ {y}) \ {z})
  <2>13. a = f[z] + c /\ c = f[y] + d /\ b = f[z] + d /\ d \in Int /\ a # f[y] + b
    BY <2>2, <2>5, <2>9, <2>10, <2>11, <2>12
  <2> HIDE DEF a, b, c, d
  <2> QED BY <2>12, <2>13
<1> QED BY <1>1

LEMMA SumWith ==
  ASSUME NEW f, NEW S, IsFiniteSet(S), \A y \in S : f[y] \in Int, NEW x, x \notin S, f[x] \in Int
  PROVE  SumOf(f, S \cup {x}) = f[x] + SumOf(f, S)
PROOF
<1>1. IsFiniteSet(S \cup {x}) /\ \A y \in S \cup {x} : f[y] \in Int
  BY FS_AddElement
<1>2. (S \cup {x}) \ {x} = S
  OBVIOUS
<1> QED BY <1>1, <1>2, SumWithout

\* Only what the elements give counts.
LEMMA SumSame ==
  ASSUME NEW f, NEW g, NEW S, IsFiniteSet(S), \A x \in S : f[x] = g[x]
  PROVE  SumOf(f, S) = SumOf(g, S)
PROOF
<1> DEFINE Bad == {T \in SUBSET S : SumOf(f, T) # SumOf(g, T)}
<1>f. \A T \in SUBSET S : IsFiniteSet(T) /\ Cardinality(T) \in Nat
  BY FS_Subset, FS_CardinalityType
<1>1. Bad = {}
  <2> SUFFICES ASSUME Bad # {} PROVE FALSE
    OBVIOUS
  <2>1. PICK T \in Bad : \A U \in Bad : Cardinality(T) <= Cardinality(U)
    BY <1>f, SmallestSet
  <2>2. T \in SUBSET S /\ SumOf(f, T) # SumOf(g, T)
    OBVIOUS
  <2>3. /\ SumOf(f, T) = IF T = {} THEN 0 ELSE f[ChosenOf(T)] + SumOf(f, LeftOf(T))
        /\ SumOf(g, T) = IF T = {} THEN 0 ELSE g[ChosenOf(T)] + SumOf(g, LeftOf(T))
    BY <2>2, <1>f, SumByChoice
  <2>4. T # {}
    BY <2>2, <2>3
  <2>5. ChosenOf(T) \in T /\ LeftOf(T) \subseteq T /\ Cardinality(LeftOf(T)) = Cardinality(T) - 1 /\ Cardinality(T) \in Nat
    BY <2>2, <2>4, <1>f, WithoutChosen
  <2>6. LeftOf(T) \notin Bad
    BY <2>1, <2>5
  <2>7. SumOf(f, LeftOf(T)) = SumOf(g, LeftOf(T)) /\ f[ChosenOf(T)] = g[ChosenOf(T)]
    BY <2>2, <2>5, <2>6
  <2> QED BY <2>2, <2>3, <2>4, <2>7
<1> QED BY <1>1

LEMMA SumIsNat ==
  ASSUME NEW f, NEW S, IsFiniteSet(S), \A x \in S : f[x] \in Nat
  PROVE  SumOf(f, S) \in Nat
PROOF
<1> DEFINE Bad == {T \in SUBSET S : SumOf(f, T) \notin Nat}
<1>f. \A T \in SUBSET S : IsFiniteSet(T) /\ Cardinality(T) \in Nat
  BY FS_Subset, FS_CardinalityType
<1>1. Bad = {}
  <2> SUFFICES ASSUME Bad # {} PROVE FALSE
    OBVIOUS
  <2>1. PICK T \in Bad : \A U \in Bad : Cardinality(T) <= Cardinality(U)
    BY <1>f, SmallestSet
  <2>2. T \in SUBSET S /\ SumOf(f, T) \notin Nat
    OBVIOUS
  <2>3. SumOf(f, T) = IF T = {} THEN 0 ELSE f[ChosenOf(T)] + SumOf(f, LeftOf(T))
    BY <2>2, <1>f, SumByChoice
  <2>4. T # {}
    BY <2>2, <2>3
  <2>5. ChosenOf(T) \in T /\ LeftOf(T) \subseteq T /\ Cardinality(LeftOf(T)) = Cardinality(T) - 1 /\ Cardinality(T) \in Nat
    BY <2>2, <2>4, <1>f, WithoutChosen
  <2>6. LeftOf(T) \notin Bad
    BY <2>1, <2>5
  <2>7. SumOf(f, LeftOf(T)) \in Nat /\ f[ChosenOf(T)] \in Nat
    BY <2>2, <2>5, <2>6
  <2> QED BY <2>2, <2>3, <2>4, <2>7
<1> QED BY <1>1

\* A part of what is not negative.
LEMMA SumOfPart ==
  ASSUME NEW f, NEW S, NEW T, IsFiniteSet(S), T \subseteq S, \A x \in S : f[x] \in Nat
  PROVE  SumOf(f, T) <= SumOf(f, S)
PROOF
<1> DEFINE Bad == {U \in SUBSET S : T \subseteq U /\ ~(SumOf(f, T) <= SumOf(f, U))}
<1>f. \A U \in SUBSET S : IsFiniteSet(U) /\ Cardinality(U) \in Nat
  BY FS_Subset, FS_CardinalityType
<1>i. \A U \in SUBSET S : SumOf(f, U) \in Nat
  BY <1>f, SumIsNat
<1>1. Bad = {}
  <2> SUFFICES ASSUME Bad # {} PROVE FALSE
    OBVIOUS
  <2>1. PICK U \in Bad : \A V \in Bad : Cardinality(U) <= Cardinality(V)
    BY <1>f, SmallestSet
  <2>2. U \in SUBSET S /\ T \subseteq U /\ ~(SumOf(f, T) <= SumOf(f, U))
    OBVIOUS
  <2>3. U # T
    BY <2>2, <1>i
  <2>4. PICK x \in U : x \notin T
    BY <2>2, <2>3
  <2>5. IsFiniteSet(U \ {x}) /\ Cardinality(U \ {x}) = Cardinality(U) - 1 /\ Cardinality(U) \in Nat
    BY <2>2, <2>4, <1>f, FS_RemoveElement
  <2>6. U \ {x} \notin Bad
    BY <2>1, <2>5
  <2>7. SumOf(f, T) <= SumOf(f, U \ {x})
    BY <2>2, <2>4, <2>6
  <2>8. \A y \in U : f[y] \in Int
    BY <2>2
  <2>9. SumOf(f, U) = f[x] + SumOf(f, U \ {x})
    BY <2>2, <2>4, <2>8, <1>f, SumWithout
  <2>10. f[x] \in Nat /\ SumOf(f, U \ {x}) \in Nat /\ SumOf(f, T) \in Nat
    BY <2>2, <2>4, <1>i
  <2> QED BY <2>2, <2>7, <2>9, <2>10
<1>2. S \notin Bad
  BY <1>1
<1> QED BY <1>2

\* What one element adds where it is counted.
share_of(f, S, x) == IF x \in S THEN f[x] ELSE 0

\* One element comes, goes or changes: the sum changes by what it adds.
LEMMA SumMoves ==
  ASSUME NEW f, NEW S, NEW g, NEW T, NEW x, IsFiniteSet(S), IsFiniteSet(T), S \ {x} = T \ {x},
         \A y \in S : f[y] \in Int, \A y \in T : g[y] \in Int, \A y \in S \ {x} : f[y] = g[y]
  PROVE  /\ SumOf(g, T) = SumOf(f, S) - share_of(f, S, x) + share_of(g, T, x)
         /\ SumOf(f, S) \in Int /\ SumOf(g, T) \in Int
PROOF
<1> DEFINE R == S \ {x}
<1>1. IsFiniteSet(R) /\ x \notin R /\ R = T \ {x}
  BY FS_Subset
<1>2. SumOf(f, R) = SumOf(g, R)
  BY <1>1, SumSame
<1>3. SumOf(f, S) \in Int /\ SumOf(g, T) \in Int
  BY SumIsInt
<1>4. SumOf(f, R) \in Int
  <2>1. \A y \in R : f[y] \in Int
    OBVIOUS
  <2> QED BY <1>1, <2>1, SumIsInt
<1>5. SumOf(f, S) = share_of(f, S, x) + SumOf(f, R) /\ share_of(f, S, x) \in Int
  <2>1. CASE x \in S
    BY <2>1, <1>4, SumWithout DEF share_of
  <2>2. CASE x \notin S
    <3>1. R = S
      BY <2>2
    <3> HIDE DEF R
    <3> QED BY <2>2, <3>1, <1>4 DEF share_of
  <2> QED BY <2>1, <2>2
<1>6. SumOf(g, T) = share_of(g, T, x) + SumOf(g, R) /\ share_of(g, T, x) \in Int
  <2>1. CASE x \in T
    BY <2>1, <1>1, <1>4, SumWithout DEF share_of
  <2>2. CASE x \notin T
    <3>1. R = T
      BY <2>2, <1>1
    <3> HIDE DEF R
    <3> QED BY <2>2, <3>1, <1>2, <1>4 DEF share_of
  <2> QED BY <2>1, <2>2
<1> DEFINE a == SumOf(f, S)
           b == SumOf(g, T)
           r == SumOf(f, R)
           p == share_of(f, S, x)
           q == share_of(g, T, x)
<1>7. a = p + r /\ b = q + r /\ a \in Int /\ b \in Int /\ p \in Int /\ q \in Int /\ r \in Int
  BY <1>2, <1>3, <1>4, <1>5, <1>6
<1> HIDE DEF a, b, r, p, q
<1>8. b = a - p + q
  BY <1>7
<1> QED BY <1>3, <1>8 DEF a, b, p, q

\* The same of a count.
one_in(S, x) == IF x \in S THEN 1 ELSE 0
LEMMA CountMoves ==
  ASSUME NEW S, NEW T, NEW x, IsFiniteSet(S), IsFiniteSet(T), S \ {x} = T \ {x}
  PROVE  Cardinality(T) = Cardinality(S) - one_in(S, x) + one_in(T, x) /\ Cardinality(S) \in Nat
PROOF
<1> DEFINE R == S \ {x}
<1>1. IsFiniteSet(R) /\ x \notin R /\ R = T \ {x} /\ Cardinality(R) \in Nat
  BY FS_Subset, FS_CardinalityType
<1>2. Cardinality(S) = Cardinality(R) + one_in(S, x)
  <2>1. CASE x \in S
    <3>1. S = R \cup {x}
      BY <2>1
    <3>2. Cardinality(R \cup {x}) = Cardinality(R) + 1
      BY <1>1, FS_AddElement
    <3> QED BY <2>1, <3>1, <3>2 DEF one_in
  <2>2. CASE x \notin S
    <3>1. R = S
      BY <2>2
    <3> HIDE DEF R
    <3> QED BY <2>2, <3>1, <1>1 DEF one_in
  <2> QED BY <2>1, <2>2
<1>3. Cardinality(T) = Cardinality(R) + one_in(T, x)
  <2>1. CASE x \in T
    <3>1. T = R \cup {x}
      BY <2>1, <1>1
    <3>2. Cardinality(R \cup {x}) = Cardinality(R) + 1
      BY <1>1, FS_AddElement
    <3> QED BY <2>1, <3>1, <3>2 DEF one_in
  <2>2. CASE x \notin T
    <3>1. R = T
      BY <2>2, <1>1
    <3> HIDE DEF R
    <3> QED BY <2>2, <3>1, <1>1 DEF one_in
  <2> QED BY <2>1, <2>2
<1>4. one_in(S, x) \in {0, 1} /\ one_in(T, x) \in {0, 1}
  BY DEF one_in
<1> HIDE DEF R
<1> QED BY <1>1, <1>2, <1>3, <1>4

\* Some numbers up to a bound have a greatest.
LEMMA GreatestUpTo ==
  ASSUME NEW n \in Nat, NEW S, S \subseteq 1..n, S # {}
  PROVE  Max(S) \in S /\ \A i \in S : i <= Max(S)
<1> DEFINE Gaps == {n - i : i \in S}
<1>1. Gaps \subseteq Nat /\ Gaps # {}
  <2>1. \A i \in S : i \in 1..n
    OBVIOUS
  <2>2. \A i \in S : n - i \in Nat
    BY <2>1
  <2>3. PICK i \in S : TRUE
    OBVIOUS
  <2>4. n - i \in Gaps
    BY <2>3
  <2> QED BY <2>2, <2>4
<1>2. PICK g \in Gaps : \A h \in Gaps : g <= h
  BY <1>1, LeastNumber
<1>3. PICK x \in S : g = n - x
  BY <1>2
<1>4. \A i \in S : x >= i
  <2> SUFFICES ASSUME NEW i \in S PROVE x >= i
    OBVIOUS
  <2>1. n - i \in Gaps
    OBVIOUS
  <2>2. n - x <= n - i
    BY <1>2, <1>3, <2>1
  <2> QED BY <2>2, <1>3
<1>5. \E y \in S : \A i \in S : y >= i
  BY <1>3, <1>4
<1>6. Max(S) \in S /\ \A i \in S : Max(S) >= i
  BY <1>5 DEF Max
<1> HIDE DEF Gaps
<1>7. \A i \in S : i \in 1..n
  OBVIOUS
<1>8. \A i \in S : Max(S) >= i => i <= Max(S)
  BY <1>6, <1>7
<1> QED BY <1>6, <1>8
==============================================================================
