---------------------------- MODULE ReportsProofs ----------------------------
(***************************************************************************)
(* Proofs about Reports, for any finite sets of events and users, any costs *)
(* and times, any batches, pages and moves of the project: the rollups hold *)
(* what was recorded up to their roundings, the reports over them are exact *)
(* and charge the right teams, the explorer skips only ties, and reconcile  *)
(* reports no day without a cause.  Sums over finite sets come first, then  *)
(* times cut to hours and days, the rollups of a batch, the readers, the    *)
(* inductive invariant and what it implies.                                 *)
(***************************************************************************)
EXTENDS Reports, FiniteSetTheorems, WellFoundedInduction, TLAPS

---------------------------------------------------------------------------
(* Induction *)

\* What holds at 0 and is kept by a step holds up to n.
LEMMA UpTo ==
  ASSUME NEW n \in Nat, NEW P, 0 \in P, \A k \in 0..(n - 1) : k \in P => k + 1 \in P
  PROVE  \A k \in 0..n : k \in P
<1> DEFINE S == {k \in Nat : k <= n /\ k \notin P}
<1> SUFFICES ASSUME S # {} PROVE FALSE
  OBVIOUS
<1>1. PICK m \in S : \A k \in S : ~(<<k, m>> \in OpToRel(<, Nat))
  BY NatLessThanWellFounded, WFMin, Zenon
<1>2. \A k \in S : ~(k < m)
  BY <1>1 DEF OpToRel
<1>3. m \in Nat /\ m <= n /\ m \notin P
  OBVIOUS
<1>4. m - 1 \in 0..(n - 1)
  BY <1>3
<1>5. m - 1 \in P
  BY <1>2, <1>3, <1>4
<1> QED
  BY <1>3, <1>4, <1>5

\* Taking out an element leaves one less.
LEMMA OneLess ==
  ASSUME NEW T, IsFiniteSet(T), NEW x \in T
  PROVE  IsFiniteSet(T \ {x}) /\ Cardinality(T) \in Nat /\ Cardinality(T \ {x}) = Cardinality(T) - 1
<1>1. IsFiniteSet(T \ {x}) /\ Cardinality(T \ {x}) = IF x \in T THEN Cardinality(T) - 1 ELSE Cardinality(T)
  BY FS_RemoveElement
<1>2. Cardinality(T) \in Nat
  BY FS_CardinalityType
<1> QED
  BY <1>1, <1>2

\* P holds the empty set and, with a subset of S, every larger one.
Inductive(P, S) == {} \in P /\ \A T \in SUBSET S : \A x \in S \ T : T \in P => T \cup {x} \in P

\* What holds of the empty set and is kept by one more element holds of a
\* finite set.
LEMMA SetUpTo ==
  ASSUME NEW S, IsFiniteSet(S), NEW P, Inductive(P, S)
  PROVE  S \in P
<1> DEFINE n == Cardinality(S)
           All(m) == \A T \in SUBSET S : Cardinality(T) = m => T \in P
           N == {m \in Nat : All(m)}
<1>1. n \in Nat
  BY FS_CardinalityType
<1>2. \A T \in SUBSET S : IsFiniteSet(T) /\ Cardinality(T) \in Nat /\ Cardinality(T) <= n
  BY FS_Subset, FS_CardinalityType
<1>3. 0 \in N
  BY <1>2, FS_EmptySet DEF Inductive
<1>4. ASSUME NEW m \in 0..(n - 1), m \in N PROVE m + 1 \in N
  <2>1. m \in Nat /\ m + 1 \in Nat
    BY <1>1
  <2>2. ASSUME NEW T \in SUBSET S, Cardinality(T) = m + 1 PROVE T \in P
    <3>1. T # {}
      BY <2>1, <2>2, FS_EmptySet
    <3>2. PICK x \in T : TRUE
      BY <3>1
    <3>3. Cardinality(T \ {x}) = m
      <4>1. IsFiniteSet(T)
        BY <1>2
      <4>2. Cardinality(T \ {x}) = Cardinality(T) - 1
        BY <4>1, <3>2, OneLess
      <4> QED
        BY <2>1, <2>2, <4>2
    <3>4. T \ {x} \in P
      BY <1>4, <3>3
    <3>5. (T \ {x}) \cup {x} = T /\ x \in S \ (T \ {x})
      BY <3>2
    <3> QED
      BY <3>4, <3>5 DEF Inductive
  <2> QED
    BY <2>1, <2>2
<1> HIDE DEF N, n
<1>5. \A m \in 0..n : m \in N
  BY <1>1, <1>3, <1>4, UpTo
<1> QED
  BY <1>1, <1>2, <1>5 DEF N

---------------------------------------------------------------------------
(* Sums over finite sets *)

\* g sums up f over the subsets of S.
Sums(g, f, S) ==
  g = [T \in SUBSET S |->
         IF T = {} THEN 0 ELSE LET x == CHOOSE x \in T : TRUE IN f[x] + g[T \ {x}]]

\* The part of g on the subsets of T sums up f over them.
LEMMA SumsPart ==
  ASSUME NEW S, NEW f, NEW g, Sums(g, f, S), NEW T \in SUBSET S
  PROVE  Sums([U \in SUBSET T |-> g[U]], f, T)
  BY DEF Sums

\* There is only one such function.
LEMMA SumsUnique ==
  ASSUME NEW S, IsFiniteSet(S), NEW f, NEW g, NEW h, Sums(g, f, S), Sums(h, f, S)
  PROVE  g = h
<1> DEFINE n == Cardinality(S)
           Same(m) == \A T \in SUBSET S : Cardinality(T) = m => g[T] = h[T]
           N == {m \in Nat : Same(m)}
           c(T) == CHOOSE x \in T : TRUE
<1>1. n \in Nat
  BY FS_CardinalityType
<1>2. \A T \in SUBSET S : IsFiniteSet(T) /\ Cardinality(T) \in Nat /\ Cardinality(T) <= n
  BY FS_Subset, FS_CardinalityType
<1>3. \A T \in SUBSET S : T # {} => c(T) \in T
  OBVIOUS
<1>4. /\ \A T \in SUBSET S : g[T] = IF T = {} THEN 0 ELSE f[c(T)] + g[T \ {c(T)}]
      /\ \A T \in SUBSET S : h[T] = IF T = {} THEN 0 ELSE f[c(T)] + h[T \ {c(T)}]
      /\ g = [T \in SUBSET S |-> g[T]] /\ h = [T \in SUBSET S |-> h[T]]
  BY DEF Sums
<1> HIDE DEF c
<1>5. 0 \in N
  BY <1>2, <1>4, FS_EmptySet
<1>6. ASSUME NEW m \in 0..(n - 1), m \in N PROVE m + 1 \in N
  <2>1. m \in Nat /\ m + 1 \in Nat
    BY <1>1
  <2>2. ASSUME NEW T \in SUBSET S, Cardinality(T) = m + 1 PROVE g[T] = h[T]
    <3>1. T # {}
      BY <2>1, <2>2, FS_EmptySet
    <3>2. Cardinality(T \ {c(T)}) = m
      <4>1. IsFiniteSet(T) /\ c(T) \in T
        BY <1>2, <1>3, <3>1
      <4>2. Cardinality(T \ {c(T)}) = Cardinality(T) - 1
        BY <4>1, OneLess
      <4> QED
        BY <2>1, <2>2, <4>2
    <3>3. g[T \ {c(T)}] = h[T \ {c(T)}]
      BY <1>6, <3>2
    <3> QED
      BY <1>4, <3>1, <3>3
  <2> QED
    BY <2>1, <2>2
<1> HIDE DEF N, n
<1>7. \A m \in 0..n : m \in N
  BY <1>1, <1>5, <1>6, UpTo
<1>8. \A T \in SUBSET S : g[T] = h[T]
  BY <1>1, <1>2, <1>7 DEF N
<1> QED
  BY <1>4, <1>8

\* And over a finite set there is one.
LEMMA SumsExist ==
  ASSUME NEW S, IsFiniteSet(S), NEW f
  PROVE  \E g : Sums(g, f, S)
<1> DEFINE n == Cardinality(S)
           Of(m) == {T \in SUBSET S : Cardinality(T) <= m}
           c(T) == CHOOSE x \in T : TRUE
           Has(m) == \E g : g = [T \in Of(m) |-> IF T = {} THEN 0 ELSE f[c(T)] + g[T \ {c(T)}]]
           N == {m \in Nat : Has(m)}
<1>1. n \in Nat
  BY FS_CardinalityType
<1>2. \A T \in SUBSET S : IsFiniteSet(T) /\ Cardinality(T) \in Nat /\ Cardinality(T) <= n
  BY FS_Subset, FS_CardinalityType
<1>3. \A T \in SUBSET S : T # {} => c(T) \in T
  OBVIOUS
<1>4. ASSUME NEW m \in Nat, NEW T \in Of(m + 1), T # {} PROVE T \ {c(T)} \in Of(m)
  <2> HIDE DEF c
  <2>1. Cardinality(T \ {c(T)}) = Cardinality(T) - 1
    BY <1>2, <1>3, <1>4, FS_RemoveElement
  <2> QED
    BY <1>2, <2>1
<1>5. Of(0) = {{}}
  BY <1>2, FS_EmptySet
<1>6. 0 \in N
  <2> DEFINE g == [T \in Of(0) |-> 0]
  <2> HIDE DEF c, Of
  <2>1. g = [T \in Of(0) |-> IF T = {} THEN 0 ELSE f[c(T)] + g[T \ {c(T)}]]
    BY <1>5
  <2> HIDE DEF g
  <2> QED
    BY <2>1
<1>7. ASSUME NEW m \in 0..(n - 1), m \in N PROVE m + 1 \in N
  <2>1. m \in Nat /\ m + 1 \in Nat
    BY <1>1
  <2>2. Of(m) \subseteq Of(m + 1)
    BY <1>2, <2>1
  <2> HIDE DEF c, Of
  <2>3. PICK g : g = [T \in Of(m) |-> IF T = {} THEN 0 ELSE f[c(T)] + g[T \ {c(T)}]]
    BY <1>7
  <2> DEFINE h == [T \in Of(m + 1) |-> IF T \in Of(m) THEN g[T]
                                      ELSE f[c(T)] + g[T \ {c(T)}]]
  <2>4. {} \in Of(m)
    BY <2>1, FS_EmptySet DEF Of
  <2>5. \A T \in Of(m) : h[T] = g[T]
    BY <2>2
  <2>6. ASSUME NEW T \in Of(m + 1)
        PROVE  h[T] = IF T = {} THEN 0 ELSE f[c(T)] + h[T \ {c(T)}]
    <3>1. CASE T = {}
      BY <2>3, <2>4, <2>5, <3>1
    <3>2. CASE T # {}
      <4>1. T \ {c(T)} \in Of(m)
        BY <1>4, <2>1, <3>2
      <4>2. h[T \ {c(T)}] = g[T \ {c(T)}]
        BY <2>5, <4>1
      <4>3. h[T] = f[c(T)] + g[T \ {c(T)}]
        BY <2>3, <3>2
      <4> QED
        BY <3>2, <4>2, <4>3
    <3> QED
      BY <3>1, <3>2
  <2>7. h = [T \in Of(m + 1) |-> h[T]]
    OBVIOUS
  <2> HIDE DEF h
  <2>8. h = [T \in Of(m + 1) |-> IF T = {} THEN 0 ELSE f[c(T)] + h[T \ {c(T)}]]
    BY <2>6, <2>7
  <2> QED
    BY <2>1, <2>8
<1>8. Of(n) = SUBSET S
  BY <1>2
<1> HIDE DEF N, n
<1>9. n \in N
  BY <1>1, <1>6, <1>7, UpTo
<1>10. Has(n)
  BY <1>9 DEF N
<1> HIDE DEF Of
<1>11. PICK g : g = [T \in Of(n) |-> IF T = {} THEN 0 ELSE f[c(T)] + g[T \ {c(T)}]]
  BY <1>10, Zenon
<1>12. g = [T \in SUBSET S |-> IF T = {} THEN 0 ELSE f[c(T)] + g[T \ {c(T)}]]
  BY ONLY <1>8, <1>11, Zenon
<1>13. Sums(g, f, S)
  BY <1>12, Zenon DEF Sums
<1> QED
  BY <1>13

LEMMA SumOverIs ==
  ASSUME NEW S, IsFiniteSet(S), NEW f, NEW g, Sums(g, f, S), NEW T \in SUBSET S
  PROVE  SumOver(f, T) = g[T]
<1> DEFINE h == CHOOSE h : Sums(h, f, T)
           p == [U \in SUBSET T |-> g[U]]
<1>1. IsFiniteSet(T)
  BY FS_Subset
<1>2. Sums(p, f, T)
  BY SumsPart
<1>3. Sums(h, f, T)
  BY <1>2
<1>4. SumOver(f, T) = h[T]
  BY DEF SumOver, Sums
<1> HIDE DEF h, p
<1>5. h = p
  BY <1>1, <1>2, <1>3, SumsUnique
<1>6. p[T] = g[T]
  BY DEF p
<1> QED
  BY <1>4, <1>5, <1>6

LEMMA SumEmpty == \A f : SumOver(f, {}) = 0
<1> TAKE f
<1>1. IsFiniteSet({})
  BY FS_EmptySet
<1>2. PICK g : Sums(g, f, {})
  BY <1>1, SumsExist
<1>3. SumOver(f, {}) = g[{}]
  BY <1>1, <1>2, SumOverIs
<1>4. g[{}] = 0
  BY <1>2 DEF Sums
<1> QED
  BY <1>3, <1>4

\* f has an integer for each element of the finite set S.
Summable(f, S) == IsFiniteSet(S) /\ \A x \in S : f[x] \in Int

LEMMA SummableSubset ==
  ASSUME NEW f, NEW S, Summable(f, S), NEW T \in SUBSET S
  PROVE  Summable(f, T)
  BY FS_Subset DEF Summable

\* A sum is an integer, and it can be taken apart at any element.
LEMMA SumTakeOut ==
  ASSUME NEW f, NEW S, Summable(f, S)
  PROVE  /\ SumOver(f, S) \in Int
         /\ \A x \in S : SumOver(f, S) = f[x] + SumOver(f, S \ {x})
<1> DEFINE n == Cardinality(S)
           Good(T) == /\ SumOver(f, T) \in Int
                      /\ \A x \in T : SumOver(f, T) = f[x] + SumOver(f, T \ {x})
           All(m) == \A T \in SUBSET S : Cardinality(T) <= m => Good(T)
           N == {m \in Nat : All(m)}
<1>0. IsFiniteSet(S) /\ \A x \in S : f[x] \in Int
  BY DEF Summable
<1>1. n \in Nat
  BY <1>0, FS_CardinalityType
<1>2. \A T \in SUBSET S : IsFiniteSet(T) /\ Cardinality(T) \in Nat /\ Cardinality(T) <= n
  BY <1>0, FS_Subset, FS_CardinalityType
<1>3. ASSUME NEW T \in SUBSET S, T # {}
      PROVE  \E x \in T : SumOver(f, T) = f[x] + SumOver(f, T \ {x})
  <2>1. PICK g : Sums(g, f, S)
    BY <1>0, SumsExist
  <2>2. \A U \in SUBSET S : SumOver(f, U) = g[U]
    BY <1>0, <2>1, SumOverIs
  <2> DEFINE c == CHOOSE x \in T : TRUE
  <2>3. c \in T
    BY <1>3
  <2>4. g[T] = f[c] + g[T \ {c}]
    BY <1>3, <2>1 DEF Sums
  <2> HIDE DEF c
  <2> QED
    BY <2>2, <2>3, <2>4
<1>4. 0 \in N
  BY <1>2, FS_EmptySet, SumEmpty
<1>5. ASSUME NEW m \in 0..(n - 1), m \in N PROVE m + 1 \in N
  <2>1. m \in Nat /\ m + 1 \in Nat
    BY <1>1
  <2>2. ASSUME NEW T \in SUBSET S, Cardinality(T) <= m + 1 PROVE Good(T)
    <3>1. CASE T = {}
      BY <3>1, SumEmpty
    <3>2. CASE T # {}
      <4>1. \A x \in T : Good(T \ {x})
        <5> TAKE x \in T
        <5>1. Cardinality(T \ {x}) = Cardinality(T) - 1
          BY <1>2, FS_RemoveElement
        <5>2. Cardinality(T \ {x}) <= m /\ T \ {x} \in SUBSET S
          BY <1>2, <2>1, <2>2, <5>1
        <5> HIDE DEF Good
        <5> QED
          BY <1>5, <5>2
      <4>2. PICK c \in T : SumOver(f, T) = f[c] + SumOver(f, T \ {c})
        BY <1>3, <3>2
      <4>3. \A x \in T : f[x] \in Int
        BY <1>0
      <4>4. SumOver(f, T) \in Int
        BY <4>1, <4>2, <4>3
      <4>5. ASSUME NEW x \in T, x # c PROVE SumOver(f, T) = f[x] + SumOver(f, T \ {x})
        <5>1. (T \ {c}) \ {x} = (T \ {x}) \ {c}
          OBVIOUS
        <5>2. SumOver(f, T \ {c}) = f[x] + SumOver(f, (T \ {c}) \ {x})
          BY <4>1, <4>5
        <5>3. SumOver(f, T \ {x}) = f[c] + SumOver(f, (T \ {x}) \ {c})
          BY <4>1, <4>5
        <5>4. SumOver(f, (T \ {x}) \ {c}) \in Int
          <6>1. Cardinality(T \ {x}) = Cardinality(T) - 1
            BY <1>2, OneLess
          <6>2. Cardinality(T \ {x}) <= m + 1
            BY <1>2, <2>1, <2>2, <6>1
          <6>3. Cardinality((T \ {x}) \ {c}) = Cardinality(T \ {x}) - 1
            BY <1>2, <4>5, OneLess
          <6>4. Cardinality((T \ {x}) \ {c}) <= m
            BY <1>2, <2>1, <6>2, <6>3
          <6>5. Good((T \ {x}) \ {c})
            BY <1>5, <6>4
          <6> QED
            BY <6>5
        <5>5. SumOver(f, T) = f[c] + (f[x] + SumOver(f, (T \ {x}) \ {c}))
          BY <4>2, <5>1, <5>2, Zenon
        <5> QED
          BY <4>3, <5>3, <5>4, <5>5
      <4> QED
        BY <4>2, <4>4, <4>5
    <3> QED
      BY <3>1, <3>2
  <2> QED
    BY <2>1, <2>2
<1> HIDE DEF N, n
<1>6. n \in N
  BY <1>1, <1>4, <1>5, UpTo
<1> QED
  BY <1>1, <1>2, <1>6 DEF N, n

\* One more element adds its value.
LEMMA SumStep ==
  ASSUME NEW f, NEW S, Summable(f, S), NEW T \in SUBSET S, NEW x \in S \ T
  PROVE  /\ SumOver(f, T) \in Int /\ f[x] \in Int
         /\ SumOver(f, T \cup {x}) = SumOver(f, T) + f[x]
<1>1. T \cup {x} \in SUBSET S /\ x \in T \cup {x} /\ (T \cup {x}) \ {x} = T
  OBVIOUS
<1>2. Summable(f, T) /\ Summable(f, T \cup {x})
  BY <1>1, SummableSubset, Zenon
<1>3. SumOver(f, T \cup {x}) = f[x] + SumOver(f, (T \cup {x}) \ {x})
  BY <1>1, <1>2, SumTakeOut
<1>4. SumOver(f, T) \in Int /\ f[x] \in Int
  BY <1>2, SumTakeOut DEF Summable
<1>5. SumOver(f, T \cup {x}) = f[x] + SumOver(f, T)
  BY <1>1, <1>3, Zenon
<1> QED
  BY <1>4, <1>5

LEMMA SumSingle ==
  ASSUME NEW f, NEW x, f[x] \in Int
  PROVE  SumOver(f, {x}) = f[x]
<1>1. {} \in SUBSET {x} /\ x \in {x} \ {} /\ {} \cup {x} = {x}
  OBVIOUS
<1>2. Summable(f, {x})
  BY FS_Singleton DEF Summable
<1>3. SumOver(f, {} \cup {x}) = SumOver(f, {}) + f[x]
  BY <1>1, <1>2, SumStep
<1> QED
  BY <1>1, <1>3, SumEmpty

\* Functions that agree on a set have the same sum over it.
LEMMA SumSame ==
  ASSUME NEW S, NEW f, Summable(f, S), NEW g, \A x \in S : f[x] = g[x]
  PROVE  Summable(g, S) /\ SumOver(f, S) = SumOver(g, S)
<1> DEFINE P == {T \in SUBSET S : SumOver(f, T) = SumOver(g, T)}
<1>0. IsFiniteSet(S) /\ Summable(g, S)
  BY DEF Summable
<1>1. {} \in P
  BY SumEmpty
<1>2. ASSUME NEW T \in SUBSET S, NEW x \in S \ T, T \in P PROVE T \cup {x} \in P
  <2>1. SumOver(f, T \cup {x}) = SumOver(f, T) + f[x]
    BY SumStep
  <2>2. SumOver(g, T \cup {x}) = SumOver(g, T) + g[x]
    BY <1>0, SumStep
  <2> QED
    BY <1>2, <2>1, <2>2
<1>3. Inductive(P, S)
  BY <1>1, <1>2 DEF Inductive
<1> HIDE DEF P
<1>4. S \in P
  BY <1>0, <1>3, SetUpTo, Zenon
<1> QED
  BY <1>0, <1>4 DEF P

\* The sum over two disjoint sets.
LEMMA SumUnion ==
  ASSUME NEW f, NEW R, NEW S, Summable(f, R), Summable(f, S), R \cap S = {}
  PROVE  /\ Summable(f, R \cup S)
         /\ SumOver(f, R) \in Int /\ SumOver(f, S) \in Int
         /\ SumOver(f, R \cup S) = SumOver(f, R) + SumOver(f, S)
<1> DEFINE U == R \cup S
           P == {T \in SUBSET S : SumOver(f, R \cup T) = SumOver(f, R) + SumOver(f, T)}
<1>0. SumOver(f, R) \in Int /\ SumOver(f, S) \in Int /\ IsFiniteSet(S)
  BY SumTakeOut DEF Summable
<1>1. {} \in P
  <2>1. R \cup {} = R
    OBVIOUS
  <2> QED
    BY <1>0, <2>1, SumEmpty
<1>2. Summable(f, U)
  BY FS_Union DEF Summable
<1>3. ASSUME NEW T \in SUBSET S, NEW x \in S \ T, T \in P PROVE T \cup {x} \in P
  <2>1. SumOver(f, T \cup {x}) = SumOver(f, T) + f[x] /\ SumOver(f, T) \in Int /\ f[x] \in Int
    BY SumStep
  <2>2. R \cup T \in SUBSET U /\ x \in U \ (R \cup T) /\ (R \cup T) \cup {x} = R \cup (T \cup {x})
    OBVIOUS
  <2> HIDE DEF U
  <2>3. SumOver(f, (R \cup T) \cup {x}) = SumOver(f, R \cup T) + f[x]
    BY <1>2, <2>2, SumStep
  <2>4. SumOver(f, R \cup T) = SumOver(f, R) + SumOver(f, T)
    BY <1>3
  <2>5. SumOver(f, R \cup (T \cup {x})) = (SumOver(f, R) + SumOver(f, T)) + f[x]
    BY <2>2, <2>3, <2>4, Zenon
  <2>6. SumOver(f, R \cup (T \cup {x})) = SumOver(f, R) + SumOver(f, T \cup {x})
    BY <1>0, <2>1, <2>5
  <2> QED
    BY <2>6
<1>4. Inductive(P, S)
  BY <1>1, <1>3 DEF Inductive
<1> HIDE DEF P
<1>5. S \in P
  BY <1>0, <1>4, SetUpTo, Zenon
<1> QED
  BY <1>0, <1>2, <1>5 DEF P

\* f has a natural number for each element of the finite set S.
Countable(f, S) == IsFiniteSet(S) /\ \A x \in S : f[x] \in Nat

\* The sum of natural numbers is one, and a larger set of them has a larger sum.
LEMMA SumNat ==
  ASSUME NEW f, NEW S, Countable(f, S)
  PROVE  Summable(f, S) /\ SumOver(f, S) \in Nat
<1> DEFINE P == {T \in SUBSET S : SumOver(f, T) \in Nat}
<1>0. IsFiniteSet(S) /\ Summable(f, S) /\ \A x \in S : f[x] \in Nat
  BY DEF Summable, Countable
<1>1. {} \in P
  BY SumEmpty
<1>2. ASSUME NEW T \in SUBSET S, NEW x \in S \ T, T \in P PROVE T \cup {x} \in P
  <2>1. SumOver(f, T \cup {x}) = SumOver(f, T) + f[x]
    BY <1>0, SumStep
  <2> QED
    BY <1>0, <1>2, <2>1
<1>3. Inductive(P, S)
  BY <1>1, <1>2 DEF Inductive
<1> HIDE DEF P
<1>4. S \in P
  BY <1>0, <1>3, SetUpTo, Zenon
<1> QED
  BY <1>0, <1>4 DEF P

LEMMA SumSubset ==
  ASSUME NEW f, NEW S, Countable(f, S), NEW T \in SUBSET S
  PROVE  SumOver(f, T) \in Nat /\ SumOver(f, S) \in Nat /\ SumOver(f, T) <= SumOver(f, S)
<1>1. T \cap (S \ T) = {} /\ T \cup (S \ T) = S
  OBVIOUS
<1>2. Countable(f, T) /\ Countable(f, S \ T)
  BY FS_Subset DEF Countable
<1>3. /\ Summable(f, T) /\ Summable(f, S \ T)
      /\ SumOver(f, T) \in Nat /\ SumOver(f, S \ T) \in Nat /\ SumOver(f, S) \in Nat
  BY <1>2, SumNat, Zenon
<1>4. SumOver(f, T \cup (S \ T)) = SumOver(f, T) + SumOver(f, S \ T)
  BY <1>1, <1>3, SumUnion, Zenon
<1>5. SumOver(f, S) = SumOver(f, T) + SumOver(f, S \ T)
  BY <1>1, <1>4, Zenon
<1> QED
  BY <1>3, <1>5

\* The sum of sums.
LEMMA SumPlus ==
  ASSUME NEW S, NEW f, NEW g, NEW h, Summable(f, S), Summable(g, S),
         \A x \in S : h[x] = f[x] + g[x]
  PROVE  /\ SumOver(f, S) \in Int /\ SumOver(g, S) \in Int
         /\ SumOver(h, S) = SumOver(f, S) + SumOver(g, S)
<1> DEFINE P == {T \in SUBSET S : SumOver(h, T) = SumOver(f, T) + SumOver(g, T)}
<1>0. IsFiniteSet(S) /\ Summable(h, S) /\ SumOver(f, S) \in Int /\ SumOver(g, S) \in Int
  BY SumTakeOut DEF Summable
<1>1. {} \in P
  BY SumEmpty
<1>2. ASSUME NEW T \in SUBSET S, NEW x \in S \ T, T \in P PROVE T \cup {x} \in P
  <2>1. T \subseteq S /\ x \in S /\ x \notin T
    OBVIOUS
  <2>2. SumOver(h, T) = SumOver(f, T) + SumOver(g, T) /\ h[x] = f[x] + g[x]
    BY <1>2
  <2>3. SumOver(f, T \cup {x}) = SumOver(f, T) + f[x] /\ SumOver(f, T) \in Int /\ f[x] \in Int
    BY SumStep
  <2>4. SumOver(g, T \cup {x}) = SumOver(g, T) + g[x] /\ SumOver(g, T) \in Int /\ g[x] \in Int
    BY ONLY Summable(g, S), SumStep, <2>1
  <2>5. SumOver(h, T \cup {x}) = SumOver(h, T) + h[x]
    BY <1>0, SumStep
  <2>6. SumOver(h, T \cup {x}) = SumOver(f, T \cup {x}) + SumOver(g, T \cup {x})
    BY <2>2, <2>3, <2>4, <2>5
  <2> QED
    BY <2>6
<1>3. Inductive(P, S)
  BY <1>1, <1>2 DEF Inductive
<1> HIDE DEF P
<1>4. S \in P
  BY <1>0, <1>3, SetUpTo, Zenon
<1> QED
  BY <1>0, <1>4 DEF P

\* A sum grows with its terms.
LEMMA SumMono ==
  ASSUME NEW S, NEW f, NEW g, Summable(f, S), Summable(g, S), \A x \in S : f[x] <= g[x]
  PROVE  SumOver(f, S) \in Int /\ SumOver(g, S) \in Int /\ SumOver(f, S) <= SumOver(g, S)
<1> DEFINE P == {T \in SUBSET S : SumOver(f, T) <= SumOver(g, T)}
<1>0. IsFiniteSet(S) /\ SumOver(f, S) \in Int /\ SumOver(g, S) \in Int
  BY SumTakeOut DEF Summable
<1>1. {} \in P
  BY SumEmpty
<1>2. ASSUME NEW T \in SUBSET S, NEW x \in S \ T, T \in P PROVE T \cup {x} \in P
  <2>1. SumOver(f, T \cup {x}) = SumOver(f, T) + f[x] /\ SumOver(f, T) \in Int /\ f[x] \in Int
    BY SumStep
  <2>2. SumOver(g, T \cup {x}) = SumOver(g, T) + g[x] /\ SumOver(g, T) \in Int /\ g[x] \in Int
    BY SumStep
  <2>3. SumOver(f, T) <= SumOver(g, T) /\ f[x] <= g[x]
    BY <1>2
  <2>4. SumOver(f, T \cup {x}) <= SumOver(g, T \cup {x})
    BY <2>1, <2>2, <2>3
  <2> QED
    BY <2>4
<1>3. Inductive(P, S)
  BY <1>1, <1>2 DEF Inductive
<1> HIDE DEF P
<1>4. S \in P
  BY <1>0, <1>3, SetUpTo, Zenon
<1> QED
  BY <1>0, <1>4 DEF P

\* Counting is a sum of ones.
LEMMA SumOnes ==
  ASSUME NEW S, IsFiniteSet(S), NEW f, \A x \in S : f[x] = 1
  PROVE  Summable(f, S) /\ SumOver(f, S) = Cardinality(S)
<1> DEFINE P == {T \in SUBSET S : SumOver(f, T) = Cardinality(T)}
<1>0. Summable(f, S)
  BY DEF Summable
<1>1. {} \in P
  BY SumEmpty, FS_EmptySet
<1>2. ASSUME NEW T \in SUBSET S, NEW x \in S \ T, T \in P PROVE T \cup {x} \in P
  <2>1. SumOver(f, T \cup {x}) = SumOver(f, T) + f[x]
    BY <1>0, SumStep
  <2>2. IsFiniteSet(T) /\ x \notin T
    BY FS_Subset
  <2>3. Cardinality(T \cup {x}) = IF x \in T THEN Cardinality(T) ELSE Cardinality(T) + 1
    BY <2>2, FS_AddElement
  <2>4. Cardinality(T \cup {x}) = SumOver(f, T \cup {x})
    BY <1>2, <2>1, <2>2, <2>3
  <2> QED
    BY <2>4
<1>3. Inductive(P, S)
  BY <1>1, <1>2 DEF Inductive
<1> HIDE DEF P
<1>4. S \in P
  BY <1>3, SetUpTo, Zenon
<1> QED
  BY <1>0, <1>4 DEF P

\* The elements of E with the key k.
Fibre(E, key, k) == {e \in E : key[e] = k}

\* A sum over E can be taken key by key.
LEMMA SumFibres ==
  ASSUME NEW E, NEW f, Summable(f, E),
         NEW K, IsFiniteSet(K), NEW key, \A e \in E : key[e] \in K,
         NEW g, \A k \in K : g[k] = SumOver(f, Fibre(E, key, k))
  PROVE  Summable(g, K) /\ SumOver(f, E) = SumOver(g, K)
<1> DEFINE Of(T) == {e \in E : key[e] \in T}
           P == {T \in SUBSET K : SumOver(f, Of(T)) = SumOver(g, T)}
<1>0. \A k \in K : Summable(f, Fibre(E, key, k))
  BY SummableSubset DEF Fibre
<1>1. Summable(g, K)
  BY <1>0, SumTakeOut DEF Summable
<1>2. {} \in P
  <2>1. Of({}) = {}
    OBVIOUS
  <2> QED
    BY <2>1, SumEmpty
<1>3. ASSUME NEW T \in SUBSET K, NEW x \in K \ T, T \in P PROVE T \cup {x} \in P
  <2>1. SumOver(g, T \cup {x}) = SumOver(g, T) + g[x]
    BY <1>1, SumStep
  <2>2. Of(T) \cap Fibre(E, key, x) = {} /\ Of(T) \cup Fibre(E, key, x) = Of(T \cup {x}) /\ Of(T) \in SUBSET E
    BY DEF Fibre
  <2> HIDE DEF Of
  <2>3. Summable(f, Of(T)) /\ Summable(f, Fibre(E, key, x))
    BY <1>0, <2>2, SummableSubset, Zenon
  <2>4. SumOver(f, Of(T) \cup Fibre(E, key, x)) = SumOver(f, Of(T)) + SumOver(f, Fibre(E, key, x))
    BY <2>2, <2>3, SumUnion, Zenon
  <2>5. SumOver(f, Of(T)) = SumOver(g, T) /\ g[x] = SumOver(f, Fibre(E, key, x))
    BY <1>3
  <2>6. SumOver(f, Of(T \cup {x})) = SumOver(g, T \cup {x})
    BY <2>1, <2>2, <2>4, <2>5, Zenon
  <2> QED
    BY <2>6
<1>4. Of(K) = E
  OBVIOUS
<1>5. Inductive(P, K)
  <2> HIDE DEF Of
  <2> QED
    BY <1>2, <1>3 DEF Inductive
<1> HIDE DEF P, Of
<1>6. K \in P
  BY <1>5, SetUpTo, Zenon
<1>7. SumOver(f, Of(K)) = SumOver(g, K)
  BY <1>6 DEF P
<1> QED
  BY <1>1, <1>4, <1>7

---------------------------------------------------------------------------
(* Rounding *)

LEMMA ConstantTypes ==
  /\ IsFiniteSet(Event) /\ IsFiniteSet(User)
  /\ Hour \in Nat /\ Hour > 0 /\ Day \in Nat /\ Day > 0 /\ Quantum \in Nat /\ Quantum > 0
  /\ Limit \in Nat /\ Limit > 0
  /\ \A e \in Event : UserOf[e] \in User /\ OccurredAt[e] \in Nat /\ CostUsd[e] \in Nat
  BY ReportsAssumption

LEMMA WithinAdd ==
  ASSUME NEW x \in Int, NEW y \in Int, NEW n \in Int, Within(x, y, n),
         NEW a \in Int, NEW b \in Int, NEW m \in Int, Within(a, b, m)
  PROVE  Within(x + a, y + b, n + m)
<1>1. PICK q \in Int : q = n * Quantum
  BY ConstantTypes
<1>2. PICK r \in Int : r = m * Quantum
  BY ConstantTypes
<1>3. (n + m) * Quantum = q + r
  BY <1>1, <1>2, ConstantTypes
<1>4. 2 * (x - y) <= q /\ 2 * (y - x) <= q /\ 2 * (a - b) <= r /\ 2 * (b - a) <= r
  BY <1>1, <1>2 DEF Within
<1>5. 2 * ((x + a) - (y + b)) <= q + r /\ 2 * ((y + b) - (x + a)) <= q + r
  BY <1>4
<1> QED
  BY <1>3, <1>5 DEF Within

LEMMA WithinMore ==
  ASSUME NEW x \in Int, NEW y \in Int, NEW n \in Int, Within(x, y, n), NEW m \in Int, n <= m
  PROVE  Within(x, y, m)
<1>1. PICK q \in Int : q = n * Quantum
  BY ConstantTypes
<1>2. PICK r \in Int : r = m * Quantum
  BY ConstantTypes
<1>3. q <= r
  BY <1>1, <1>2, ConstantTypes
<1>4. 2 * (x - y) <= q /\ 2 * (y - x) <= q
  BY <1>1 DEF Within
<1>5. 2 * (x - y) <= r /\ 2 * (y - x) <= r
  BY <1>3, <1>4
<1> QED
  BY <1>2, <1>5 DEF Within

LEMMA WithinZero == Within(0, 0, 0)
  BY ConstantTypes DEF Within

\* One rounding is less than one unit of the last place.
LEMMA WithinOne ==
  ASSUME NEW x \in Int, NEW y \in Int, NEW n \in Int, n <= 1, Within(x, y, n)
  PROVE  x - y < Quantum /\ y - x < Quantum
<1>1. Within(x, y, 1)
  BY WithinMore
<1> QED
  BY <1>1, ConstantTypes DEF Within

\* Roundings add up.
LEMMA WithinSum ==
  ASSUME NEW S, NEW f, NEW g, NEW n, Summable(f, S), Summable(g, S), Summable(n, S),
         \A x \in S : Within(f[x], g[x], n[x])
  PROVE  Within(SumOver(f, S), SumOver(g, S), SumOver(n, S))
<1> DEFINE P == {T \in SUBSET S : Within(SumOver(f, T), SumOver(g, T), SumOver(n, T))}
<1>0. IsFiniteSet(S)
  BY DEF Summable
<1>1. {} \in P
  BY SumEmpty, WithinZero
<1>2. ASSUME NEW T \in SUBSET S, NEW x \in S \ T, T \in P PROVE T \cup {x} \in P
  <2>0. T \subseteq S /\ x \in S /\ x \notin T
    OBVIOUS
  <2>1. SumOver(f, T \cup {x}) = SumOver(f, T) + f[x] /\ SumOver(f, T) \in Int /\ f[x] \in Int
    BY ONLY Summable(f, S), SumStep, <2>0
  <2>2. SumOver(g, T \cup {x}) = SumOver(g, T) + g[x] /\ SumOver(g, T) \in Int /\ g[x] \in Int
    BY ONLY Summable(g, S), SumStep, <2>0
  <2>3. SumOver(n, T \cup {x}) = SumOver(n, T) + n[x] /\ SumOver(n, T) \in Int /\ n[x] \in Int
    BY ONLY Summable(n, S), SumStep, <2>0
  <2>4. Within(SumOver(f, T), SumOver(g, T), SumOver(n, T)) /\ Within(f[x], g[x], n[x])
    BY <1>2
  <2>5. Within(SumOver(f, T) + f[x], SumOver(g, T) + g[x], SumOver(n, T) + n[x])
    BY <2>1, <2>2, <2>3, <2>4, WithinAdd
  <2>6. Within(SumOver(f, T \cup {x}), SumOver(g, T \cup {x}), SumOver(n, T \cup {x}))
    BY <2>1, <2>2, <2>3, <2>5
  <2> QED
    BY <2>6
<1>3. Inductive(P, S)
  BY <1>1, <1>2 DEF Inductive
<1> HIDE DEF P
<1>4. S \in P
  BY <1>0, <1>3, SetUpTo, Zenon
<1> QED
  BY <1>4 DEF P

\* numeric(14,6) holds a cost up to half a unit of its last place.
LEMMA StoredWithin ==
  ASSUME NEW c \in Nat
  PROVE  Stored(c) \in Nat /\ Within(Stored(c), c, 1)
<1> DEFINE h == Quantum \div 2
           d == (c + h) \div Quantum
           r == (c + h) % Quantum
<1>1. h \in Nat /\ 2 * h <= Quantum /\ Quantum <= 2 * h + 1
  BY ConstantTypes
<1> HIDE DEF h
<1>2. d \in Nat /\ r \in Nat /\ r < Quantum /\ c + h = Quantum * d + r
  BY <1>1, ConstantTypes
<1>3. Stored(c) = d * Quantum
  BY DEF Stored, h
<1> HIDE DEF d, r
<1>4. PICK s \in Nat : s = d * Quantum /\ s = Quantum * d
  BY <1>2, ConstantTypes
<1>5. c + h = s + r
  BY <1>2, <1>4
<1>6. 2 * (s - c) <= Quantum /\ 2 * (c - s) <= Quantum
  BY <1>1, <1>2, <1>5, ConstantTypes
<1>7. Within(s, c, 1)
  BY <1>6, ConstantTypes DEF Within
<1> QED
  BY <1>3, <1>4, <1>7

---------------------------------------------------------------------------
(* Buckets *)

Multiple(x, a) == \E k \in Nat : x = k * a

LEMMA ProductOrder ==
  ASSUME NEW k \in Nat, NEW l \in Nat, NEW a \in Nat, a > 0
  PROVE  k <= l <=> k * a <= l * a
  OBVIOUS

LEMMA TruncateIs ==
  ASSUME NEW t \in Nat, NEW a \in Nat, a > 0
  PROVE  /\ Truncate(t, a) \in Nat /\ Multiple(Truncate(t, a), a)
         /\ Truncate(t, a) <= t /\ t < Truncate(t, a) + a
<1> DEFINE d == t \div a
           r == t % a
<1>1. d \in Nat /\ r \in Nat /\ r < a /\ t = a * d + r
  OBVIOUS
<1>2. Truncate(t, a) = d * a
  BY DEF Truncate
<1> HIDE DEF d, r
<1>3. PICK s \in Nat : s = d * a /\ s = a * d
  BY <1>1
<1>4. t = s + r
  BY <1>1, <1>3
<1>5. Multiple(s, a)
  BY <1>1, <1>3 DEF Multiple
<1> QED
  BY <1>1, <1>2, <1>3, <1>4, <1>5

LEMMA MultiplesApart ==
  ASSUME NEW x \in Nat, NEW y \in Nat, NEW a \in Nat, a > 0, Multiple(x, a), Multiple(y, a), x < y + a
  PROVE  x <= y
<1>1. PICK k \in Nat : x = k * a
  BY DEF Multiple
<1>2. PICK l \in Nat : y = l * a
  BY DEF Multiple
<1>3. (l + 1) * a = y + a
  BY <1>2
<1>4. ~((l + 1) * a <= k * a)
  BY <1>1, <1>3
<1>5. ~(l + 1 <= k)
  BY <1>4, ProductOrder
<1>6. k <= l
  BY <1>5
<1> QED
  BY <1>1, <1>2, <1>6, ProductOrder

\* The bucket of t is the one that t lies in.
LEMMA TruncateUnique ==
  ASSUME NEW t \in Nat, NEW a \in Nat, a > 0, NEW x \in Nat, Multiple(x, a), x <= t, t < x + a
  PROVE  Truncate(t, a) = x
<1>1. /\ Truncate(t, a) \in Nat /\ Multiple(Truncate(t, a), a)
      /\ Truncate(t, a) <= t /\ t < Truncate(t, a) + a
  BY TruncateIs
<1>2. Truncate(t, a) < x + a /\ x < Truncate(t, a) + a
  BY <1>1
<1>3. Truncate(t, a) <= x
  BY <1>1, <1>2, MultiplesApart
<1>4. x <= Truncate(t, a)
  BY <1>1, <1>2, MultiplesApart
<1> QED
  BY <1>1, <1>3, <1>4

\* A bound between buckets does not cut through one.
LEMMA TruncateBounds ==
  ASSUME NEW t \in Nat, NEW a \in Nat, a > 0, NEW x \in Nat, Multiple(x, a)
  PROVE  x <= Truncate(t, a) <=> x <= t
<1>1. /\ Truncate(t, a) \in Nat /\ Multiple(Truncate(t, a), a)
      /\ Truncate(t, a) <= t /\ t < Truncate(t, a) + a
  BY TruncateIs
<1>2. x <= t => x < Truncate(t, a) + a
  BY <1>1
<1>3. x <= t => x <= Truncate(t, a)
  BY <1>1, <1>2, MultiplesApart
<1> QED
  BY <1>1, <1>3

LEMMA MultipleOfMultiple ==
  ASSUME NEW x \in Nat, NEW b \in Nat, NEW a \in Nat, Multiple(x, b), Multiple(b, a)
  PROVE  Multiple(x, a)
<1>1. PICK k \in Nat : x = k * b
  BY DEF Multiple
<1>2. PICK l \in Nat : b = l * a
  BY DEF Multiple
<1>3. x = (k * l) * a /\ k * l \in Nat
  BY <1>1, <1>2
<1> QED
  BY <1>3 DEF Multiple

\* The coarser bucket of a bucket is that of its events.
LEMMA TruncateCoarser ==
  ASSUME NEW t \in Nat, NEW a \in Nat, a > 0, NEW b \in Nat, b > 0, Multiple(b, a)
  PROVE  Truncate(Truncate(t, a), b) = Truncate(t, b)
<1> DEFINE x == Truncate(t, b)
           y == Truncate(t, a)
<1>1. x \in Nat /\ Multiple(x, b) /\ x <= t /\ t < x + b
  BY TruncateIs
<1>2. y \in Nat /\ y <= t
  BY TruncateIs
<1> HIDE DEF x
<1>3. Multiple(x, a)
  BY <1>1, MultipleOfMultiple
<1>4. x <= y
  BY <1>1, <1>3, TruncateBounds
<1> HIDE DEF y
<1>5. y < x + b
  BY <1>1, <1>2
<1>6. Truncate(y, b) = x
  BY <1>1, <1>2, <1>4, <1>5, TruncateUnique
<1> QED
  BY <1>6 DEF x, y

LEMMA MultipleSelf == \A a \in Nat : Multiple(a, a)
<1> TAKE a \in Nat
<1>1. a = 1 * a
  OBVIOUS
<1> QED
  BY <1>1 DEF Multiple

LEMMA MultipleAdd ==
  ASSUME NEW x \in Nat, NEW y \in Nat, NEW a \in Nat, Multiple(x, a), Multiple(y, a)
  PROVE  Multiple(x + y, a)
<1>1. PICK k \in Nat : x = k * a
  BY DEF Multiple
<1>2. PICK l \in Nat : y = l * a
  BY DEF Multiple
<1>3. x + y = (k + l) * a /\ k + l \in Nat
  BY <1>1, <1>2
<1> QED
  BY <1>3 DEF Multiple

LEMMA DayIsHours == Multiple(Day, Hour) /\ Multiple(2 * Day, Day) /\ Multiple(Day, Day) /\ Multiple(Hour, Hour)
<1>1. Day % Hour = 0
  BY ReportsAssumption
<1> DEFINE d == Day \div Hour
<1>2. d \in Nat /\ Day = Hour * d + (Day % Hour)
  BY ConstantTypes
<1> HIDE DEF d
<1>3. Day = d * Hour
  BY <1>1, <1>2, ConstantTypes
<1>4. Multiple(Day, Hour)
  BY <1>2, <1>3 DEF Multiple
<1>5. Multiple(2 * Day, Day)
  BY DEF Multiple
<1> QED
  BY <1>4, <1>5, MultipleSelf, ConstantTypes

---------------------------------------------------------------------------
(* The rollups of a batch *)

\* The events of R that belong to the row of key k.
Holds(R, unit, k) == {e \in R : Key(e, unit) = k}

Keys(unit) == Buckets(unit) \X User
Row == [requests : Nat, costUsd : Nat, teamId : Team \cup {"none"}, parts : Nat]

\* The lengths a table can have its buckets of.
Unit(unit) == unit \in Nat /\ unit > 0 /\ Multiple(unit, Hour)

LEMMA UnitsAre == Unit(Hour) /\ Unit(Day)
  BY ConstantTypes, DayIsHours DEF Unit

LEMMA KeyIs ==
  ASSUME NEW unit, Unit(unit), NEW e \in Event
  PROVE  Key(e, unit) \in Keys(unit)
  BY ConstantTypes DEF Key, Keys, Buckets, Truncate

\* Events of one hour and user belong to one row of either table.
LEMMA KeyCoarser ==
  ASSUME NEW unit, Unit(unit), NEW e \in Event, NEW x \in Event, Key(e, Hour) = Key(x, Hour)
  PROVE  Key(e, unit) = Key(x, unit)
<1>1. Truncate(OccurredAt[e], Hour) = Truncate(OccurredAt[x], Hour) /\ UserOf[e] = UserOf[x]
  BY DEF Key
<1>2. Truncate(Truncate(OccurredAt[e], Hour), unit) = Truncate(OccurredAt[e], unit)
  BY ConstantTypes, TruncateCoarser DEF Unit
<1>3. Truncate(Truncate(OccurredAt[x], Hour), unit) = Truncate(OccurredAt[x], unit)
  BY ConstantTypes, TruncateCoarser DEF Unit
<1> QED
  BY <1>1, <1>2, <1>3 DEF Key

LEMMA Least ==
  ASSUME NEW S \in SUBSET Nat, S # {}
  PROVE  \E m \in S : \A k \in S : m <= k
<1>1. PICK m \in S : \A k \in S : ~(<<k, m>> \in OpToRel(<, Nat))
  BY NatLessThanWellFounded, WFMin, Zenon
<1>2. \A k \in S : ~(k < m)
  BY <1>1 DEF OpToRel
<1> QED
  BY <1>2

LEMMA MinIs ==
  ASSUME NEW S \in SUBSET Nat, S # {}
  PROVE  Min(S) \in S /\ \A k \in S : Min(S) <= k
  BY Least DEF Min

\* A batch is a sequence of events.
Batch(batch) == \E n \in Nat : batch \in [1..n -> Event]

LEMMA BatchIs ==
  ASSUME NEW batch, Batch(batch)
  PROVE  /\ ToSet(batch) \subseteq Event /\ IsFiniteSet(ToSet(batch))
         /\ DOMAIN batch \subseteq Nat /\ IsFiniteSet(DOMAIN batch)
         /\ \A i \in DOMAIN batch : batch[i] \in ToSet(batch) /\ \A j \in 1..(i - 1) : j \in DOMAIN batch
         /\ Opening(batch) \subseteq DOMAIN batch /\ IsFiniteSet(Opening(batch))
<1>1. PICK n \in Nat : batch \in [1..n -> Event]
  BY DEF Batch
<1>2. IsFiniteSet(DOMAIN batch)
  BY <1>1, FS_Interval
<1>3. ToSet(batch) \subseteq Event
  BY <1>1 DEF ToSet
<1>4. IsFiniteSet(ToSet(batch))
  BY <1>3, ConstantTypes, FS_Subset
<1>5. Opening(batch) \subseteq DOMAIN batch
  BY DEF Opening
<1>6. IsFiniteSet(Opening(batch))
  BY <1>2, <1>5, FS_Subset
<1>7. \A i \in DOMAIN batch : batch[i] \in ToSet(batch) /\ \A j \in 1..(i - 1) : j \in DOMAIN batch
  BY <1>1 DEF ToSet
<1> QED
  BY <1>1, <1>2, <1>3, <1>4, <1>5, <1>6, <1>7

\* key gives the position of the event that opens the group of each event.
Opener(key, batch) ==
  /\ \A e \in ToSet(batch) : key[e] \in Opening(batch)
  /\ \A e \in ToSet(batch), i \in Opening(batch) : key[e] = i <=> Key(e, Hour) = Key(batch[i], Hour)

\* Every event of a batch is in exactly one group.
LEMMA OpenerExists ==
  ASSUME NEW batch, Batch(batch)
  PROVE  \E key : Opener(key, batch)
<1> DEFINE B == ToSet(batch)
           O == Opening(batch)
           Opens(e, i) == i \in O /\ Key(e, Hour) = Key(batch[i], Hour)
           key == [e \in B |-> CHOOSE i : Opens(e, i)]
<1>1. ASSUME NEW e \in B PROVE \E i : Opens(e, i)
  <2> DEFINE S == {j \in DOMAIN batch : Key(e, Hour) = Key(batch[j], Hour)}
  <2>1. S \in SUBSET Nat /\ S # {}
    BY BatchIs DEF ToSet
  <2>2. PICK m \in S : \A k \in S : m <= k
    BY <2>1, Least
  <2>3. ASSUME NEW j \in 1..(m - 1) PROVE batch[j] \notin GroupOf(batch, m)
    <3>1. m \in Nat /\ j < m /\ j \in DOMAIN batch
      BY <2>1, BatchIs
    <3>2. j \notin S
      BY <2>2, <3>1, <2>1
    <3> QED
      BY <3>1, <3>2 DEF GroupOf
  <2> QED
    BY <2>2, <2>3 DEF Opening
<1>2. ASSUME NEW e \in B, NEW i, NEW j, Opens(e, i), Opens(e, j) PROVE i = j
  <2>1. i \in Nat /\ j \in Nat /\ i \in DOMAIN batch /\ j \in DOMAIN batch /\ i >= 1 /\ j >= 1
    BY <1>2, BatchIs DEF Opening, Batch
  <2>2. batch[i] \in GroupOf(batch, j) /\ batch[j] \in GroupOf(batch, i)
    BY <1>2, <2>1, BatchIs DEF GroupOf
  <2>3. i \notin 1..(j - 1) /\ j \notin 1..(i - 1)
    BY <1>2, <2>2 DEF Opening
  <2> QED
    BY <2>1, <2>3
<1>3. \A e \in B : Opens(e, key[e])
  BY <1>1
<1> HIDE DEF key
<1>4. Opener(key, batch)
  BY <1>2, <1>3 DEF Opener
<1> QED
  BY <1>4

\* What the groups of a batch are.
LEMMA GroupsAre ==
  ASSUME NEW batch, Batch(batch), NEW i \in Opening(batch)
  PROVE  /\ DOMAIN GroupRollups(batch) = Opening(batch)
         /\ GroupRollups(batch)[i].first = batch[i]
         /\ GroupRollups(batch)[i].requests = Cardinality(GroupOf(batch, i))
         /\ GroupRollups(batch)[i].teamId = stamp[batch[i]]
         /\ GroupRollups(batch)[i].costUsd = SumCost(GroupOf(batch, i))
         /\ IsFiniteSet(GroupOf(batch, i)) /\ Cardinality(GroupOf(batch, i)) \in Nat
         /\ SumCost(GroupOf(batch, i)) \in Nat
<1>1. GroupOf(batch, i) \subseteq ToSet(batch)
  BY DEF GroupOf
<1>2. IsFiniteSet(GroupOf(batch, i)) /\ GroupOf(batch, i) \subseteq Event
  BY <1>1, BatchIs, FS_Subset
<1>3. Cardinality(GroupOf(batch, i)) \in Nat
  BY <1>2, FS_CardinalityType
<1>4. Countable(CostUsd, GroupOf(batch, i))
  BY <1>2, ConstantTypes DEF Countable
<1>5. SumCost(GroupOf(batch, i)) \in Nat
  BY <1>4, SumNat DEF SumCost
<1> QED
  BY <1>2, <1>3, <1>5 DEF GroupRollups, TeamOf

\* The costs of the groups as the tables store them.
StoredCosts(batch) == [i \in Opening(batch) |-> Stored(SumCost(GroupOf(batch, i)))]

\* The positions whose groups go into a row.
LEMMA IntoIs ==
  ASSUME NEW batch, Batch(batch), NEW unit, NEW k
  PROVE  /\ Into(k, unit, GroupRollups(batch)) = {i \in Opening(batch) : Key(batch[i], unit) = k}
         /\ Into(k, unit, GroupRollups(batch)) \subseteq Opening(batch)
         /\ Into(k, unit, GroupRollups(batch)) \in SUBSET Nat
         /\ IsFiniteSet(Into(k, unit, GroupRollups(batch)))
<1>1. DOMAIN GroupRollups(batch) = Opening(batch)
  BY DEF GroupRollups
<1>2. Into(k, unit, GroupRollups(batch)) = {i \in Opening(batch) : Key(batch[i], unit) = k}
  BY <1>1, GroupsAre DEF Into
<1>3. Opening(batch) \subseteq Nat /\ IsFiniteSet(Opening(batch))
  BY BatchIs
<1> QED
  BY <1>2, <1>3, FS_Subset

\* The sums that a batch adds to the row of key k: its number of groups, the
\* requests, and the stored costs, which are the cost of the events up to one
\* rounding for each group.
LEMMA BatchSums ==
  ASSUME NEW batch, Batch(batch), NEW unit, Unit(unit), NEW k, NEW mine,
         mine = Into(k, unit, GroupRollups(batch))
  PROVE  /\ Cardinality(mine) \in Nat /\ Cardinality(mine) <= Cardinality(Holds(ToSet(batch), unit, k))
         /\ SumOver([i \in mine |-> GroupRollups(batch)[i].requests], mine)
              = Cardinality(Holds(ToSet(batch), unit, k))
         /\ SumOver([i \in mine |-> Stored(GroupRollups(batch)[i].costUsd)], mine)
              = SumOver(StoredCosts(batch), mine)
         /\ Countable(StoredCosts(batch), mine)
         /\ SumOver(StoredCosts(batch), mine) \in Nat
         /\ Within(SumOver(StoredCosts(batch), mine), SumCost(Holds(ToSet(batch), unit, k)), Cardinality(mine))
<1> DEFINE B == ToSet(batch)
           new == Holds(B, unit, k)
           G == GroupRollups(batch)
           cost == [i \in mine |-> SumCost(GroupOf(batch, i))]
           reqs == [i \in mine |-> G[i].requests]
           stored == [i \in mine |-> Stored(G[i].costUsd)]
           eones == [e \in Event |-> 1]
           iones == [i \in mine |-> 1]
<1>1. PICK key : Opener(key, batch)
  BY OpenerExists
<1>2. /\ mine = {i \in Opening(batch) : Key(batch[i], unit) = k}
      /\ mine \subseteq Opening(batch) /\ IsFiniteSet(mine)
  BY IntoIs
<1>3. B \subseteq Event /\ \A i \in Opening(batch) : batch[i] \in B
  BY BatchIs
<1>4. \A e \in B, i \in Opening(batch) : key[e] = i => Key(e, unit) = Key(batch[i], unit)
  BY <1>1, <1>3, KeyCoarser DEF Opener
<1>5. \A e \in new : key[e] \in mine
  BY <1>1, <1>2, <1>4 DEF Holds, Opener
<1>6. ASSUME NEW i \in mine PROVE Fibre(new, key, i) = GroupOf(batch, i)
  BY <1>1, <1>2, <1>4 DEF Holds, Opener, Fibre, GroupOf
<1>7. IsFiniteSet(new) /\ new \subseteq Event
  BY <1>3, BatchIs, FS_Subset DEF Holds
<1>8. \A i \in mine : /\ G[i].requests = Cardinality(GroupOf(batch, i))
                      /\ G[i].costUsd = SumCost(GroupOf(batch, i))
                      /\ IsFiniteSet(GroupOf(batch, i)) /\ SumCost(GroupOf(batch, i)) \in Nat
  BY <1>2, GroupsAre
<1>9. Cardinality(mine) \in Nat
  BY <1>2, FS_CardinalityType
<1> HIDE DEF G, new, B
<1>10. SumOver(reqs, mine) = Cardinality(new)
  <2>1. \A e \in new : eones[e] = 1
    BY <1>7
  <2> HIDE DEF eones
  <2>2. Summable(eones, new) /\ SumOver(eones, new) = Cardinality(new)
    BY <1>7, <2>1, SumOnes
  <2>3. ASSUME NEW i \in mine PROVE reqs[i] = SumOver(eones, Fibre(new, key, i))
    <3>1. Fibre(new, key, i) \subseteq new
      BY DEF Fibre
    <3>2. IsFiniteSet(Fibre(new, key, i)) /\ \A e \in Fibre(new, key, i) : eones[e] = 1
      BY <1>7, <2>1, <3>1, FS_Subset
    <3>3. SumOver(eones, Fibre(new, key, i)) = Cardinality(Fibre(new, key, i))
      BY <3>2, SumOnes
    <3> QED
      BY <1>6, <1>8, <3>3
  <2> HIDE DEF reqs
  <2> QED
    BY <1>2, <1>5, <2>2, <2>3, SumFibres
<1>11. SumCost(new) = SumOver(cost, mine) /\ Summable(cost, mine)
  <2>1. Summable(CostUsd, new)
    BY <1>7, ConstantTypes DEF Summable
  <2>2. \A i \in mine : cost[i] = SumOver(CostUsd, Fibre(new, key, i))
    BY <1>6 DEF SumCost
  <2> HIDE DEF cost
  <2>3. SumOver(CostUsd, new) = SumOver(cost, mine) /\ Summable(cost, mine)
    BY <1>2, <1>5, <2>1, <2>2, SumFibres
  <2> QED
    BY <2>3 DEF SumCost
<1>12. /\ Countable(stored, mine)
       /\ \A i \in mine : stored[i] = StoredCosts(batch)[i] /\ Within(stored[i], cost[i], iones[i])
  BY <1>2, <1>8, StoredWithin DEF Countable, StoredCosts
<1>13. Summable(iones, mine) /\ SumOver(iones, mine) = Cardinality(mine)
  <2>1. \A i \in mine : iones[i] = 1
    OBVIOUS
  <2> HIDE DEF iones
  <2> QED
    BY <1>2, <2>1, SumOnes
<1>14. Cardinality(mine) <= Cardinality(new)
  <2>1. \A i \in mine : reqs[i] \in Int /\ iones[i] <= reqs[i]
    <3> TAKE i \in mine
    <3>1. batch[i] \in GroupOf(batch, i)
      BY <1>2, BatchIs DEF GroupOf
    <3>2. Cardinality(GroupOf(batch, i)) \in Nat /\ Cardinality(GroupOf(batch, i)) # 0
      BY <1>8, <3>1, FS_CardinalityType, FS_EmptySet
    <3> QED
      BY <1>8, <3>2
  <2>2. Summable(reqs, mine)
    BY <1>2, <2>1 DEF Summable
  <2> HIDE DEF reqs, iones
  <2>3. SumOver(iones, mine) <= SumOver(reqs, mine)
    BY <1>13, <2>1, <2>2, SumMono
  <2> QED
    BY <1>10, <1>13, <2>3
<1> HIDE DEF stored, cost, iones
<1>15. Summable(stored, mine) /\ SumOver(stored, mine) \in Nat
  BY <1>12, SumNat
<1>16. SumOver(stored, mine) = SumOver(StoredCosts(batch), mine)
  BY <1>12, <1>15, SumSame
<1>17. Within(SumOver(stored, mine), SumOver(cost, mine), SumOver(iones, mine))
  BY <1>11, <1>12, <1>13, <1>15, WithinSum
<1>18. Countable(StoredCosts(batch), mine)
  BY <1>12 DEF Countable
<1>19. SumOver(StoredCosts(batch), mine) \in Nat
  BY <1>15, <1>16
<1>20. Within(SumOver(StoredCosts(batch), mine), SumCost(new), Cardinality(mine))
  BY <1>11, <1>13, <1>16, <1>17
<1> QED
  BY <1>9, <1>10, <1>16, <1>18, <1>19, <1>20, <1>14 DEF G, new, B, reqs, stored

\* table has a row for each bucket and user, which counts the events of R that
\* belong to it and holds their cost up to one rounding for each increment.
Rolls(table, unit, R) ==
  /\ table \in [Keys(unit) -> Row]
  /\ \A k \in Keys(unit) :
       /\ table[k].requests = Cardinality(Holds(R, unit, k)) /\ table[k].parts <= table[k].requests
       /\ Within(table[k].costUsd, SumCost(Holds(R, unit, k)), table[k].parts)

LEMMA HoldsIs ==
  ASSUME NEW R \in SUBSET Event, NEW unit, NEW k
  PROVE  /\ Holds(R, unit, k) \subseteq R /\ IsFiniteSet(Holds(R, unit, k))
         /\ Cardinality(Holds(R, unit, k)) \in Nat
         /\ Summable(CostUsd, Holds(R, unit, k)) /\ SumCost(Holds(R, unit, k)) \in Nat
<1>1. Holds(R, unit, k) \subseteq R
  BY DEF Holds
<1>2. IsFiniteSet(Holds(R, unit, k))
  BY <1>1, ConstantTypes, FS_Subset
<1>3. Countable(CostUsd, Holds(R, unit, k))
  BY <1>1, <1>2, ConstantTypes DEF Countable
<1>4. Summable(CostUsd, Holds(R, unit, k)) /\ SumCost(Holds(R, unit, k)) \in Nat
  BY <1>3, SumNat DEF SumCost
<1> QED
  BY <1>1, <1>2, <1>4, FS_CardinalityType

\* persistBatch keeps a table in step with the events.
LEMMA UpsertRolls ==
  ASSUME NEW batch, Batch(batch), NEW unit, Unit(unit), NEW R \in SUBSET Event,
         ToSet(batch) \cap R = {}, NEW table, Rolls(table, unit, R),
         \A e \in ToSet(batch) : stamp[e] \in Team \cup {"none"}
  PROVE  Rolls(Upsert(table, unit, GroupRollups(batch)), unit, R \cup ToSet(batch))
<1> DEFINE B == ToSet(batch)
           G == GroupRollups(batch)
           new == Upsert(table, unit, G)
<1>1. B \in SUBSET Event
  BY BatchIs
<1>2. DOMAIN table = Keys(unit) /\ \A k \in Keys(unit) : table[k] \in Row
  BY DEF Rolls
<1>3. new = [k \in Keys(unit) |-> Added(table[k], G, Into(k, unit, G))]
  BY <1>2 DEF Upsert
<1>4. ASSUME NEW k \in Keys(unit)
      PROVE  /\ new[k] \in Row
             /\ new[k].requests = Cardinality(Holds(R \cup B, unit, k)) /\ new[k].parts <= new[k].requests
             /\ Within(new[k].costUsd, SumCost(Holds(R \cup B, unit, k)), new[k].parts)
  <2> DEFINE r == table[k]
             mine == Into(k, unit, G)
             old == Holds(R, unit, k)
             more == Holds(B, unit, k)
             c == SumOver(StoredCosts(batch), mine)
  <2>1. /\ r.requests \in Nat /\ r.costUsd \in Nat /\ r.teamId \in Team \cup {"none"} /\ r.parts \in Nat
        /\ r.requests = Cardinality(old) /\ r.parts <= r.requests
        /\ Within(r.costUsd, SumCost(old), r.parts)
    BY <1>2 DEF Row, Rolls
  <2>2. /\ Cardinality(mine) \in Nat /\ c \in Nat /\ Cardinality(mine) <= Cardinality(more)
        /\ SumOver([i \in mine |-> G[i].requests], mine) = Cardinality(more)
        /\ SumOver([i \in mine |-> Stored(G[i].costUsd)], mine) = c
        /\ Within(c, SumCost(more), Cardinality(mine))
    BY BatchSums
  <2>3. Holds(R \cup B, unit, k) = old \cup more /\ old \cap more = {}
    BY DEF Holds
  <2>4. /\ IsFiniteSet(old) /\ IsFiniteSet(more) /\ Cardinality(old) \in Nat /\ Cardinality(more) \in Nat
        /\ Summable(CostUsd, old) /\ Summable(CostUsd, more) /\ SumCost(old) \in Nat /\ SumCost(more) \in Nat
    BY <1>1, HoldsIs
  <2>5. mine # {} => G[Min(mine)].teamId \in Team \cup {"none"}
    <3>1. mine \subseteq Opening(batch) /\ mine \in SUBSET Nat
      BY IntoIs
    <3>2. mine # {} => Min(mine) \in mine
      BY <3>1, MinIs
    <3>3. mine # {} => G[Min(mine)].teamId = stamp[batch[Min(mine)]] /\ batch[Min(mine)] \in B
      BY <3>1, <3>2, GroupsAre, BatchIs
    <3> QED
      BY <3>3
  <2>6. new[k] = Added(r, G, mine)
    BY <1>3
  <2> HIDE DEF r, mine, old, more, c, new, G, B
  <2>7. /\ new[k].requests = r.requests + Cardinality(more)
        /\ new[k].costUsd = r.costUsd + c
        /\ new[k].parts = r.parts + Cardinality(mine)
        /\ new[k].teamId \in Team \cup {"none"}
        /\ new[k] = [requests |-> new[k].requests, costUsd |-> new[k].costUsd,
                     teamId |-> new[k].teamId, parts |-> new[k].parts]
    BY <2>1, <2>2, <2>5, <2>6 DEF Added
  <2>8. new[k] \in Row
    BY <2>1, <2>2, <2>4, <2>7 DEF Row
  <2>9. Cardinality(old \cup more) = Cardinality(old) + Cardinality(more)
    <3>1. Cardinality(old \cup more) = Cardinality(old) + Cardinality(more) - Cardinality(old \cap more)
      BY <2>4, FS_Union
    <3>2. Cardinality(old \cap more) = 0
      BY <2>3, FS_EmptySet
    <3> QED
      BY <2>4, <3>1, <3>2
  <2>10. SumCost(old \cup more) = SumCost(old) + SumCost(more)
    BY <2>3, <2>4, SumUnion DEF SumCost
  <2>11. Within(r.costUsd + c, SumCost(old) + SumCost(more), r.parts + Cardinality(mine))
    <3>1. /\ r.costUsd \in Int /\ SumCost(old) \in Int /\ r.parts \in Int
          /\ c \in Int /\ SumCost(more) \in Int /\ Cardinality(mine) \in Int
      BY <2>1, <2>2, <2>4
    <3>2. Within(r.costUsd, SumCost(old), r.parts) /\ Within(c, SumCost(more), Cardinality(mine))
      BY <2>1, <2>2
    <3> QED
      BY <3>1, <3>2, WithinAdd, Zenon
  <2>12. new[k].parts <= new[k].requests
    BY <2>1, <2>2, <2>4, <2>7
  <2> QED
    BY <2>1, <2>3, <2>7, <2>8, <2>9, <2>10, <2>11, <2>12
<1>5. new \in [Keys(unit) -> Row]
  <2>1. DOMAIN new = Keys(unit) /\ new = [k \in Keys(unit) |-> new[k]]
    BY <1>3
  <2> HIDE DEF new
  <2> QED
    BY <1>4, <2>1
<1> HIDE DEF new, B
<1>6. Rolls(new, unit, R \cup B)
  BY <1>4, <1>5 DEF Rolls
<1> QED
  BY <1>6 DEF new, B

\* The hours of a day and user.
DayHours(k) == {h \in Keys(Hour) : h[2] = k[2] /\ k[1] <= h[1] /\ h[1] < k[1] + Day}

LEMMA KeysFinite ==
  ASSUME NEW unit
  PROVE  IsFiniteSet(Buckets(unit)) /\ IsFiniteSet(Keys(unit))
<1> DEFINE f == [e \in Event |-> (OccurredAt[e] \div unit) * unit]
<1>1. f \in Surjection(Event, Buckets(unit))
  BY DEF Buckets, Surjection
<1>2. IsFiniteSet(Buckets(unit))
  BY <1>1, ConstantTypes, FS_Surjection
<1> QED
  BY <1>2, ConstantTypes, FS_Product DEF Keys

LEMMA BucketIs ==
  ASSUME NEW unit, Unit(unit), NEW b \in Buckets(unit)
  PROVE  b \in Nat /\ Multiple(b, unit)
<1>1. PICK e \in Event : b = Truncate(OccurredAt[e], unit)
  BY DEF Buckets, Truncate
<1> QED
  BY <1>1, ConstantTypes, TruncateIs DEF Unit

\* An event is of a day exactly when its hour is one of it.
LEMMA KeyOfDay ==
  ASSUME NEW e \in Event, NEW k \in Keys(Day)
  PROVE  Key(e, Day) = k <=> Key(e, Hour) \in DayHours(k)
<1> DEFINE y == Truncate(OccurredAt[e], Hour)
<1>1. k = <<k[1], k[2]>> /\ k[1] \in Nat /\ Multiple(k[1], Day)
  BY UnitsAre, BucketIs DEF Keys
<1>2. y \in Nat
  BY ConstantTypes, TruncateIs
<1>3. Truncate(y, Day) = Truncate(OccurredAt[e], Day)
  BY ConstantTypes, DayIsHours, TruncateCoarser
<1>4. Key(e, Hour) \in Keys(Hour) /\ Key(e, Hour)[1] = y /\ Key(e, Hour)[2] = UserOf[e]
  BY UnitsAre, KeyIs DEF Key
<1>5. Key(e, Day) = <<Truncate(y, Day), UserOf[e]>>
  BY <1>3 DEF Key
<1> HIDE DEF y
<1>6. k[1] <= y /\ y < k[1] + Day <=> Truncate(y, Day) = k[1]
  <2>1. k[1] <= y /\ y < k[1] + Day => Truncate(y, Day) = k[1]
    BY <1>1, <1>2, ConstantTypes, TruncateUnique
  <2>2. Truncate(y, Day) <= y /\ y < Truncate(y, Day) + Day
    BY <1>2, ConstantTypes, TruncateIs
  <2> QED
    BY <2>1, <2>2
<1> QED
  BY <1>1, <1>4, <1>5, <1>6 DEF DayHours

\* The costs of a table.
Costs(table) == [h \in DOMAIN table |-> table[h].costUsd]

\* The daily table holds the sums of the hourly one.
AddsUp(hours, days) == \A k \in Keys(Day) : days[k].costUsd = SumOver(Costs(hours), DayHours(k))

LEMMA CostsAre ==
  ASSUME NEW unit, NEW table \in [Keys(unit) -> Row], NEW S \in SUBSET Keys(unit)
  PROVE  Countable(Costs(table), S) /\ \A k \in S : Costs(table)[k] = table[k].costUsd
<1>1. IsFiniteSet(S)
  BY KeysFinite, FS_Subset
<1> QED
  BY <1>1 DEF Countable, Costs, Row

\* What the upserts of a batch add to the cost of a row.
LEMMA UpsertCost ==
  ASSUME NEW batch, Batch(batch), NEW unit, Unit(unit), NEW table \in [Keys(unit) -> Row], NEW k \in Keys(unit)
  PROVE  LET new == Upsert(table, unit, GroupRollups(batch))
             mine == Into(k, unit, GroupRollups(batch))
         IN  /\ DOMAIN new = Keys(unit)
             /\ new[k].costUsd = table[k].costUsd + SumOver(StoredCosts(batch), mine)
             /\ new[k].parts = table[k].parts + Cardinality(mine)
             /\ Cardinality(mine) \in Nat /\ new[k].parts >= table[k].parts
<1> DEFINE G == GroupRollups(batch)
           new == Upsert(table, unit, G)
           mine == Into(k, unit, G)
<1>1. new[k] = Added(table[k], G, mine) /\ DOMAIN new = Keys(unit)
  BY DEF Upsert
<1>2. /\ Cardinality(mine) \in Nat
      /\ SumOver([i \in mine |-> Stored(G[i].costUsd)], mine) = SumOver(StoredCosts(batch), mine)
  BY BatchSums
<1>3. table[k].parts \in Nat
  BY DEF Row
<1> HIDE DEF new, mine, G
<1>4. /\ new[k].costUsd = table[k].costUsd + SumOver(StoredCosts(batch), mine)
      /\ new[k].parts = table[k].parts + Cardinality(mine)
  BY <1>1, <1>2 DEF Added
<1>5. new[k].parts >= table[k].parts
  BY <1>2, <1>3, <1>4
<1> QED
  BY <1>1, <1>2, <1>4, <1>5 DEF new, mine, G

LEMMA UpsertAddsUp ==
  ASSUME NEW batch, Batch(batch), NEW hours \in [Keys(Hour) -> Row], NEW days \in [Keys(Day) -> Row],
         AddsUp(hours, days)
  PROVE  AddsUp(Upsert(hours, Hour, GroupRollups(batch)), Upsert(days, Day, GroupRollups(batch)))
<1> DEFINE G == GroupRollups(batch)
           nh == Upsert(hours, Hour, G)
           nd == Upsert(days, Day, G)
           s == StoredCosts(batch)
<1> SUFFICES ASSUME NEW k \in Keys(Day) PROVE nd[k].costUsd = SumOver(Costs(nh), DayHours(k))
  BY DEF AddsUp
<1> DEFINE H == DayHours(k)
           I == Into(k, Day, G)
           hk == [i \in I |-> Key(batch[i], Hour)]
           g == [h \in H |-> SumOver(s, Into(h, Hour, G))]
<1>1. H \in SUBSET Keys(Hour) /\ IsFiniteSet(H)
  <2>1. H \in SUBSET Keys(Hour)
    BY DEF DayHours
  <2> QED
    BY <2>1, KeysFinite, FS_Subset
<1>2. /\ I = {i \in Opening(batch) : Key(batch[i], Day) = k}
      /\ \A h \in H : Into(h, Hour, G) = {i \in Opening(batch) : Key(batch[i], Hour) = h}
      /\ \A i \in Opening(batch) : batch[i] \in Event
  BY IntoIs, BatchIs
<1>3. /\ nd[k].costUsd = days[k].costUsd + SumOver(s, I)
      /\ Countable(s, I)
  BY UnitsAre, UpsertCost, BatchSums
<1>4. /\ DOMAIN nh = Keys(Hour)
      /\ \A h \in H : nh[h].costUsd = hours[h].costUsd + SumOver(s, Into(h, Hour, G))
  <2>1. \A h \in H : /\ DOMAIN nh = Keys(Hour)
                     /\ nh[h].costUsd = hours[h].costUsd + SumOver(s, Into(h, Hour, G))
    BY <1>1, UnitsAre, UpsertCost
  <2>2. DOMAIN nh = Keys(Hour)
    BY DEF Upsert
  <2> QED
    BY <2>1, <2>2
<1>5. \A i \in I : hk[i] \in H
  BY <1>2, KeyOfDay
<1>6. ASSUME NEW h \in H PROVE Fibre(I, hk, h) = Into(h, Hour, G)
  BY <1>2, KeyOfDay DEF Fibre
<1> HIDE DEF I, H, G, s, nh, nd, hk
<1>7. Summable(s, I)
  BY <1>3, SumNat
<1>8. \A h \in H : g[h] = SumOver(s, Fibre(I, hk, h))
  BY <1>6
<1> HIDE DEF g
<1>9. Summable(g, H) /\ SumOver(s, I) = SumOver(g, H)
  BY <1>1, <1>5, <1>7, <1>8, SumFibres
<1>10. Countable(Costs(hours), H) /\ \A h \in H : Costs(hours)[h] = hours[h].costUsd
  BY <1>1, CostsAre
<1>11. Summable(Costs(hours), H)
  BY <1>10, SumNat
<1>12. \A h \in H : Costs(nh)[h] = Costs(hours)[h] + g[h]
  BY <1>1, <1>4, <1>6, <1>8, <1>10 DEF Costs
<1>13. SumOver(Costs(nh), H) = SumOver(Costs(hours), H) + SumOver(g, H)
  BY <1>9, <1>11, <1>12, SumPlus
<1>14. days[k].costUsd = SumOver(Costs(hours), H)
  BY DEF AddsUp, H
<1> QED
  BY <1>3, <1>9, <1>13, <1>14 DEF H, nh, nd

\* A row with requests has the team of one of its events.
Stamped(days, R) ==
  \A k \in Keys(Day) : days[k].requests > 0 => \E e \in Holds(R, Day, k) : days[k].teamId = stamp[e]

LEMMA UpsertStamped ==
  ASSUME NEW batch, Batch(batch), NEW R \in SUBSET Event, ToSet(batch) \cap R = {},
         NEW days, Rolls(days, Day, R), Stamped(days, R)
  PROVE  Stamped(Upsert(days, Day, GroupRollups(batch)), R \cup ToSet(batch))
<1> DEFINE G == GroupRollups(batch)
           B == ToSet(batch)
           new == Upsert(days, Day, G)
<1> SUFFICES ASSUME NEW k \in Keys(Day), new[k].requests > 0
             PROVE  \E e \in Holds(R \cup B, Day, k) : new[k].teamId = stamp[e]
  BY DEF Stamped
<1> DEFINE mine == Into(k, Day, G)
<1>1. new[k] = Added(days[k], G, mine) /\ days[k].requests \in Nat
  BY DEF Upsert, Rolls, Row
<1>2. Holds(R, Day, k) \subseteq Holds(R \cup B, Day, k) /\ Holds(B, Day, k) \subseteq Holds(R \cup B, Day, k)
  BY DEF Holds
<1>3. CASE days[k].requests > 0
  <2>1. new[k].teamId = days[k].teamId
    BY <1>1, <1>3 DEF Added
  <2> QED
    BY <1>2, <1>3, <2>1 DEF Stamped
<1>4. CASE days[k].requests = 0 /\ mine # {}
  <2>1. new[k].teamId = G[Min(mine)].teamId
    BY <1>1, <1>4 DEF Added
  <2>2. mine \in SUBSET Nat /\ mine = {i \in Opening(batch) : Key(batch[i], Day) = k}
    BY IntoIs
  <2>3. Min(mine) \in mine
    BY <1>4, <2>2, MinIs
  <2>4. Min(mine) \in Opening(batch) /\ Key(batch[Min(mine)], Day) = k
    BY <2>2, <2>3
  <2>5. G[Min(mine)].teamId = stamp[batch[Min(mine)]]
    BY <2>4, GroupsAre
  <2>6. batch[Min(mine)] \in Holds(B, Day, k)
    BY <2>4, BatchIs DEF Holds
  <2> QED
    BY <1>2, <2>1, <2>5, <2>6
<1>5. CASE days[k].requests = 0 /\ mine = {}
  <2>1. SumOver([i \in mine |-> G[i].requests], mine) = 0
    BY <1>5, SumEmpty
  <2>2. new[k].requests = 0
    BY <1>1, <1>5, <2>1 DEF Added
  <2> QED
    BY <2>2
<1> QED
  BY <1>1, <1>3, <1>4, <1>5

---------------------------------------------------------------------------
(* The explorer *)

LEMMA SetToSeqIs ==
  ASSUME NEW S \in SUBSET Event
  PROVE  SetToSeq(S) \in Seq(Event) /\ IsInjective(SetToSeq(S)) /\ ToSet(SetToSeq(S)) = S
<1> DEFINE n == Cardinality(S)
           f == SetToSeq(S)
<1>1. IsFiniteSet(S)
  BY ConstantTypes, FS_Subset
<1>2. n \in Nat /\ ExistsBijection(1..n, S)
  BY <1>1, FS_CardinalityType
<1>3. \E g \in [1..n -> S] : IsInjective(g)
  BY <1>2 DEF ExistsBijection, Bijection, Injection
<1>4. f \in [1..n -> S] /\ IsInjective(f)
  BY <1>3 DEF SetToSeq
<1> HIDE DEF f
<1>5. f \in Seq(Event)
  BY <1>2, <1>4
<1>6. IsFiniteSet(1..n) /\ Cardinality(1..n) = n
  BY <1>2, FS_Interval
<1>7. f \in Injection(1..n, S)
  BY <1>4 DEF Injection
<1>8. f \in Surjection(1..n, S)
  BY <1>1, <1>6, <1>7, FS_Injection
<1>9. ToSet(f) = S
  BY <1>4, <1>8 DEF Surjection, ToSet
<1> QED
  BY <1>4, <1>5, <1>9 DEF f

LEMMA JoinedIs ==
  ASSUME NEW s \in Seq(Event), NEW t \in Seq(Event), IsInjective(s), IsInjective(t),
         ToSet(s) \cap ToSet(t) = {}
  PROVE  s \o t \in Seq(Event) /\ IsInjective(s \o t) /\ ToSet(s \o t) = ToSet(s) \cup ToSet(t)
<1>1. /\ s \o t \in Seq(Event) /\ DOMAIN s = 1..Len(s) /\ DOMAIN t = 1..Len(t)
      /\ Len(s) \in Nat /\ Len(t) \in Nat
      /\ DOMAIN (s \o t) = 1..(Len(s) + Len(t))
      /\ \A i \in 1..Len(s) : (s \o t)[i] = s[i]
      /\ \A i \in 1..(Len(s) + Len(t)) : i > Len(s) => (s \o t)[i] = t[i - Len(s)]
  OBVIOUS
<1> DEFINE u == s \o t
           m == Len(s)
           n == Len(t)
<1> HIDE DEF u, m, n
<1>2. /\ DOMAIN s = 1..m /\ DOMAIN t = 1..n /\ m \in Nat /\ n \in Nat /\ DOMAIN u = 1..(m + n)
      /\ \A i \in 1..m : u[i] = s[i]
      /\ \A i \in 1..(m + n) : i > m => u[i] = t[i - m]
  BY <1>1 DEF u, m, n
<1>3. \A i \in 1..(m + n) : i \in 1..m \/ (i > m /\ i - m \in 1..n)
  BY <1>2
<1>4. \A i \in 1..n : i + m \in 1..(m + n) /\ i + m > m /\ (i + m) - m = i
  BY <1>2
<1>5. \A i \in 1..m : i \in 1..(m + n)
  BY <1>2
<1>6. ToSet(u) = ToSet(s) \cup ToSet(t)
  <2>1. ASSUME NEW i \in 1..(m + n) PROVE u[i] \in ToSet(s) \cup ToSet(t)
    BY <1>2, <1>3 DEF ToSet
  <2>2. ASSUME NEW i \in 1..m PROVE s[i] \in ToSet(u)
    BY <1>2, <1>5 DEF ToSet
  <2>3. ASSUME NEW i \in 1..n PROVE t[i] \in ToSet(u)
    <3>1. u[i + m] = t[i]
      BY <1>2, <1>4
    <3> QED
      BY <1>2, <1>4, <3>1 DEF ToSet
  <2>4. ToSet(u) \subseteq ToSet(s) \cup ToSet(t)
    BY <1>2, <2>1 DEF ToSet
  <2>5. ToSet(s) \subseteq ToSet(u) /\ ToSet(t) \subseteq ToSet(u)
    BY <1>2, <2>2, <2>3 DEF ToSet
  <2> QED
    BY <2>4, <2>5
<1>7. ASSUME NEW a \in 1..(m + n), NEW b \in 1..(m + n), u[a] = u[b] PROVE a = b
  <2>1. CASE a \in 1..m /\ b \in 1..m
    BY <1>2, <1>7, <2>1 DEF IsInjective
  <2>2. CASE a > m /\ a - m \in 1..n /\ b > m /\ b - m \in 1..n
    <3>1. t[a - m] = t[b - m]
      BY <1>2, <1>7, <2>2
    <3>2. a - m = b - m
      BY <1>2, <2>2, <3>1 DEF IsInjective
    <3> QED
      BY <1>2, <3>2
  <2>3. ASSUME NEW i \in 1..m, NEW j \in 1..n, s[i] = t[j] PROVE FALSE
    BY <1>2, <2>3 DEF ToSet
  <2>4. CASE a \in 1..m /\ b > m /\ b - m \in 1..n
    BY <1>2, <1>7, <2>3, <2>4
  <2>5. CASE b \in 1..m /\ a > m /\ a - m \in 1..n
    BY <1>2, <1>7, <2>3, <2>5
  <2> QED
    BY <1>3, <2>1, <2>2, <2>4, <2>5
<1>8. IsInjective(u)
  BY <1>2, <1>7 DEF IsInjective
<1> QED
  BY <1>1, <1>6, <1>8 DEF u

Explorer == [kind : {"explorer"}, shown : Seq(Event), cursor : Int, more : BOOLEAN, owed : SUBSET Event]

\* An explorer that can go on, and one at its end.
GoesOn(s, c, o) == [kind |-> "explorer", shown |-> s, cursor |-> c, more |-> TRUE, owed |-> o]
AtEnd(s, c, o) == [kind |-> "explorer", shown |-> s, cursor |-> c, more |-> FALSE, owed |-> o]

LEMMA GoesOnIs ==
  ASSUME NEW s \in Seq(Event), NEW c \in Int, NEW o \in SUBSET Event
  PROVE  /\ GoesOn(s, c, o) \in Explorer
         /\ GoesOn(s, c, o).shown = s /\ GoesOn(s, c, o).cursor = c
         /\ GoesOn(s, c, o).more /\ GoesOn(s, c, o).owed = o
  BY DEF Explorer, GoesOn

LEMMA AtEndIs ==
  ASSUME NEW s \in Seq(Event), NEW c \in Int, NEW o \in SUBSET Event
  PROVE  /\ AtEnd(s, c, o) \in Explorer
         /\ AtEnd(s, c, o).shown = s /\ AtEnd(s, c, o).cursor = c
         /\ ~AtEnd(s, c, o).more /\ AtEnd(s, c, o).owed = o
  BY DEF Explorer, AtEnd

\* A row of the time of e was shown.
Seen(e, shown) == \E x \in ToSet(shown) : OccurredAt[x] = OccurredAt[e]

\* What the explorer has shown lies behind its cursor, and of what it owes only
\* rows ahead of the cursor are missing, or of a time at which a page ended.
Explored(r, table) ==
  r.kind = "explorer" =>
    /\ r \in Explorer
    /\ IsInjective(r.shown)
    /\ r.owed \subseteq table
    /\ r.more => \A x \in ToSet(r.shown) : ~Before(x, r.cursor)
    /\ \A e \in r.owed : (r.more => ~Before(e, r.cursor)) => Seen(e, r.shown)

\* A page: rows that are found, the newest of them.
LEMMA PageIs ==
  ASSUME NEW found \in SUBSET Event, NEW page \in Pages(found)
  PROVE  /\ page \subseteq found
         /\ \A e \in page, x \in found \ page : OccurredAt[e] >= OccurredAt[x]
         /\ Cardinality(found) > Limit => page # {}
         /\ ~(Cardinality(found) > Limit) => page = found
<1>1. IsFiniteSet(found) /\ Cardinality(found) \in Nat
  BY ConstantTypes, FS_Subset, FS_CardinalityType
<1> DEFINE S == {Limit, Cardinality(found)}
<1>2. S \in SUBSET Nat /\ S # {}
  BY <1>1, ConstantTypes
<1>3. Min(S) \in S /\ \A k \in S : Min(S) <= k
  BY <1>2, MinIs
<1>4. /\ page \in SUBSET found /\ Cardinality(page) = Min(S)
      /\ \A e \in page, x \in found \ page : OccurredAt[e] >= OccurredAt[x]
  BY DEF Pages, kSubset
<1>5. Cardinality(found) > Limit => Cardinality(page) = Limit
  BY <1>1, <1>3, <1>4, ConstantTypes
<1>6. ~(Cardinality(found) > Limit) => Cardinality(page) = Cardinality(found)
  BY <1>1, <1>3, <1>4, ConstantTypes
<1>7. Cardinality(found) > Limit => page # {}
  BY <1>5, ConstantTypes, FS_EmptySet
<1>8. ~(Cardinality(found) > Limit) => page = found
  BY <1>1, <1>4, <1>6, FS_Subset
<1> QED
  BY <1>4, <1>7, <1>8

LEMMA EdgeIs ==
  ASSUME NEW page \in SUBSET Event, page # {}
  PROVE  /\ Edge(page) \in Nat
         /\ \E x \in page : OccurredAt[x] = Edge(page)
         /\ \A x \in page : Edge(page) <= OccurredAt[x]
<1> DEFINE S == {OccurredAt[e] : e \in page}
<1>1. S \in SUBSET Nat /\ S # {}
  BY ConstantTypes
<1>2. Min(S) \in S /\ \A k \in S : Min(S) <= k
  BY <1>1, MinIs
<1>3. Edge(page) = Min(S)
  BY DEF Edge
<1> QED
  BY <1>1, <1>2, <1>3

\* The explorer after another page.
Turned(r, found, page) ==
  IF Cardinality(found) > Limit
  THEN [r EXCEPT !.shown = @ \o SetToSeq(page), !.cursor = Edge(page)]
  ELSE [r EXCEPT !.shown = @ \o SetToSeq(page), !.more = FALSE]

\* Another page keeps what Explored says.
LEMMA LoadMoreExplored ==
  ASSUME NEW table \in SUBSET Event, NEW r, r.kind = "explorer", r.more, Explored(r, table),
         NEW found, found = {e \in table : Before(e, r.cursor)},
         NEW page \in Pages(found), NEW n, n = Turned(r, found, page)
  PROVE  Explored(n, table)
<1>1. /\ r \in Explorer /\ IsInjective(r.shown) /\ r.owed \subseteq table
      /\ \A x \in ToSet(r.shown) : ~Before(x, r.cursor)
      /\ \A e \in r.owed : ~Before(e, r.cursor) => Seen(e, r.shown)
  BY DEF Explored
<1>2. /\ r.shown \in Seq(Event) /\ r.cursor \in Int /\ r.more \in BOOLEAN /\ r.owed \in SUBSET Event
  BY <1>1 DEF Explorer
<1>3. found \in SUBSET Event /\ found \subseteq table
  OBVIOUS
<1>4. /\ page \subseteq found
      /\ \A e \in page, x \in found \ page : OccurredAt[e] >= OccurredAt[x]
      /\ Cardinality(found) > Limit => page # {}
      /\ ~(Cardinality(found) > Limit) => page = found
  BY <1>3, PageIs
<1>5. /\ SetToSeq(page) \in Seq(Event) /\ IsInjective(SetToSeq(page)) /\ ToSet(SetToSeq(page)) = page
  BY <1>3, <1>4, SetToSeqIs
<1>6. ToSet(r.shown) \cap page = {}
  BY <1>1, <1>4
<1> DEFINE t == SetToSeq(page)
           shown == r.shown \o t
<1> HIDE DEF t
<1>7. shown \in Seq(Event) /\ IsInjective(shown) /\ ToSet(shown) = ToSet(r.shown) \cup page
  <2>1. t \in Seq(Event) /\ IsInjective(t) /\ ToSet(t) = page /\ ToSet(r.shown) \cap ToSet(t) = {}
    BY <1>5, <1>6 DEF t
  <2> QED
    BY <1>1, <1>2, <2>1, JoinedIs
<1> HIDE DEF shown
<1>8. \A e : Seen(e, r.shown) \/ (\E x \in page : OccurredAt[x] = OccurredAt[e]) => Seen(e, shown)
  BY <1>7 DEF Seen
<1>9. CASE Cardinality(found) > Limit
  <2> DEFINE c == Edge(page)
  <2>1. /\ c \in Nat /\ (\E x \in page : OccurredAt[x] = c) /\ \A x \in page : c <= OccurredAt[x]
    BY <1>3, <1>4, <1>9, EdgeIs
  <2>2. n = GoesOn(shown, c, r.owed)
    BY <1>1, <1>9 DEF Explorer, GoesOn, shown, t, Turned
  <2> HIDE DEF c
  <2>3. \A x \in ToSet(shown) : x \in Event /\ OccurredAt[x] \in Nat
    BY <1>2, <1>7, <1>3, <1>4, ConstantTypes DEF ToSet
  <2>4. ASSUME NEW x \in ToSet(shown) PROVE ~Before(x, c)
    <3>1. OccurredAt[x] \in Nat /\ c # -1
      BY <2>1, <2>3
    <3>2. CASE x \in page
      BY <2>1, <3>1, <3>2 DEF Before
    <3>3. CASE x \in ToSet(r.shown)
      <4>1. r.cursor # -1 /\ r.cursor <= OccurredAt[x]
        BY <1>1, <1>2, <3>1, <3>3 DEF Before
      <4>2. PICK y \in page : OccurredAt[y] = c
        BY <2>1
      <4>3. c < r.cursor
        BY <1>4, <4>1, <4>2 DEF Before
      <4> QED
        BY <1>2, <2>1, <3>1, <4>1, <4>3 DEF Before
    <3> QED
      BY <1>7, <3>2, <3>3
  <2>5. ASSUME NEW e \in r.owed, ~Before(e, c) PROVE Seen(e, shown)
    <3>1. OccurredAt[e] \in Nat /\ c <= OccurredAt[e]
      BY <1>2, <2>1, <2>5, ConstantTypes DEF Before
    <3>2. CASE ~Before(e, r.cursor)
      BY <1>1, <1>8, <3>2
    <3>3. CASE Before(e, r.cursor)
      <4>1. e \in found
        BY <1>1, <3>3
      <4>2. CASE e \in page
        BY <1>8, <4>2
      <4>3. CASE e \notin page
        <5>1. PICK y \in page : OccurredAt[y] = c
          BY <2>1
        <5>2. OccurredAt[y] >= OccurredAt[e]
          BY <1>4, <4>1, <4>3
        <5>3. OccurredAt[y] = OccurredAt[e]
          BY <2>1, <3>1, <5>1, <5>2
        <5> QED
          BY <1>8, <5>3
      <4> QED
        BY <4>2, <4>3
    <3> QED
      BY <3>2, <3>3
  <2>6. n \in Explorer /\ n.shown = shown /\ n.cursor = c /\ n.more /\ n.owed = r.owed
    <3>1. shown \in Seq(Event) /\ c \in Int /\ r.owed \in SUBSET Event
      BY <1>2, <1>7, <2>1
    <3> QED
      BY <2>2, <3>1, GoesOnIs
  <2> QED
    BY <1>1, <1>7, <2>4, <2>5, <2>6 DEF Explored
<1>10. CASE ~(Cardinality(found) > Limit)
  <2>1. n = AtEnd(shown, r.cursor, r.owed)
    BY <1>1, <1>10 DEF Explorer, AtEnd, shown, t, Turned
  <2>2. ASSUME NEW e \in r.owed PROVE Seen(e, shown)
    BY <1>1, <1>4, <1>8, <1>10
  <2>3. n \in Explorer /\ n.shown = shown /\ n.owed = r.owed /\ ~n.more
    <3>1. shown \in Seq(Event)
      BY <1>7
    <3> QED
      BY <1>2, <2>1, <3>1, AtEndIs
  <2> QED
    BY <1>1, <1>7, <2>2, <2>3 DEF Explored
<1> QED
  BY <1>9, <1>10

---------------------------------------------------------------------------
(* Reconcile *)

Reconciler ==
  [kind : {"reconcile", "reconciled"}, touched : SUBSET Nat, drift : SUBSET Nat,
   raw : [Buckets(Day) -> SUBSET Event], pruned : SUBSET Nat]

OfDay(R, d) == {e \in R : DayOf(e) = d}

\* What reconcile has read of the raw rows is all there is of a day, unless a
\* step has changed the rows of that day.
ReadRaw(r, R) ==
  r.kind = "reconcile" =>
    /\ r \in Reconciler
    /\ \A d \in Buckets(Day) \ (r.touched \cup r.pruned) : r.raw[d] = OfDay(R, d)

PartsOf(days, d) == [u \in User |-> days[<<d, u>>].parts]

\* What DriftIsExplained says.
Explains(r, days) ==
  r.kind = "reconciled" =>
    \A d \in r.drift : /\ d \in Buckets(Day)
                       /\ d \in r.touched \cup r.pruned \/ SumOver(PartsOf(days, d), User) > 1

LEMMA DayOfIs ==
  ASSUME NEW e \in Event
  PROVE  DayOf(e) = Truncate(OccurredAt[e], Day) /\ DayOf(e) \in Buckets(Day) /\ DayOf(e) \in Nat
  BY UnitsAre, BucketIs DEF DayOf, Truncate, Buckets

\* The rollups of a day, over all users, are those of its events.
LEMMA DayAdds ==
  ASSUME NEW R \in SUBSET Event, NEW days, Rolls(days, Day, R), NEW d \in Buckets(Day)
  PROVE  /\ SumOver([u \in User |-> days[<<d, u>>].requests], User) = Cardinality(OfDay(R, d))
         /\ SumOver(PartsOf(days, d), User) \in Nat
         /\ SumOver([u \in User |-> days[<<d, u>>].costUsd], User) \in Nat
         /\ SumCost(OfDay(R, d)) \in Nat
         /\ Within(SumOver([u \in User |-> days[<<d, u>>].costUsd], User),
                   SumCost(OfDay(R, d)), SumOver(PartsOf(days, d), User))
<1> DEFINE E == OfDay(R, d)
           reqs == [u \in User |-> days[<<d, u>>].requests]
           cost == [u \in User |-> days[<<d, u>>].costUsd]
           parts == PartsOf(days, d)
           sums == [u \in User |-> SumCost(Holds(R, Day, <<d, u>>))]
           ones == [e \in Event |-> 1]
<1>1. IsFiniteSet(User) /\ IsFiniteSet(E) /\ E \subseteq Event /\ \A e \in E : UserOf[e] \in User
  <2>1. E \subseteq Event
    BY DEF OfDay
  <2> QED
    BY <2>1, ConstantTypes, FS_Subset
<1>2. ASSUME NEW u \in User PROVE Fibre(E, UserOf, u) = Holds(R, Day, <<d, u>>)
  BY DayOfIs DEF Fibre, Holds, OfDay, Key
<1>3. ASSUME NEW u \in User
      PROVE  LET k == <<d, u>>
             IN  /\ days[k].requests = Cardinality(Holds(R, Day, k))
                 /\ days[k].costUsd \in Nat /\ days[k].parts \in Nat
                 /\ Within(days[k].costUsd, SumCost(Holds(R, Day, k)), days[k].parts)
  <2>1. <<d, u>> \in Keys(Day)
    BY DEF Keys
  <2>2. days[<<d, u>>] \in Row
    BY <2>1 DEF Rolls
  <2> QED
    BY <2>1, <2>2 DEF Rolls, Row
<1>4. SumOver(reqs, User) = Cardinality(E)
  <2>1. \A e \in E : ones[e] = 1
    BY <1>1
  <2> HIDE DEF ones
  <2>2. Summable(ones, E) /\ SumOver(ones, E) = Cardinality(E)
    BY <1>1, <2>1, SumOnes
  <2>3. ASSUME NEW u \in User PROVE reqs[u] = SumOver(ones, Fibre(E, UserOf, u))
    <3>1. Fibre(E, UserOf, u) \subseteq E
      BY DEF Fibre
    <3>2. IsFiniteSet(Fibre(E, UserOf, u)) /\ \A e \in Fibre(E, UserOf, u) : ones[e] = 1
      BY <1>1, <2>1, <3>1, FS_Subset
    <3>3. SumOver(ones, Fibre(E, UserOf, u)) = Cardinality(Fibre(E, UserOf, u))
      BY <3>2, SumOnes
    <3> QED
      BY <1>2, <1>3, <3>3
  <2> HIDE DEF reqs, E
  <2> QED
    BY <1>1, <2>2, <2>3, SumFibres
<1>5. /\ Summable(CostUsd, E) /\ SumCost(E) \in Nat
  <2>1. Countable(CostUsd, E)
    BY <1>1, ConstantTypes DEF Countable
  <2> QED
    BY <2>1, SumNat DEF SumCost
<1>6. Summable(sums, User) /\ SumCost(E) = SumOver(sums, User)
  <2>1. \A u \in User : sums[u] = SumOver(CostUsd, Fibre(E, UserOf, u))
    BY <1>2 DEF SumCost
  <2> HIDE DEF sums, E
  <2>2. Summable(sums, User) /\ SumOver(CostUsd, E) = SumOver(sums, User)
    BY <1>1, <1>5, <2>1, SumFibres
  <2> QED
    BY <2>2 DEF SumCost
<1>7. Countable(cost, User) /\ Countable(parts, User)
  BY <1>1, <1>3 DEF Countable, PartsOf
<1>8. \A u \in User : Within(cost[u], sums[u], parts[u])
  BY <1>3 DEF PartsOf
<1> HIDE DEF cost, parts, sums, E, reqs
<1>9. /\ Summable(cost, User) /\ SumOver(cost, User) \in Nat
      /\ Summable(parts, User) /\ SumOver(parts, User) \in Nat
  BY <1>7, SumNat
<1>10. Within(SumOver(cost, User), SumOver(sums, User), SumOver(parts, User))
  BY <1>6, <1>8, <1>9, WithinSum
<1> QED
  BY <1>4, <1>5, <1>6, <1>9, <1>10 DEF cost, parts, E, reqs

\* A day that no step disturbed and of few increments does not drift.
LEMMA NoDrift ==
  ASSUME NEW R \in SUBSET Event, Rolls(daily, Day, R), NEW d \in Buckets(Day),
         NEW raw, raw = OfDay(R, d), NEW above, Drifts(d, raw, above)
  PROVE  SumOver(PartsOf(daily, d), User) > 1
<1> DEFINE reqs == SumOver([u \in User |-> daily[<<d, u>>].requests], User)
           cost == SumOver([u \in User |-> daily[<<d, u>>].costUsd], User)
           parts == SumOver(PartsOf(daily, d), User)
<1>1. /\ reqs = Cardinality(raw) /\ parts \in Nat /\ cost \in Nat /\ SumCost(raw) \in Nat
      /\ Within(cost, SumCost(raw), parts)
  BY DayAdds
<1>2. \/ reqs # Cardinality(raw) \/ cost - SumCost(raw) > Quantum \/ SumCost(raw) - cost > Quantum
      \/ cost - SumCost(raw) \in {Quantum, -Quantum}
  BY DEF Drifts, RollupCost, RollupRequests
<1> HIDE DEF reqs, cost, parts
<1>3. SUFFICES ASSUME parts <= 1 PROVE FALSE
  BY <1>1 DEF parts
<1>4. cost - SumCost(raw) < Quantum /\ SumCost(raw) - cost < Quantum
  BY <1>1, <1>3, WithinOne
<1> QED
  BY <1>1, <1>2, <1>4, ConstantTypes

\* Increments are never taken back.
LEMMA PartsGrow ==
  ASSUME NEW batch, Batch(batch), NEW days \in [Keys(Day) -> Row], NEW d \in Buckets(Day),
         NEW new, new = Upsert(days, Day, GroupRollups(batch)), new \in [Keys(Day) -> Row],
         SumOver(PartsOf(days, d), User) > 1
  PROVE  SumOver(PartsOf(new, d), User) > 1
<1> DEFINE f == PartsOf(days, d)
           g == PartsOf(new, d)
<1>1. ASSUME NEW u \in User PROVE f[u] \in Int /\ g[u] \in Int /\ f[u] <= g[u]
  <2>1. <<d, u>> \in Keys(Day)
    BY DEF Keys
  <2>2. new[<<d, u>>].parts >= days[<<d, u>>].parts
    BY <2>1, UnitsAre, UpsertCost
  <2>3. new[<<d, u>>] \in Row /\ days[<<d, u>>] \in Row
    BY <2>1
  <2> QED
    BY <2>2, <2>3 DEF PartsOf, Row
<1>2. Summable(f, User) /\ Summable(g, User)
  BY <1>1, ConstantTypes DEF Summable
<1> HIDE DEF f, g
<1>3. SumOver(f, User) \in Int /\ SumOver(g, User) \in Int /\ SumOver(f, User) <= SumOver(g, User)
  BY <1>1, <1>2, SumMono
<1> QED
  BY <1>3 DEF f, g

---------------------------------------------------------------------------
(* The inductive invariant *)

\* The tables hold what was recorded ...
Tables ==
  /\ team \in Team /\ moves \in 0..MaxMoves
  /\ stamp \in [Event -> Team \cup {"none"}]
  /\ rows \subseteq recorded /\ recorded \subseteq Event
  /\ \A e \in recorded : stamp[e] # "none"
  /\ Rolls(hourly, Hour, recorded) /\ Rolls(daily, Day, recorded)
  /\ AddsUp(hourly, daily)
  /\ Stamped(daily, recorded)

\* ... and a reader what it has read of them.
Readers ==
  /\ reader.kind \in {"idle", "explorer", "reconcile", "reconciled"}
  /\ Explored(reader, rows) /\ ReadRaw(reader, recorded) /\ Explains(reader, daily)

ReportsInv == Tables /\ Readers

LEMMA SumZeros ==
  ASSUME NEW S, IsFiniteSet(S), NEW f, \A x \in S : f[x] = 0
  PROVE  SumOver(f, S) = 0
<1> DEFINE P == {T \in SUBSET S : SumOver(f, T) = 0}
<1>1. Summable(f, S)
  BY DEF Summable
<1>2. {} \in P
  BY SumEmpty
<1>3. ASSUME NEW T \in SUBSET S, NEW x \in S \ T, T \in P
      PROVE  T \cup {x} \in P
  <2>1. SumOver(f, T \cup {x}) = SumOver(f, T) + f[x]
    BY <1>1, <1>3, SumStep
  <2>2. SumOver(f, T) = 0 /\ f[x] = 0 /\ T \cup {x} \in SUBSET S
    BY <1>3
  <2> QED
    BY <2>1, <2>2
<1>4. Inductive(P, S)
  BY <1>2, <1>3 DEF Inductive
<1> HIDE DEF P
<1>5. S \in P
  BY <1>4, SetUpTo, Zenon
<1> QED
  BY <1>5 DEF P

\* An empty table rolls up no event.
LEMMA EmptyRolls ==
  ASSUME NEW unit, NEW table, table = [k \in Keys(unit) |-> NoRow]
  PROVE  Rolls(table, unit, {})
<1>1. table \in [Keys(unit) -> Row] /\ \A k \in Keys(unit) : table[k] = NoRow
  BY DEF NoRow, Row
<1>2. NoRow.requests = 0 /\ NoRow.parts = 0 /\ NoRow.costUsd = 0
  BY DEF NoRow
<1>3. ASSUME NEW k \in Keys(unit)
      PROVE  /\ table[k].requests = Cardinality(Holds({}, unit, k)) /\ table[k].parts <= table[k].requests
             /\ Within(table[k].costUsd, SumCost(Holds({}, unit, k)), table[k].parts)
  <2>1. Holds({}, unit, k) = {}
    BY DEF Holds
  <2>2. Cardinality({}) = 0
    BY FS_EmptySet
  <2>3. SumCost({}) = 0
    BY SumEmpty DEF SumCost
  <2>4. table[k].requests = 0 /\ table[k].parts = 0 /\ table[k].costUsd = 0
    BY <1>1, <1>2
  <2>5. Within(table[k].costUsd, SumCost(Holds({}, unit, k)), table[k].parts)
    BY ONLY <2>1, <2>3, <2>4, WithinZero, Zenon
  <2> QED
    BY <2>1, <2>2, <2>4, <2>5
<1> QED
  BY <1>1, <1>3 DEF Rolls

LEMMA InitInv ==
  ASSUME Init
  PROVE  ReportsInv
<1>1. hourly = [k \in Keys(Hour) |-> NoRow] /\ daily = [k \in Keys(Day) |-> NoRow]
  BY DEF Init, Keys
<1>2. Rolls(hourly, Hour, {}) /\ Rolls(daily, Day, {})
  BY <1>1, EmptyRolls
<1>3. recorded = {} /\ rows = {}
  BY DEF Init
<1>4. AddsUp(hourly, daily)
  <2>1. SUFFICES ASSUME NEW k \in Keys(Day)
                 PROVE  daily[k].costUsd = SumOver(Costs(hourly), DayHours(k))
    BY DEF AddsUp
  <2>2. daily[k].costUsd = 0
    BY <1>1 DEF NoRow
  <2>3. \A h \in DayHours(k) : Costs(hourly)[h] = 0
    BY <1>1 DEF NoRow, Costs, DayHours
  <2>4. IsFiniteSet(DayHours(k))
    BY KeysFinite, FS_Subset DEF DayHours
  <2> QED
    BY <2>2, <2>3, <2>4, SumZeros
<1>5. Stamped(daily, recorded)
  BY <1>1 DEF Stamped, NoRow
<1>6. reader.kind = "idle"
  BY DEF Init, Idle
<1>7. Explored(reader, rows) /\ ReadRaw(reader, recorded) /\ Explains(reader, daily)
  BY <1>6 DEF Explored, ReadRaw, Explains
<1>8. team \in Team /\ moves \in 0..MaxMoves /\ stamp \in [Event -> Team \cup {"none"}]
  BY ReportsAssumption DEF Init
<1> QED
  BY <1>2, <1>3, <1>4, <1>5, <1>6, <1>7, <1>8 DEF ReportsInv, Tables, Readers

---------------------------------------------------------------------------
(* Every step preserves it *)

LEMMA MoveProjectInv ==
  ASSUME ReportsInv, NEW t \in Team, MoveProject(t)
  PROVE  ReportsInv'
<1>1. team' \in Team /\ moves' \in 0..MaxMoves
  BY ReportsAssumption DEF ReportsInv, MoveProject, Tables, Readers
<1>2. UNCHANGED <<stamp, recorded, rows, hourly, daily, reader>>
  BY DEF MoveProject
<1>3. Stamped(daily, recorded)'
  BY <1>2 DEF ReportsInv, Stamped, Tables, Readers
<1> QED
  BY <1>1, <1>2, <1>3 DEF ReportsInv, Tables, Readers

LEMMA EmitInv ==
  ASSUME ReportsInv, NEW e \in Event, Emit(e)
  PROVE  ReportsInv'
<1>1. UNCHANGED <<team, recorded, rows, hourly, daily, reader, moves>>
  BY DEF Emit
<1>2. stamp' \in [Event -> Team \cup {"none"}]
  BY DEF ReportsInv, Emit, Tables, Readers
<1>3. \A x \in recorded : stamp'[x] = stamp[x]
  BY DEF ReportsInv, Emit, Tables, Readers
<1>4. Stamped(daily, recorded)'
  <2>1. SUFFICES ASSUME NEW k \in Keys(Day), daily[k].requests > 0
                 PROVE  \E x \in Holds(recorded, Day, k) : daily[k].teamId = stamp'[x]
    BY <1>1 DEF Stamped
  <2>2. PICK x \in Holds(recorded, Day, k) : daily[k].teamId = stamp[x]
    BY <2>1 DEF ReportsInv, Stamped, Tables, Readers
  <2>3. x \in recorded
    BY DEF Holds
  <2> QED
    BY <2>2, <2>3, <1>3
<1>5. \A x \in recorded' : stamp'[x] # "none"
  BY <1>1, <1>3 DEF ReportsInv, Tables, Readers
<1> QED
  BY <1>1, <1>2, <1>4, <1>5 DEF ReportsInv, Tables, Readers

\* A batch of new events is what the lemmas above take it to be.
LEMMA NewBatch ==
  ASSUME NEW R \in SUBSET Event, NEW b \in SetToAllKPermutations(Event \ R)
  PROVE  Batch(b) /\ ToSet(b) \subseteq Event \ R
<1>1. PICK s \in SUBSET (Event \ R) : b \in SetToSeqs(s)
  BY DEF SetToAllKPermutations
<1>2. b \in [1..Cardinality(s) -> s]
  BY <1>1 DEF SetToSeqs
<1>3. IsFiniteSet(s)
  BY <1>1, ConstantTypes, FS_Subset
<1>4. Cardinality(s) \in Nat
  BY <1>3, FS_CardinalityType
<1>5. b \in [1..Cardinality(s) -> Event]
  BY <1>1, <1>2
<1>6. Batch(b)
  BY <1>4, <1>5 DEF Batch
<1>7. ToSet(b) \subseteq s
  BY <1>2 DEF ToSet
<1> QED
  BY <1>1, <1>6, <1>7

LEMMA IngestInv ==
  ASSUME ReportsInv, NEW b \in SetToAllKPermutations(Event \ recorded), Ingest(b)
  PROVE  ReportsInv'
<1>1. Batch(b) /\ ToSet(b) \subseteq Event \ recorded
  BY NewBatch DEF ReportsInv, Tables, Readers
<1>2. /\ recorded' = recorded \cup ToSet(b) /\ rows' = rows \cup ToSet(b)
      /\ UNCHANGED <<team, stamp, moves>>
      /\ hourly' = Upsert(hourly, Hour, GroupRollups(b))
      /\ daily' = Upsert(daily, Day, GroupRollups(b))
      /\ reader' = Disturb(reader, {DayOf(e) : e \in ToSet(b)})
  BY DEF Ingest
<1>3. \A e \in ToSet(b) : stamp[e] \in Team \cup {"none"} /\ stamp[e] # "none"
  BY <1>1 DEF ReportsInv, Ingest, Tables, Readers
<1>4. /\ recorded \in SUBSET Event /\ ToSet(b) \cap recorded = {}
      /\ Rolls(hourly, Hour, recorded) /\ Rolls(daily, Day, recorded)
      /\ AddsUp(hourly, daily) /\ Stamped(daily, recorded)
  BY <1>1 DEF ReportsInv, Tables, Readers
<1>5. /\ hourly \in [Keys(Hour) -> Row] /\ daily \in [Keys(Day) -> Row]
  BY <1>4 DEF Rolls
<1>6. Rolls(hourly', Hour, recorded')
  BY ONLY <1>1, <1>2, <1>3, <1>4, UnitsAre, UpsertRolls
<1>7. Rolls(daily', Day, recorded')
  BY ONLY <1>1, <1>2, <1>3, <1>4, UnitsAre, UpsertRolls
<1>8. AddsUp(hourly', daily')
  BY ONLY <1>1, <1>2, <1>4, <1>5, UpsertAddsUp
<1>9. Stamped(daily', recorded')
  BY ONLY <1>1, <1>2, <1>4, UpsertStamped
<1>10. Stamped(daily, recorded)'
  BY <1>2, <1>9 DEF Stamped
<1>11. Tables'
  BY <1>1, <1>2, <1>3, <1>6, <1>7, <1>8, <1>10 DEF Tables, ReportsInv, Readers
<1>12. daily' \in [Keys(Day) -> Row]
  BY <1>7 DEF Rolls
<1> DEFINE days == {DayOf(e) : e \in ToSet(b)}
<1>13. CASE reader.kind = "reconcile"
  <2>1. reader \in Reconciler /\ \A d \in Buckets(Day) \ (reader.touched \cup reader.pruned) :
                                    reader.raw[d] = OfDay(recorded, d)
    BY <1>13 DEF ReportsInv, ReadRaw, Tables, Readers
  <2>2. days \subseteq Nat
    BY <1>1, DayOfIs
  <2>3. reader' = [reader EXCEPT !.touched = @ \cup days]
    BY <1>2, <1>13 DEF Disturb
  <2>4. /\ reader' \in Reconciler /\ reader'.kind = "reconcile"
        /\ reader'.touched = reader.touched \cup days
        /\ reader'.pruned = reader.pruned /\ reader'.raw = reader.raw
    BY <2>1, <2>2, <2>3, <1>13 DEF Reconciler
  <2>5. ASSUME NEW d \in Buckets(Day) \ (reader'.touched \cup reader'.pruned)
        PROVE  reader'.raw[d] = OfDay(recorded', d)
    <3>1. d \notin days /\ reader.raw[d] = OfDay(recorded, d)
      BY <2>1, <2>4
    <3>2. OfDay(recorded', d) = OfDay(recorded, d)
      BY <3>1, <1>2 DEF OfDay
    <3> QED
      BY <3>1, <3>2, <2>4
  <2>6. ReadRaw(reader', recorded')
    BY <2>4, <2>5 DEF ReadRaw
  <2>7. Explored(reader', rows') /\ Explains(reader', daily')
    BY <2>4 DEF Explored, Explains
  <2> QED
    BY <1>11, <2>4, <2>6, <2>7 DEF Readers, Tables, ReportsInv
<1>14. CASE reader.kind # "reconcile"
  <2>1. reader' = reader
    BY <1>2, <1>14 DEF Disturb
  <2>2. ReadRaw(reader, recorded')
    BY <1>14 DEF ReadRaw
  <2>3. Explored(reader, rows')
    BY <1>2 DEF ReportsInv, Explored, Tables, Readers
  <2>4. Explains(reader, daily')
    <3>1. SUFFICES ASSUME reader.kind = "reconciled", NEW d \in reader.drift
                   PROVE  /\ d \in Buckets(Day)
                          /\ \/ d \in reader.touched \cup reader.pruned
                             \/ SumOver(PartsOf(daily', d), User) > 1
      BY DEF Explains
    <3>2. /\ d \in Buckets(Day)
          /\ \/ d \in reader.touched \cup reader.pruned
             \/ SumOver(PartsOf(daily, d), User) > 1
      BY <3>1 DEF ReportsInv, Explains, Tables, Readers
    <3>3. SumOver(PartsOf(daily, d), User) > 1 => SumOver(PartsOf(daily', d), User) > 1
      BY ONLY <1>1, <1>2, <1>5, <1>12, <3>2, PartsGrow
    <3> QED
      BY <3>2, <3>3
  <2> QED
    BY <1>11, <2>1, <2>2, <2>3, <2>4 DEF Tables, ReportsInv, Readers
<1> QED
  BY <1>13, <1>14

\* Steps that only change the reader.
LEMMA ReaderStep ==
  ASSUME ReportsInv, UNCHANGED <<team, stamp, recorded, rows, hourly, daily, moves>>,
         reader'.kind \in {"idle", "explorer", "reconcile", "reconciled"},
         Explored(reader', rows), ReadRaw(reader', recorded), Explains(reader', daily)
  PROVE  ReportsInv'
<1>1. Stamped(daily, recorded)'
  BY DEF ReportsInv, Tables, Stamped
<1>2. Tables'
  BY <1>1 DEF ReportsInv, Tables
<1> QED
  BY <1>2 DEF ReportsInv, Readers

LEMMA PruneInv ==
  ASSUME ReportsInv, NEW e \in rows, Prune(e)
  PROVE  ReportsInv'
<1>1. UNCHANGED <<team, stamp, recorded, hourly, daily, moves>> /\ rows' = rows \ {e}
  BY DEF Prune
<1>2. Stamped(daily, recorded)'
  BY <1>1 DEF ReportsInv, Tables, Stamped
<1>3. Tables'
  BY <1>1, <1>2 DEF ReportsInv, Tables
<1>4. CASE reader.kind # "explorer"
  <2>1. reader' = reader
    BY <1>4 DEF Prune
  <2>2. Explored(reader, rows')
    BY <1>4 DEF Explored
  <2> QED
    BY <1>1, <1>3, <2>1, <2>2 DEF ReportsInv, Readers
<1>5. CASE reader.kind = "explorer"
  <2>1. /\ reader \in Explorer /\ IsInjective(reader.shown) /\ reader.owed \subseteq rows
        /\ reader.more => \A x \in ToSet(reader.shown) : ~Before(x, reader.cursor)
        /\ \A x \in reader.owed : (reader.more => ~Before(x, reader.cursor)) => Seen(x, reader.shown)
    BY <1>5 DEF ReportsInv, Readers, Explored
  <2>2. reader' = [reader EXCEPT !.owed = @ \ {e}]
    BY <1>5 DEF Prune
  <2>3. /\ reader' \in Explorer /\ reader'.kind = "explorer" /\ reader'.shown = reader.shown
        /\ reader'.cursor = reader.cursor /\ reader'.owed = reader.owed \ {e}
    BY <2>1, <2>2 DEF Explorer
  <2>4. reader'.more <=> reader.more
    BY <2>1, <2>2 DEF Explorer
  <2>5. Explored(reader', rows')
    BY <2>1, <2>3, <2>4, <1>1 DEF Explored
  <2>6. ReadRaw(reader', recorded') /\ Explains(reader', daily')
    BY <2>3 DEF ReadRaw, Explains
  <2> QED
    BY <1>3, <2>3, <2>5, <2>6 DEF ReportsInv, Readers
<1> QED
  BY <1>4, <1>5

LEMMA ExploreInv ==
  ASSUME ReportsInv, Explore
  PROVE  ReportsInv'
<1>1. UNCHANGED <<team, stamp, recorded, rows, hourly, daily, moves>>
  BY DEF Explore
<1>2. PICK s \in Seq(Event), c \in Int : s = <<>> /\ c = -1
  <2>1. <<>> \in Seq(Event) /\ -1 \in Int
    OBVIOUS
  <2> QED
    BY ONLY <2>1, Zenon
<1>3. reader' = GoesOn(s, c, rows) /\ rows \in SUBSET Event
  BY <1>2 DEF ReportsInv, Tables, Explore, GoesOn
<1>4. /\ reader' \in Explorer /\ reader'.shown = s /\ reader'.cursor = c
      /\ reader'.more /\ reader'.owed = rows
  BY ONLY <1>3, GoesOnIs
<1>5. reader'.kind = "explorer"
  BY <1>3 DEF GoesOn
<1>6. ToSet(s) = {} /\ IsInjective(s)
  BY <1>2 DEF ToSet, IsInjective
<1>7. \A e \in rows : Before(e, c)
  BY <1>2 DEF Before
<1>8. Explored(reader', rows)
  BY <1>4, <1>6, <1>7 DEF Explored
<1>9. ReadRaw(reader', recorded) /\ Explains(reader', daily)
  BY <1>5 DEF ReadRaw, Explains
<1> QED
  BY <1>1, <1>5, <1>8, <1>9, ReaderStep

LEMMA LoadMoreInv ==
  ASSUME ReportsInv, LoadMore
  PROVE  ReportsInv'
<1>1. /\ UNCHANGED <<team, stamp, recorded, rows, hourly, daily, moves>>
      /\ reader.kind = "explorer" /\ reader.more
  BY DEF LoadMore
<1> DEFINE found == {e \in rows : Before(e, reader.cursor)}
<1>2. PICK page \in Pages(found) : reader' = Turned(reader, found, page)
  BY Zenon DEF LoadMore, Turned
<1>3. rows \in SUBSET Event /\ Explored(reader, rows)
  BY DEF ReportsInv, Tables, Readers
<1>4. Explored(reader', rows)
  BY ONLY <1>1, <1>2, <1>3, LoadMoreExplored
<1>5. reader'.kind = "explorer"
  <2>1. reader \in Explorer
    BY <1>1, <1>3 DEF Explored
  <2> QED
    BY <2>1, <1>2 DEF Turned, Explorer
<1>6. ReadRaw(reader', recorded) /\ Explains(reader', daily)
  BY <1>5 DEF ReadRaw, Explains
<1> QED
  BY <1>1, <1>4, <1>5, <1>6, ReaderStep

LEMMA ReconcileRawInv ==
  ASSUME ReportsInv, ReconcileRaw
  PROVE  ReportsInv'
<1>1. UNCHANGED <<team, stamp, recorded, rows, hourly, daily, moves>>
  BY DEF ReconcileRaw
<1>2. /\ reader'.kind = "reconcile" /\ reader'.touched = {} /\ reader'.drift = {}
      /\ reader'.raw = [d \in Buckets(Day) |-> {e \in rows : DayOf(e) = d}]
      /\ reader'.pruned = {DayOf(e) : e \in recorded \ rows}
      /\ DOMAIN reader' = {"kind", "touched", "drift", "raw", "pruned"}
  BY DEF ReconcileRaw
<1>3. rows \subseteq recorded /\ recorded \subseteq Event
  BY DEF ReportsInv, Tables
<1>4. \A e \in recorded : DayOf(e) \in Nat
  BY <1>3, DayOfIs
<1>5. reader' \in Reconciler
  <2>1. [d \in Buckets(Day) |-> {e \in rows : DayOf(e) = d}] \in [Buckets(Day) -> SUBSET Event]
    BY <1>3
  <2>2. {DayOf(e) : e \in recorded \ rows} \subseteq Nat
    BY <1>4
  <2> QED
    BY <2>1, <2>2 DEF Reconciler, ReconcileRaw
<1>6. ASSUME NEW d \in Buckets(Day) \ (reader'.touched \cup reader'.pruned)
      PROVE  reader'.raw[d] = OfDay(recorded, d)
  <2>1. reader'.raw[d] = {e \in rows : DayOf(e) = d}
    BY <1>2
  <2>2. \A e \in recorded \ rows : DayOf(e) # d
    BY <1>2, <1>6
  <2> QED
    BY <2>1, <2>2, <1>3 DEF OfDay
<1>7. ReadRaw(reader', recorded)
  BY <1>5, <1>6 DEF ReadRaw
<1>8. Explored(reader', rows) /\ Explains(reader', daily)
  BY <1>2 DEF Explored, Explains
<1> QED
  BY <1>1, <1>2, <1>7, <1>8, ReaderStep

LEMMA ReconcileRollupsInv ==
  ASSUME ReportsInv, ReconcileRollups
  PROVE  ReportsInv'
<1>1. /\ UNCHANGED <<team, stamp, recorded, rows, hourly, daily, moves>>
      /\ reader.kind = "reconcile"
  BY DEF ReconcileRollups
<1>2. /\ reader \in Reconciler
      /\ \A d \in Buckets(Day) \ (reader.touched \cup reader.pruned) : reader.raw[d] = OfDay(recorded, d)
  BY <1>1 DEF ReportsInv, Readers, ReadRaw
<1>0. PICK above \in SUBSET Buckets(Day) :
        reader' = [reader EXCEPT !.kind = "reconciled",
                                 !.drift = {d \in Buckets(Day) : Drifts(d, reader.raw[d], d \in above)}]
  BY DEF ReconcileRollups
<1>3. /\ reader'.kind = "reconciled" /\ reader'.touched = reader.touched
      /\ reader'.pruned = reader.pruned
      /\ reader'.drift = {d \in Buckets(Day) : Drifts(d, reader.raw[d], d \in above)}
  BY <1>0, <1>2 DEF Reconciler
<1>4. ASSUME NEW d \in reader'.drift, d \notin reader.touched \cup reader.pruned
      PROVE  SumOver(PartsOf(daily, d), User) > 1
  <2>1. d \in Buckets(Day) /\ Drifts(d, reader.raw[d], d \in above)
    BY <1>3
  <2>2. reader.raw[d] = OfDay(recorded, d)
    BY <2>1, <1>2, <1>4
  <2>3. recorded \in SUBSET Event /\ Rolls(daily, Day, recorded)
    BY DEF ReportsInv, Tables
  <2> QED
    BY ONLY <2>1, <2>2, <2>3, NoDrift
<1>5. Explains(reader', daily)
  BY <1>3, <1>4 DEF Explains
<1>6. Explored(reader', rows) /\ ReadRaw(reader', recorded)
  BY <1>3 DEF Explored, ReadRaw
<1> QED
  BY <1>1, <1>3, <1>5, <1>6, ReaderStep

LEMMA CloseInv ==
  ASSUME ReportsInv, Close
  PROVE  ReportsInv'
<1>1. UNCHANGED <<team, stamp, recorded, rows, hourly, daily, moves>> /\ reader'.kind = "idle"
  BY DEF Close, Idle
<1>2. Explored(reader', rows) /\ ReadRaw(reader', recorded) /\ Explains(reader', daily)
  BY <1>1 DEF Explored, ReadRaw, Explains
<1> QED
  BY <1>1, <1>2, ReaderStep

LEMMA StutterInv ==
  ASSUME ReportsInv, UNCHANGED vars
  PROVE  ReportsInv'
<1>1. UNCHANGED <<team, stamp, recorded, rows, hourly, daily, moves>> /\ reader' = reader
  BY DEF vars
<1> QED
  BY <1>1, ReaderStep DEF ReportsInv, Readers

LEMMA StepInv ==
  ASSUME ReportsInv, [Next]_vars
  PROVE  ReportsInv'
<1>1. CASE \E t \in Team : MoveProject(t)
  BY <1>1, MoveProjectInv
<1>2. CASE \E e \in Event : Emit(e)
  BY <1>2, EmitInv
<1>3. CASE \E b \in SetToAllKPermutations(Event \ recorded) : Len(b) \in 1..MaxBatch /\ Ingest(b)
  BY <1>3, IngestInv
<1>4. CASE \E e \in rows : Prune(e)
  BY <1>4, PruneInv
<1>5. CASE Explore
  BY <1>5, ExploreInv
<1>6. CASE LoadMore
  BY <1>6, LoadMoreInv
<1>7. CASE ReconcileRaw
  BY <1>7, ReconcileRawInv
<1>8. CASE ReconcileRollups
  BY <1>8, ReconcileRollupsInv
<1>9. CASE Close
  BY <1>9, CloseInv
<1>10. CASE UNCHANGED vars
  BY <1>10, StutterInv
<1> QED
  BY <1>1, <1>2, <1>3, <1>4, <1>5, <1>6, <1>7, <1>8, <1>9, <1>10 DEF Next

\* Every table holds what was recorded, and every reader what it has read.
THEOREM ReportsInvariant == Spec => []ReportsInv
<1>1. Init => ReportsInv
  BY InitInv
<1>2. ReportsInv /\ [Next]_vars => ReportsInv'
  BY StepInv
<1> QED
  BY <1>1, <1>2, PTL DEF Spec

---------------------------------------------------------------------------
(* What it implies *)

LEMMA InvTypes == ReportsInv => TypeOK
<1> SUFFICES ASSUME ReportsInv
             PROVE  TypeOK
  OBVIOUS
<1>1. ASSUME NEW unit, Unit(unit), NEW t, Rolls(t, unit, recorded), NEW k \in DOMAIN t
      PROVE  t[k].requests \in Nat /\ t[k].parts \in 0..t[k].requests /\ t[k].costUsd \in Nat
  <2>1. t[k] \in Row /\ t[k].parts <= t[k].requests
    BY <1>1 DEF Rolls
  <2> QED
    BY <2>1 DEF Row
<1>2. \A k \in DOMAIN hourly :
        hourly[k].requests \in Nat /\ hourly[k].parts \in 0..hourly[k].requests /\ hourly[k].costUsd \in Nat
  BY <1>1, UnitsAre DEF ReportsInv, Tables
<1>3. \A k \in DOMAIN daily :
        daily[k].requests \in Nat /\ daily[k].parts \in 0..daily[k].requests /\ daily[k].costUsd \in Nat
  BY <1>1, UnitsAre DEF ReportsInv, Tables
<1>4. reader.kind = "explorer" => reader.owed \subseteq rows
  BY DEF ReportsInv, Readers, Explored
<1> QED
  BY <1>2, <1>3, <1>4 DEF TypeOK, ReportsInv, Tables, Readers

\* Type correctness: raw rows are of committed events, committed events were
\* emitted, and the sums of the rollups are natural numbers.
THEOREM ReportsTypeOK == Spec => []TypeOK
  BY ReportsInvariant, InvTypes, PTL

\* The explorer (GET /usage/events, UsagePage) shows no event twice and misses
\* only rows of the very time at which a page ended, for any events, any page
\* size and any interleaving with ingest and retention.
THEOREM ExplorerCorrect == Spec => []ExplorerSkipsOnlyTies
<1>1. ReportsInv => ExplorerSkipsOnlyTies
  BY DEF ReportsInv, Readers, Explored, Seen, ExplorerSkipsOnlyTies
<1> QED
  BY <1>1, ReportsInvariant, PTL

\* Reconcile (reconcile.ts) reports a day only if its rows changed around the
\* two reads or it has the two increments that it takes for roundings to add up to
\* 1e-6, which is where the doubles decide.
THEOREM DriftCorrect == Spec => []DriftIsExplained
<1>1. \A d : Increments(d) = SumOver(PartsOf(daily, d), User)
  BY DEF Increments, PartsOf
<1>2. ReportsInv => DriftIsExplained
  BY <1>1 DEF ReportsInv, Readers, Explains, DriftIsExplained
<1> QED
  BY <1>2, ReportsInvariant, PTL

\* What a row stands for, in the words of the properties.
LEMMA InBucketIs ==
  ASSUME NEW unit, Unit(unit), NEW k \in Keys(unit)
  PROVE  InBucket(unit, k) = Holds(recorded, unit, k)
<1>1. k = <<k[1], k[2]>>
  BY DEF Keys
<1>2. \A e : Key(e, unit) = k <=> (OccurredAt[e] \div unit) * unit = k[1] /\ UserOf[e] = k[2]
  BY <1>1 DEF Key, Truncate
<1> QED
  BY <1>2 DEF InBucket, Holds

LEMMA InvCosts == ReportsInv => CostWithinRounding
<1> SUFFICES ASSUME ReportsInv
             PROVE  CostWithinRounding
  OBVIOUS
<1>1. Rolls(hourly, Hour, recorded) /\ Rolls(daily, Day, recorded) /\ AddsUp(hourly, daily)
  BY DEF ReportsInv, Tables
<1>2. DOMAIN hourly = Keys(Hour) /\ DOMAIN daily = Keys(Day)
  BY <1>1 DEF Rolls
<1>3. ASSUME NEW k \in DOMAIN hourly
      PROVE  Within(hourly[k].costUsd, SumCost(InBucket(Hour, k)), hourly[k].parts)
  <2>1. Within(hourly[k].costUsd, SumCost(Holds(recorded, Hour, k)), hourly[k].parts)
    BY <1>1, <1>2 DEF Rolls
  <2>2. InBucket(Hour, k) = Holds(recorded, Hour, k)
    BY <1>2, UnitsAre, InBucketIs
  <2> QED
    BY <2>1, <2>2
<1>4. ASSUME NEW k \in DOMAIN daily
      PROVE  daily[k].costUsd = SumOver([h \in DOMAIN hourly |-> hourly[h].costUsd], HoursOf(k))
  <2>1. HoursOf(k) = DayHours(k)
    BY <1>2 DEF HoursOf, DayHours
  <2>2. daily[k].costUsd = SumOver(Costs(hourly), DayHours(k))
    BY <1>1, <1>2 DEF AddsUp
  <2> QED
    BY <2>1, <2>2 DEF Costs
<1> QED
  BY <1>3, <1>4 DEF CostWithinRounding

\* The cost of every rollup (rollups.ts, persist.ts) is that of its events up to
\* half a unit of the last place per increment, and each day is exactly the sum
\* of its hours, for any events and any way of batching them.
THEOREM CostsCorrect == Spec => []CostWithinRounding
  BY ReportsInvariant, InvCosts, PTL

---------------------------------------------------------------------------
(* Reports over the rollups *)

\* The events of R in [from, to) that the caller may see.
Visible(R, from, to, role, u) ==
  {e \in R : /\ from <= OccurredAt[e] /\ OccurredAt[e] < to
             /\ Wide(role) \/ UserOf[e] = u}

\* A key is a bucket and a user.
LEMMA KeyParts ==
  ASSUME NEW e, NEW unit
  PROVE  Key(e, unit)[1] = Truncate(OccurredAt[e], unit) /\ Key(e, unit)[2] = UserOf[e]
  BY DEF Key

\* A bound on the times that falls on the edge of a bucket selects rows exactly
\* as it selects events, and every selected row has events.
LEMMA WhereIs ==
  ASSUME NEW unit, Unit(unit), NEW R \in SUBSET Event, NEW table, Rolls(table, unit, R),
         NEW from \in Nat, Multiple(from, unit), NEW to \in Nat, Multiple(to, unit),
         NEW role, NEW u
  PROVE  /\ Where(table, from, to, role, u) \subseteq Keys(unit)
         /\ IsFiniteSet(Where(table, from, to, role, u))
         /\ \A e \in R : Key(e, unit) \in Where(table, from, to, role, u)
                           <=> e \in Visible(R, from, to, role, u)
         /\ \A k \in Where(table, from, to, role, u) :
              table[k].requests = Cardinality(Holds(R, unit, k)) /\ Holds(R, unit, k) # {}
<1> DEFINE keys == Where(table, from, to, role, u)
<1>1. table \in [Keys(unit) -> Row] /\ DOMAIN table = Keys(unit)
  BY DEF Rolls
<1>2. keys \subseteq Keys(unit)
  BY <1>1 DEF Where
<1>3. IsFiniteSet(keys)
  BY <1>2, KeysFinite, FS_Subset
<1>4. \A k \in Keys(unit) : table[k].requests = Cardinality(Holds(R, unit, k))
  BY DEF Rolls
<1>5. ASSUME NEW k \in keys
      PROVE  table[k].requests = Cardinality(Holds(R, unit, k)) /\ Holds(R, unit, k) # {}
  <2>1. table[k].requests > 0
    BY DEF Where
  <2>2. table[k].requests = Cardinality(Holds(R, unit, k))
    BY <1>2, <1>4
  <2>3. Cardinality({}) = 0
    BY FS_EmptySet
  <2> QED
    BY <2>1, <2>2, <2>3
<1>6. ASSUME NEW e \in R
      PROVE  Key(e, unit) \in keys <=> e \in Visible(R, from, to, role, u)
  <2> DEFINE k == Key(e, unit)
  <2>1. k \in Keys(unit) /\ e \in Event
    BY KeyIs
  <2>2. OccurredAt[e] \in Nat /\ unit \in Nat /\ unit > 0
    BY <2>1, ConstantTypes DEF Unit
  <2>3. Truncate(OccurredAt[e], unit) \in Nat
    BY <2>2, TruncateIs
  <2>4. from <= Truncate(OccurredAt[e], unit) <=> from <= OccurredAt[e]
    BY <2>2, TruncateBounds
  <2>5. to <= Truncate(OccurredAt[e], unit) <=> to <= OccurredAt[e]
    BY <2>2, TruncateBounds
  <2>6. k[1] >= from <=> from <= OccurredAt[e]
    BY <2>3, <2>4, KeyParts
  <2>7. k[1] < to <=> OccurredAt[e] < to
    BY <2>2, <2>3, <2>5, KeyParts
  <2>8. k[2] = UserOf[e]
    BY KeyParts
  <2>9. table[k].requests > 0
    <3>1. e \in Holds(R, unit, k)
      BY DEF Holds
    <3>2. IsFiniteSet(Holds(R, unit, k)) /\ Cardinality(Holds(R, unit, k)) \in Nat
      BY HoldsIs
    <3>3. Cardinality(Holds(R, unit, k)) # 0
      BY <3>1, <3>2, FS_EmptySet
    <3> QED
      BY <3>2, <3>3, <2>1, <1>4
  <2> HIDE DEF k
  <2>10. k \in keys <=> k[1] >= from /\ k[1] < to /\ (Wide(role) \/ k[2] = u)
    BY <2>1, <2>9, <1>1 DEF Where
  <2>11. e \in Visible(R, from, to, role, u)
           <=> from <= OccurredAt[e] /\ OccurredAt[e] < to /\ (Wide(role) \/ UserOf[e] = u)
    BY DEF Visible
  <2>12. k \in keys <=> e \in Visible(R, from, to, role, u)
    BY ONLY <2>6, <2>7, <2>8, <2>10, <2>11
  <2> QED
    BY <2>12 DEF k
<1> QED
  BY <1>2, <1>3, <1>5, <1>6

\* Rows grouped by slots count the events of the slots.
Grouped(table, keys, seen, slot) ==
  /\ {Truncate(k[1], slot) : k \in keys} = {Truncate(OccurredAt[e], slot) : e \in seen}
  /\ \A t : SumOver([k \in keys |-> table[k].requests], {k \in keys : Truncate(k[1], slot) = t})
              = Cardinality({e \in seen : Truncate(OccurredAt[e], slot) = t})

\* A report at a granularity of whole buckets of its table counts every visible
\* event once, in its slot.
LEMMA SlotsAreExact ==
  ASSUME NEW unit, Unit(unit), NEW R \in SUBSET Event, NEW table, Rolls(table, unit, R),
         NEW from \in Nat, Multiple(from, unit), NEW to \in Nat, Multiple(to, unit),
         NEW role, NEW u,
         NEW slot \in Nat, slot > 0, Multiple(slot, unit),
         NEW keys, keys = Where(table, from, to, role, u),
         NEW seen, seen = Visible(R, from, to, role, u)
  PROVE  Grouped(table, keys, seen, slot)
<1>1. /\ keys \subseteq Keys(unit) /\ IsFiniteSet(keys)
      /\ \A e \in R : Key(e, unit) \in keys <=> e \in seen
      /\ \A k \in keys : table[k].requests = Cardinality(Holds(R, unit, k)) /\ Holds(R, unit, k) # {}
  BY WhereIs
<1>2. seen \subseteq R
  BY DEF Visible
<1>3. \A k \in keys : \A e \in Holds(R, unit, k) : e \in seen /\ Key(e, unit) = k
  BY <1>1 DEF Holds
<1>4. ASSUME NEW e \in R
      PROVE  Truncate(Key(e, unit)[1], slot) = Truncate(OccurredAt[e], slot)
  <2>1. OccurredAt[e] \in Nat /\ unit \in Nat /\ unit > 0
    BY ConstantTypes DEF Unit
  <2>2. Truncate(Truncate(OccurredAt[e], unit), slot) = Truncate(OccurredAt[e], slot)
    BY <2>1, TruncateCoarser
  <2> QED
    BY <2>2, KeyParts
<1>5. {Truncate(k[1], slot) : k \in keys} = {Truncate(OccurredAt[e], slot) : e \in seen}
  <2>1. ASSUME NEW k \in keys
        PROVE  \E e \in seen : Truncate(k[1], slot) = Truncate(OccurredAt[e], slot)
    <3>1. PICK e \in Holds(R, unit, k) : TRUE
      BY <1>1
    <3>2. e \in seen /\ Key(e, unit) = k
      BY <1>3
    <3> QED
      BY <3>2, <1>2, <1>4
  <2>2. ASSUME NEW e \in seen
        PROVE  \E k \in keys : Truncate(k[1], slot) = Truncate(OccurredAt[e], slot)
    BY <1>1, <1>2, <1>4
  <2> QED
    BY <2>1, <2>2
<1>6. ASSUME NEW t
      PROVE  SumOver([k \in keys |-> table[k].requests], {k \in keys : Truncate(k[1], slot) = t})
               = Cardinality({e \in seen : Truncate(OccurredAt[e], slot) = t})
  <2> DEFINE E == {e \in seen : Truncate(OccurredAt[e], slot) = t}
             K == {k \in keys : Truncate(k[1], slot) = t}
             f == [e \in Event |-> 1]
             key == [e \in Event |-> Key(e, unit)]
             g == [k \in keys |-> table[k].requests]
  <2>1. E \subseteq R /\ E \subseteq Event
    BY <1>2
  <2>2. IsFiniteSet(E)
    BY <2>1, ConstantTypes, FS_Subset
  <2>3. IsFiniteSet(K)
    BY <1>1, FS_Subset
  <2>4. \A e \in E : f[e] = 1
    BY <2>1
  <2>5. \A e \in E : key[e] \in K
    BY <2>1, <1>1, <1>4
  <2>6. ASSUME NEW k \in K
        PROVE  g[k] = SumOver(f, Fibre(E, key, k))
    <3>1. Fibre(E, key, k) = Holds(R, unit, k)
      <4>1. \A e \in E : key[e] = Key(e, unit)
        BY <2>1
      <4>2. \A e \in Holds(R, unit, k) : e \in R /\ e \in E /\ Key(e, unit) = k
        BY <1>2, <1>3, <1>4
      <4> QED
        BY <4>1, <4>2, <2>1 DEF Fibre, Holds
    <3>2. g[k] = Cardinality(Holds(R, unit, k))
      BY <1>1
    <3>3. IsFiniteSet(Holds(R, unit, k)) /\ Holds(R, unit, k) \subseteq R
      BY HoldsIs
    <3>4. \A e \in Holds(R, unit, k) : f[e] = 1
      BY <3>3
    <3> HIDE DEF f
    <3>5. SumOver(f, Holds(R, unit, k)) = Cardinality(Holds(R, unit, k))
      BY <3>3, <3>4, SumOnes
    <3> QED
      BY <3>1, <3>2, <3>5
  <2> HIDE DEF E, K, f, key, g
  <2>7. Summable(f, E) /\ SumOver(f, E) = Cardinality(E)
    BY ONLY <2>2, <2>4, SumOnes
  <2>8. SumOver(f, E) = SumOver(g, K)
    BY ONLY <2>3, <2>5, <2>6, <2>7, SumFibres
  <2>9. SumOver(g, K) = Cardinality(E)
    BY <2>7, <2>8
  <2> QED
    BY <2>9 DEF g, K, E
<1> QED
  BY <1>5, <1>6 DEF Grouped

\* The requests of each slot.
CountBySlot(seen, slot) ==
  [t \in {Truncate(OccurredAt[e], slot) : e \in seen} |->
     Cardinality({e \in seen : Truncate(OccurredAt[e], slot) = t})]

\* The same of queryTimeseries.
LEMMA TimeseriesIs ==
  ASSUME NEW unit, Unit(unit), recorded \in SUBSET Event, NEW slot \in Nat, slot > 0, Multiple(slot, unit),
         Rolls(TableFor(slot), unit, recorded),
         NEW from \in Nat, Multiple(from, unit), NEW to \in Nat, Multiple(to, unit), NEW role, NEW u,
         NEW seen, seen = Visible(recorded, from, to, role, u)
  PROVE  Timeseries(slot, from, to, role, u) = CountBySlot(seen, slot)
<1> DEFINE table == TableFor(slot)
           keys == Where(table, from, to, role, u)
<1>1. Grouped(table, keys, seen, slot)
  <2> HIDE DEF table, keys
  <2>1. Rolls(table, unit, recorded) /\ keys = Where(table, from, to, role, u)
    BY DEF table, keys
  <2> QED
    BY <2>1, SlotsAreExact
<1>2. Timeseries(slot, from, to, role, u) =
        [t \in {Truncate(k[1], slot) : k \in keys} |->
           SumOver([k \in keys |-> table[k].requests], {k \in keys : Truncate(k[1], slot) = t})]
  BY DEF Timeseries, Truncate
<1> HIDE DEF table, keys
<1> QED
  BY <1>1, <1>2 DEF Grouped, CountBySlot

LEMMA InvReports == ReportsInv => ReportsAreExact
<1> SUFFICES ASSUME ReportsInv
             PROVE  ReportsAreExact
  OBVIOUS
<1>1. /\ recorded \in SUBSET Event
      /\ Rolls(hourly, Hour, recorded) /\ Rolls(daily, Day, recorded)
  BY DEF ReportsInv, Tables
<1>2. ASSUME NEW slot \in {Hour, Day, 2 * Day}
      PROVE  /\ slot \in Nat /\ slot > 0
             /\ \E unit \in {Hour, Day} : /\ Unit(unit) /\ Multiple(slot, unit) /\ Multiple(Day, unit)
                                          /\ Rolls(TableFor(slot), unit, recorded)
  <2>1. slot \in Nat /\ slot > 0
    BY ConstantTypes
  <2>2. CASE slot = Hour
    BY <2>1, <2>2, <1>1, UnitsAre, DayIsHours DEF TableFor
  <2>3. CASE slot # Hour
    BY <2>1, <2>3, <1>1, UnitsAre, DayIsHours DEF TableFor
  <2> QED
    BY <2>2, <2>3
<1> SUFFICES ASSUME NEW from \in Buckets(Day), NEW role \in {"ADMIN", "MEMBER"}, NEW u \in User,
                    NEW to \in {d + Day : d \in {d \in Buckets(Day) : d >= from}}
             PROVE  LET seen == {e \in recorded : /\ from <= OccurredAt[e] /\ OccurredAt[e] < to
                                                  /\ role = "ADMIN" \/ UserOf[e] = u}
                    IN  \A unit \in {Hour, Day, 2 * Day} :
                          LET Slot(e) == (OccurredAt[e] \div unit) * unit
                          IN  Timeseries(unit, from, to, role, u) =
                                [t \in {Slot(e) : e \in seen} |-> Cardinality({e \in seen : Slot(e) = t})]
  BY Zenon DEF ReportsAreExact
<1>3. SUFFICES ASSUME NEW slot \in {Hour, Day, 2 * Day}
               PROVE  LET seen == {e \in recorded : /\ from <= OccurredAt[e] /\ OccurredAt[e] < to
                                                    /\ role = "ADMIN" \/ UserOf[e] = u}
                          Slot(e) == (OccurredAt[e] \div slot) * slot
                      IN  Timeseries(slot, from, to, role, u) =
                            [t \in {Slot(e) : e \in seen} |-> Cardinality({e \in seen : Slot(e) = t})]
  BY Zenon
<1> DEFINE seen == Visible(recorded, from, to, role, u)
<1>4. PICK unit \in {Hour, Day} : /\ Unit(unit) /\ Multiple(slot, unit) /\ Multiple(Day, unit)
                                  /\ Rolls(TableFor(slot), unit, recorded)
  BY <1>2
<1>5. slot \in Nat /\ slot > 0 /\ unit \in Nat /\ Day \in Nat
  BY <1>2, ConstantTypes
<1>6. from \in Nat /\ Multiple(from, Day)
  BY UnitsAre, BucketIs
<1>7. PICK d \in Buckets(Day) : to = d + Day
  OBVIOUS
<1>8. d \in Nat /\ Multiple(d, Day) /\ Multiple(Day, Day)
  BY UnitsAre, BucketIs, DayIsHours
<1>9. to \in Nat /\ Multiple(to, Day)
  BY <1>5, <1>7, <1>8, MultipleAdd
<1>10. Multiple(from, unit) /\ Multiple(to, unit)
  BY <1>4, <1>5, <1>6, <1>9, MultipleOfMultiple
<1>11. Timeseries(slot, from, to, role, u) = CountBySlot(seen, slot)
  <2> HIDE DEF seen
  <2>1. seen = Visible(recorded, from, to, role, u)
    BY DEF seen
  <2> QED
    BY ONLY <2>1, <1>1, <1>4, <1>5, <1>6, <1>9, <1>10, TimeseriesIs
<1>12. seen = {e \in recorded : /\ from <= OccurredAt[e] /\ OccurredAt[e] < to
                                /\ role = "ADMIN" \/ UserOf[e] = u}
  <2>1. Wide(role) <=> role = "ADMIN"
    BY DEF Wide
  <2> QED
    BY <2>1 DEF Visible
<1> HIDE DEF seen
<1> QED
  BY <1>11, <1>12 DEF CountBySlot, Truncate

\* A report over whole days (analytics-query.ts) counts every event that the
\* caller may see exactly once at every granularity, for any events and any
\* lengths of hour and day of which one is a multiple of the other.
THEOREM ReportsCorrect == Spec => []ReportsAreExact
  BY ReportsInvariant, InvReports, PTL

---------------------------------------------------------------------------
(* The breakdown by team *)

LEMMA ImageFinite ==
  ASSUME NEW S, IsFiniteSet(S), NEW f
  PROVE  IsFiniteSet({f[x] : x \in S})
<1> DEFINE g == [x \in S |-> f[x]]
<1>1. g \in Surjection(S, {f[x] : x \in S})
  BY DEF Surjection
<1> QED
  BY <1>1, FS_Surjection

\* A finite set of numbers has a largest.
LEMMA MaxIs ==
  ASSUME NEW S \in SUBSET Nat, S # {}, IsFiniteSet(S)
  PROVE  Max(S) \in S /\ \A x \in S : x <= Max(S)
<1> DEFINE P == {T \in SUBSET S : T = {} \/ \E m \in T : \A x \in T : x <= m}
<1>1. ASSUME NEW T \in SUBSET S, NEW x \in S \ T, T \in P
      PROVE  T \cup {x} \in P
  <2>1. CASE T = {}
    BY <2>1
  <2>2. CASE T # {}
    <3>1. PICK m \in T : \A y \in T : y <= m
      BY <1>1, <2>2
    <3>2. \E n \in T \cup {x} : \A y \in T \cup {x} : y <= n
      <4>1. CASE x <= m
        BY <3>1, <4>1
      <4>2. CASE ~(x <= m)
        BY <3>1, <4>2
      <4> QED
        BY <4>1, <4>2
    <3> QED
      BY <3>2
  <2> QED
    BY <2>1, <2>2
<1>2. Inductive(P, S)
  BY <1>1 DEF Inductive
<1> HIDE DEF P
<1>3. S \in P
  BY <1>2, SetUpTo, Zenon
<1>4. \E m \in S : \A x \in S : x <= m
  BY <1>3 DEF P
<1>5. \E m \in S : \A x \in S : m >= x
  BY <1>4
<1>6. Max(S) \in S /\ \A x \in S : Max(S) >= x
  BY <1>5 DEF Max
<1> QED
  BY <1>6

PartsIn(table) == [k \in DOMAIN table |-> table[k].parts]

\* The cost of a set of rows is that of the events they hold, up to the
\* roundings of the whole table.
LEMMA RowsCost ==
  ASSUME NEW R \in SUBSET Event, NEW table, Rolls(table, Day, R),
         NEW K \in SUBSET Keys(Day), NEW E \in SUBSET R, \A e \in R : e \in E <=> Key(e, Day) \in K
  PROVE  Within(SumOver(Costs(table), K), SumCost(E), SumOver(PartsIn(table), Keys(Day)))
<1> DEFINE key == [e \in Event |-> Key(e, Day)]
           g == [k \in Keys(Day) |-> SumCost(Holds(R, Day, k))]
<1>1. table \in [Keys(Day) -> Row] /\ DOMAIN table = Keys(Day)
  BY DEF Rolls
<1>2. IsFiniteSet(Keys(Day)) /\ IsFiniteSet(K)
  BY KeysFinite, FS_Subset
<1>3. \A k \in Keys(Day) : PartsIn(table)[k] = table[k].parts /\ table[k].parts \in Nat
  BY <1>1 DEF PartsIn, Row
<1>4. Countable(PartsIn(table), Keys(Day))
  BY <1>2, <1>3 DEF Countable
<1>5. /\ SumOver(PartsIn(table), K) \in Nat /\ SumOver(PartsIn(table), Keys(Day)) \in Nat
      /\ SumOver(PartsIn(table), K) <= SumOver(PartsIn(table), Keys(Day))
  BY ONLY <1>4, SumSubset, K \in SUBSET Keys(Day)
<1>6. Summable(PartsIn(table), K)
  BY <1>2, <1>3 DEF Summable
<1>7. Countable(Costs(table), K) /\ \A k \in K : Costs(table)[k] = table[k].costUsd
  BY ONLY <1>1, CostsAre, K \in SUBSET Keys(Day)
<1>8. Summable(Costs(table), K) /\ SumOver(Costs(table), K) \in Nat
  BY <1>7, SumNat
<1>9. Summable(CostUsd, E)
  <2>1. IsFiniteSet(E) /\ E \subseteq Event
    BY ConstantTypes, FS_Subset
  <2> QED
    BY <2>1, ConstantTypes DEF Summable
<1>10. \A e \in E : key[e] \in K
  OBVIOUS
<1>11. ASSUME NEW k \in K
       PROVE  g[k] = SumOver(CostUsd, Fibre(E, key, k))
  <2>1. Fibre(E, key, k) = Holds(R, Day, k)
    BY DEF Fibre, Holds
  <2> QED
    BY <2>1 DEF SumCost
<1>12. \A k \in K : Within(Costs(table)[k], g[k], PartsIn(table)[k])
  <2>1. ASSUME NEW k \in K
        PROVE  Within(Costs(table)[k], g[k], PartsIn(table)[k])
    <3>1. Within(table[k].costUsd, SumCost(Holds(R, Day, k)), table[k].parts)
      BY DEF Rolls
    <3>2. g[k] = SumCost(Holds(R, Day, k))
      OBVIOUS
    <3> HIDE DEF g
    <3> QED
      BY <3>1, <3>2, <1>3, <1>7
  <2> QED
    BY <2>1
<1> HIDE DEF key, g
<1>13. Summable(g, K) /\ SumOver(CostUsd, E) = SumOver(g, K)
  BY ONLY <1>2, <1>9, <1>10, <1>11, SumFibres
<1>14. Within(SumOver(Costs(table), K), SumOver(g, K), SumOver(PartsIn(table), K))
  BY ONLY <1>6, <1>8, <1>12, <1>13, WithinSum
<1>15. SumOver(g, K) \in Int
  BY <1>13, SumTakeOut
<1>16. Within(SumOver(Costs(table), K), SumOver(g, K), SumOver(PartsIn(table), Keys(Day)))
  <2>1. SumOver(Costs(table), K) \in Int /\ SumOver(PartsIn(table), K) \in Int
        /\ SumOver(PartsIn(table), Keys(Day)) \in Int
    BY <1>5, <1>8
  <2> QED
    BY ONLY <2>1, <1>5, <1>14, <1>15, WithinMore
<1> QED
  BY <1>13, <1>16 DEF SumCost

\* The rows that hold anything.
Filled(days) == {k \in Keys(Day) : days[k].requests > 0}

\* The breakdown from the first to the last bucket reads all of them.
LEMMA WholeRange ==
  ASSUME daily \in [Keys(Day) -> Row], NEW u
  PROVE  Where(daily, 0, Max(Buckets(Day)) + 1, "OWNER", u) = Filled(daily)
<1>1. Wide("OWNER")
  BY DEF Wide
<1>2. ASSUME NEW k \in Keys(Day)
      PROVE  k[1] >= 0 /\ k[1] < Max(Buckets(Day)) + 1
  <2>1. k[1] \in Buckets(Day)
    BY DEF Keys
  <2>2. Buckets(Day) \in SUBSET Nat
    BY UnitsAre, BucketIs
  <2>3. IsFiniteSet(Buckets(Day))
    BY KeysFinite
  <2>4. Max(Buckets(Day)) \in Buckets(Day) /\ \A x \in Buckets(Day) : x <= Max(Buckets(Day))
    BY <2>1, <2>2, <2>3, MaxIs
  <2> QED
    BY <2>1, <2>2, <2>4
<1> QED
  BY <1>1, <1>2 DEF Where, Filled

\* No row holds events of two teams.
OneTeam(days, R) == \A k \in Filled(days) : \A e \in Holds(R, Day, k) : days[k].teamId = stamp[e]

\* The rows of a table, and the events that they hold.
LEMMA FilledIs ==
  ASSUME NEW R \in SUBSET Event, NEW days, Rolls(days, Day, R)
  PROVE  /\ Filled(days) \subseteq Keys(Day) /\ IsFiniteSet(Filled(days))
         /\ \A e \in R : Key(e, Day) \in Filled(days) /\ e \in Holds(R, Day, Key(e, Day))
         /\ \A k \in Filled(days) : Holds(R, Day, k) # {}
<1>1. Filled(days) \subseteq Keys(Day)
  BY DEF Filled
<1>2. IsFiniteSet(Filled(days))
  BY <1>1, KeysFinite, FS_Subset
<1>3. \A k \in Keys(Day) : days[k].requests = Cardinality(Holds(R, Day, k))
  BY DEF Rolls
<1>4. ASSUME NEW e \in R
      PROVE  Key(e, Day) \in Filled(days) /\ e \in Holds(R, Day, Key(e, Day))
  <2>1. e \in Holds(R, Day, Key(e, Day))
    BY DEF Holds
  <2>2. Key(e, Day) \in Keys(Day)
    BY UnitsAre, KeyIs
  <2>3. IsFiniteSet(Holds(R, Day, Key(e, Day))) /\ Cardinality(Holds(R, Day, Key(e, Day))) \in Nat
    BY HoldsIs
  <2>4. Cardinality(Holds(R, Day, Key(e, Day))) # 0
    BY <2>1, <2>3, FS_EmptySet
  <2> QED
    BY <2>1, <2>2, <2>3, <2>4, <1>3 DEF Filled
<1>5. ASSUME NEW k \in Filled(days)
      PROVE  Holds(R, Day, k) # {}
  <2>1. days[k].requests > 0 /\ days[k].requests = Cardinality(Holds(R, Day, k))
    BY <1>1, <1>3 DEF Filled
  <2>2. Cardinality({}) = 0
    BY FS_EmptySet
  <2> QED
    BY <2>1, <2>2
<1> QED
  BY <1>1, <1>2, <1>4, <1>5

\* What the condition of TeamsAreCharged says of the rows.
LEMMA OneTeamEach ==
  ASSUME ReportsInv, \A k \in DOMAIN daily : Cardinality({stamp[e] : e \in InBucket(Day, k)}) <= 1
  PROVE  OneTeam(daily, recorded)
<1>1. recorded \in SUBSET Event /\ Rolls(daily, Day, recorded) /\ Stamped(daily, recorded)
  BY DEF ReportsInv, Tables
<1>2. SUFFICES ASSUME NEW k \in Filled(daily), NEW e \in Holds(recorded, Day, k)
               PROVE  daily[k].teamId = stamp[e]
  BY DEF OneTeam
<1>3. k \in Keys(Day) /\ daily[k].requests > 0 /\ DOMAIN daily = Keys(Day)
  BY <1>1 DEF Filled, Rolls
<1>4. PICK x \in Holds(recorded, Day, k) : daily[k].teamId = stamp[x]
  BY <1>1, <1>3 DEF Stamped
<1> DEFINE teams == {stamp[y] : y \in Holds(recorded, Day, k)}
<1>5. Cardinality(teams) <= 1
  BY <1>3, InBucketIs, UnitsAre
<1>6. IsFiniteSet(teams)
  BY <1>1, HoldsIs, ImageFinite
<1>7. stamp[e] \in teams /\ stamp[x] \in teams
  OBVIOUS
<1> HIDE DEF teams
<1>8. Cardinality(teams) \in Nat /\ Cardinality(teams) # 0
  BY <1>6, <1>7, FS_CardinalityType, FS_EmptySet
<1>9. Cardinality(teams) = 1
  BY <1>5, <1>8
<1>10. \E t : teams = {t}
  BY ONLY <1>6, <1>9, FS_Singleton, Zenon
<1> QED
  BY <1>4, <1>7, <1>10

\* The Limit most expensive of no more than Limit groups are all of them.
LEMMA AllShown ==
  ASSUME NEW costs, IsFiniteSet(DOMAIN costs), Cardinality(DOMAIN costs) <= Limit, NEW b \in Breakdowns(costs)
  PROVE  b.totalCostUsd = SumOver(costs, DOMAIN costs)
<1> DEFINE S == {Limit, Cardinality(DOMAIN costs)}
<1>1. Cardinality(DOMAIN costs) \in Nat
  BY FS_CardinalityType
<1>2. S \in SUBSET Nat /\ S # {}
  BY <1>1, ConstantTypes
<1>3. Min(S) \in S /\ \A k \in S : Min(S) <= k
  BY <1>2, MinIs
<1>4. PICK shown \in kSubset(Min(S), DOMAIN costs) : b = [rows |-> shown, totalCostUsd |-> SumOver(costs, shown)]
  BY DEF Breakdowns
<1>5. shown \in SUBSET (DOMAIN costs) /\ Cardinality(shown) = Min(S)
  BY DEF kSubset
<1>6. Min(S) = Cardinality(DOMAIN costs)
  BY <1>1, <1>3, ConstantTypes
<1>7. shown = DOMAIN costs
  BY <1>5, <1>6, FS_Subset
<1> QED
  BY <1>4, <1>7

\* The cost of the rows of each team.
TeamCosts(costs) ==
  /\ DOMAIN costs = {daily[k].teamId : k \in Filled(daily)}
  /\ \A t \in DOMAIN costs :
       costs[t] = SumOver(Costs(daily), {k \in Filled(daily) : daily[k].teamId = t})

\* A breakdown is the sum of the rows of each team.
LEMMA BreakdownIs ==
  ASSUME daily \in [Keys(Day) -> Row], NEW u,
         NEW costs, costs = CostByTeam(0, Max(Buckets(Day)) + 1, "OWNER", u)
  PROVE  TeamCosts(costs)
<1> DEFINE keys == Filled(daily)
           f == [k \in keys |-> daily[k].costUsd]
<1>1. Where(daily, 0, Max(Buckets(Day)) + 1, "OWNER", u) = keys
  BY WholeRange
<1>2. costs = [t \in {daily[k].teamId : k \in keys} |-> SumOver(f, {k \in keys : daily[k].teamId = t})]
  BY <1>1 DEF CostByTeam
<1>3. ASSUME NEW t
      PROVE  SumOver(f, {k \in keys : daily[k].teamId = t}) = SumOver(Costs(daily), {k \in keys : daily[k].teamId = t})
  <2> DEFINE K == {k \in keys : daily[k].teamId = t}
  <2>1. K \in SUBSET Keys(Day)
    BY DEF Filled
  <2>2. \A k \in K : f[k] = daily[k].costUsd
    OBVIOUS
  <2> HIDE DEF K, f
  <2>3. Countable(Costs(daily), K) /\ \A k \in K : Costs(daily)[k] = daily[k].costUsd
    BY ONLY <2>1, CostsAre, daily \in [Keys(Day) -> Row]
  <2>4. Summable(Costs(daily), K)
    BY <2>3, SumNat
  <2>5. \A k \in K : Costs(daily)[k] = f[k]
    BY <2>2, <2>3
  <2>6. SumOver(Costs(daily), K) = SumOver(f, K)
    BY ONLY <2>4, <2>5, SumSame
  <2> QED
    BY <2>6 DEF K
<1> HIDE DEF keys, f
<1>4. DOMAIN costs = {daily[k].teamId : k \in keys}
  BY <1>2
<1>5. \A t \in DOMAIN costs : costs[t] = SumOver(f, {k \in keys : daily[k].teamId = t})
  BY <1>2
<1>6. \A t \in DOMAIN costs : costs[t] = SumOver(Costs(daily), {k \in keys : daily[k].teamId = t})
  BY <1>3, <1>5
<1> QED
  BY <1>4, <1>6 DEF keys, TeamCosts

LEMMA InvTeams == ReportsInv => TeamsAreCharged
<1> SUFFICES ASSUME ReportsInv,
                    \A k \in DOMAIN daily : Cardinality({stamp[e] : e \in InBucket(Day, k)}) <= 1
             PROVE  LET costs == CostByTeam(0, Max(Buckets(Day)) + 1, "OWNER", CHOOSE u \in User : TRUE)
                        Parts == SumOver([k \in DOMAIN daily |-> daily[k].parts], DOMAIN daily)
                    IN  /\ DOMAIN costs = {stamp[e] : e \in recorded}
                        /\ \A t \in DOMAIN costs :
                             Within(costs[t], SumCost({e \in recorded : stamp[e] = t}), Parts)
                        /\ \A b \in Breakdowns(costs) :
                             Cardinality(DOMAIN costs) <= Limit => Within(b.totalCostUsd, SumCost(recorded), Parts)
  BY DEF TeamsAreCharged
<1> DEFINE costs == CostByTeam(0, Max(Buckets(Day)) + 1, "OWNER", CHOOSE u \in User : TRUE)
           Parts == SumOver([k \in DOMAIN daily |-> daily[k].parts], DOMAIN daily)
           keys == Filled(daily)
<1>1. recorded \in SUBSET Event /\ Rolls(daily, Day, recorded)
  BY DEF ReportsInv, Tables
<1>2. daily \in [Keys(Day) -> Row] /\ DOMAIN daily = Keys(Day)
  BY <1>1 DEF Rolls
<1>3. OneTeam(daily, recorded)
  BY OneTeamEach
<1>4. /\ keys \subseteq Keys(Day) /\ IsFiniteSet(keys)
      /\ \A e \in recorded : Key(e, Day) \in keys /\ e \in Holds(recorded, Day, Key(e, Day))
      /\ \A k \in keys : Holds(recorded, Day, k) # {}
  BY <1>1, FilledIs
<1>5. \A k \in keys : \A e \in Holds(recorded, Day, k) : daily[k].teamId = stamp[e]
  BY <1>3 DEF OneTeam
<1>6. \A k, e : e \in Holds(recorded, Day, k) => e \in recorded /\ Key(e, Day) = k
  BY DEF Holds
<1>7. Parts = SumOver(PartsIn(daily), Keys(Day))
  BY <1>2 DEF PartsIn
<1>8. /\ DOMAIN costs = {daily[k].teamId : k \in keys}
      /\ \A t \in DOMAIN costs : costs[t] = SumOver(Costs(daily), {k \in keys : daily[k].teamId = t})
  <2>1. PICK u : costs = CostByTeam(0, Max(Buckets(Day)) + 1, "OWNER", u)
    OBVIOUS
  <2> HIDE DEF costs
  <2>2. TeamCosts(costs)
    BY ONLY <1>2, <2>1, BreakdownIs
  <2> QED
    BY <2>2 DEF TeamCosts
<1> HIDE DEF costs, Parts, keys
<1>9. DOMAIN costs = {stamp[e] : e \in recorded}
  <2>1. ASSUME NEW k \in keys
        PROVE  \E e \in recorded : daily[k].teamId = stamp[e]
    BY <1>4, <1>5, <1>6
  <2>2. ASSUME NEW e \in recorded
        PROVE  \E k \in keys : daily[k].teamId = stamp[e]
    BY <1>4, <1>5
  <2> QED
    BY <2>1, <2>2, <1>8
<1>10. ASSUME NEW t \in DOMAIN costs
       PROVE  Within(costs[t], SumCost({e \in recorded : stamp[e] = t}), Parts)
  <2> DEFINE K == {k \in keys : daily[k].teamId = t}
             E == {e \in recorded : stamp[e] = t}
  <2>1. K \in SUBSET Keys(Day) /\ E \in SUBSET recorded
    BY <1>4
  <2>2. ASSUME NEW e \in recorded
        PROVE  e \in E <=> Key(e, Day) \in K
    <3>1. Key(e, Day) \in keys /\ daily[Key(e, Day)].teamId = stamp[e]
      BY <1>4, <1>5
    <3> QED
      BY <3>1
  <2>3. costs[t] = SumOver(Costs(daily), K)
    BY <1>8
  <2> HIDE DEF K, E
  <2>4. Within(SumOver(Costs(daily), K), SumCost(E), SumOver(PartsIn(daily), Keys(Day)))
    BY ONLY <1>1, <2>1, <2>2, RowsCost
  <2>5. Within(costs[t], SumCost(E), Parts)
    BY ONLY <2>3, <2>4, <1>7, Zenon
  <2> QED
    BY <2>5 DEF E
<1>11. ASSUME NEW b \in Breakdowns(costs), Cardinality(DOMAIN costs) <= Limit
       PROVE  Within(b.totalCostUsd, SumCost(recorded), Parts)
  <2> DEFINE key == [k \in keys |-> daily[k].teamId]
  <2>1. IsFiniteSet(DOMAIN costs)
    <3>1. IsFiniteSet({key[k] : k \in keys})
      BY ONLY <1>4, ImageFinite
    <3>2. {key[k] : k \in keys} = {daily[k].teamId : k \in keys}
      OBVIOUS
    <3> QED
      BY <3>1, <3>2, <1>8
  <2>2. b.totalCostUsd = SumOver(costs, DOMAIN costs)
    BY ONLY <1>11, <2>1, AllShown
  <2>3. \A k \in keys : key[k] \in DOMAIN costs
    BY <1>8
  <2>4. ASSUME NEW t \in DOMAIN costs
        PROVE  costs[t] = SumOver(Costs(daily), Fibre(keys, key, t))
    <3>1. Fibre(keys, key, t) = {k \in keys : daily[k].teamId = t}
      BY DEF Fibre
    <3> QED
      BY <3>1, <1>8
  <2> HIDE DEF key
  <2>5. Countable(Costs(daily), keys)
    BY ONLY <1>2, <1>4, CostsAre
  <2>6. Summable(Costs(daily), keys)
    BY <2>5, SumNat
  <2>7. SumOver(Costs(daily), keys) = SumOver(costs, DOMAIN costs)
    BY ONLY <2>1, <2>3, <2>4, <2>6, SumFibres
  <2>8. keys \in SUBSET Keys(Day) /\ recorded \in SUBSET recorded
        /\ \A e \in recorded : e \in recorded <=> Key(e, Day) \in keys
    BY <1>4
  <2>9. Within(SumOver(Costs(daily), keys), SumCost(recorded), SumOver(PartsIn(daily), Keys(Day)))
    BY ONLY <1>1, <2>8, RowsCost
  <2> QED
    BY ONLY <2>2, <2>7, <2>9, <1>7, Zenon
<1>12. /\ DOMAIN costs = {stamp[e] : e \in recorded}
       /\ \A t \in DOMAIN costs :
            Within(costs[t], SumCost({e \in recorded : stamp[e] = t}), Parts)
       /\ \A b \in Breakdowns(costs) :
            Cardinality(DOMAIN costs) <= Limit => Within(b.totalCostUsd, SumCost(recorded), Parts)
  BY ONLY <1>9, <1>10, <1>11, Zenon
<1> QED
  BY <1>12, Zenon DEF costs, Parts

\* The breakdown by team (queryBreakdown) charges each team for the events that
\* it owned when they happened, up to rounding, as long as no daily row holds
\* events of two teams, and totals the whole cost when every team fits.
THEOREM TeamsCorrect == Spec => []TeamsAreCharged
  BY ReportsInvariant, InvTeams, PTL

=============================================================================
