----------------------------- MODULE DataTheorems -----------------------------
(***************************************************************************)
(* What the proofs about files, messages and slots use of recursive        *)
(* definitions: sums of a function over a finite set and sequences put     *)
(* together of sequences.  Induction is over sets of numbers: a set with 0 *)
(* in it and the successor of each of its numbers has all of them.         *)
(***************************************************************************)
EXTENDS Integers, SequencesExt, FiniteSets, FiniteSetTheorems, WellFoundedInduction,
        TLAPS

-----------------------------------------------------------------------------
(* Induction.                                                                *)

\* A set of natural numbers that is not empty has a least one.
LEMMA NatLeast ==
    ASSUME NEW T, T \subseteq Nat, T # {}
    PROVE  \E x \in T : \A y \in T : x <= y
  <1>1. PICK x \in T : \A y \in T : ~ (<<y, x>> \in OpToRel(<, Nat))
    BY WFMin, NatLessThanWellFounded
  <1>2. \A y \in T : ~ (y < x)
    BY <1>1 DEF OpToRel
  <1> QED BY <1>2

LEMMA NatSetInduction ==
    ASSUME NEW S, 0 \in S, \A k \in Nat : k \in S => k + 1 \in S
    PROVE  Nat \subseteq S
  <1> SUFFICES ASSUME Nat \ S # {}
               PROVE  FALSE
    OBVIOUS
  <1>1. PICK x \in Nat \ S : \A y \in Nat \ S : x <= y
    BY NatLeast
  <1>2. x # 0 /\ x - 1 \in Nat
    BY <1>1
  <1>3. x - 1 \in S
    BY <1>1, <1>2
  <1> QED BY <1>1, <1>2, <1>3

-----------------------------------------------------------------------------
(* Sums.  it is what the recursive definition of a sum may be: the sum of    *)
(* each subset, taking out an element that CHOOSE picks.                     *)

Picked(s) == CHOOSE x \in s : TRUE

Summing(D, f, it) ==
    it = [s \in SUBSET D |-> IF s = {} THEN 0 ELSE f[Picked(s)] + it[s \ {Picked(s)}]]

LEMMA PickedIn == ASSUME NEW s, s # {} PROVE Picked(s) \in s
  BY DEF Picked

LEMMA SmallerSet ==
    ASSUME NEW s, IsFiniteSet(s), NEW x \in s
    PROVE  /\ IsFiniteSet(s \ {x}) /\ Cardinality(s) \in Nat \ {0}
           /\ Cardinality(s \ {x}) = Cardinality(s) - 1
  BY FS_RemoveElement, FS_CardinalityType, FS_EmptySet

LEMMA SubsetCard ==
    ASSUME NEW D, IsFiniteSet(D), NEW s \in SUBSET D
    PROVE  IsFiniteSet(s) /\ Cardinality(s) \in Nat /\ Cardinality(s) <= Cardinality(D)
           /\ Cardinality(D) \in Nat /\ (Cardinality(s) = 0 <=> s = {})
  BY FS_Subset, FS_CardinalityType, FS_EmptySet

LEMMA SummingExists ==
    ASSUME NEW D, IsFiniteSet(D), NEW f, \A x \in D : f[x] \in Int
    PROVE  \E it : it \in [SUBSET D -> Int] /\ Summing(D, f, it)
  <1> DEFINE Sub(k) == {s \in SUBSET D : Cardinality(s) <= k}
             Rec(g, k) == \A s \in Sub(k) :
                 g[s] = IF s = {} THEN 0 ELSE f[Picked(s)] + g[s \ {Picked(s)}]
             Good == {k \in Nat : \E g \in [Sub(k) -> Int] : Rec(g, k)}
  <1>1. 0 \in Good
    <2> DEFINE g == [s \in Sub(0) |-> 0]
    <2>1. ASSUME NEW s \in Sub(0) PROVE s = {}
      BY SubsetCard
    <2>2. g \in [Sub(0) -> Int] /\ \A s \in Sub(0) : g[s] = 0
      OBVIOUS
    <2>3. Rec(g, 0)
      BY <2>1, <2>2
    <2> HIDE DEF g, Rec, Sub
    <2> QED BY <2>2, <2>3
  <1>2. ASSUME NEW k \in Nat, k \in Good
        PROVE  k + 1 \in Good
    <2>1. PICK g \in [Sub(k) -> Int] : Rec(g, k)
      BY <1>2
    <2> DEFINE h == [s \in Sub(k + 1) |->
                        IF Cardinality(s) <= k THEN g[s]
                        ELSE f[Picked(s)] + g[s \ {Picked(s)}]]
    <2>2. ASSUME NEW s \in Sub(k + 1), s # {}
          PROVE  Picked(s) \in D /\ s \ {Picked(s)} \in Sub(k)
      <3>1. Picked(s) \in s
        BY <2>2, PickedIn
      <3>2. IsFiniteSet(s)
        BY SubsetCard
      <3>3. IsFiniteSet(s \ {Picked(s)}) /\ Cardinality(s \ {Picked(s)}) = Cardinality(s) - 1
            /\ Cardinality(s) \in Nat
        BY <3>1, <3>2, SmallerSet
      <3> QED BY <3>1, <3>3
    <2>3. \A s \in Sub(k + 1) : Cardinality(s) > k => s # {}
      BY SubsetCard
    <2>4. h \in [Sub(k + 1) -> Int]
      <3> SUFFICES ASSUME NEW s \in Sub(k + 1)
                   PROVE  (IF Cardinality(s) <= k THEN g[s]
                           ELSE f[Picked(s)] + g[s \ {Picked(s)}]) \in Int
        OBVIOUS
      <3>1. Cardinality(s) \in Nat
        BY SubsetCard
      <3>2. CASE Cardinality(s) <= k
        BY <2>1, <3>2
      <3>3. CASE Cardinality(s) > k
        <4>1. f[Picked(s)] \in Int /\ g[s \ {Picked(s)}] \in Int
          BY <2>1, <2>2, <2>3, <3>3
        <4> QED BY <3>1, <3>3, <4>1
      <3> QED BY <3>1, <3>2, <3>3
    <2>5. ASSUME NEW s \in Sub(k + 1)
          PROVE  h[s] = IF s = {} THEN 0 ELSE f[Picked(s)] + h[s \ {Picked(s)}]
      <3>1. Cardinality(s) \in Nat
        BY SubsetCard
      <3>2. ASSUME s # {} PROVE h[s \ {Picked(s)}] = g[s \ {Picked(s)}]
        <4>1. s \ {Picked(s)} \in Sub(k)
          BY <2>2, <3>2
        <4>2. s \ {Picked(s)} \in Sub(k + 1)
          <5>1. Cardinality(s \ {Picked(s)}) \in Nat
            BY SubsetCard
          <5> QED BY <4>1, <5>1
        <4> QED BY <4>1, <4>2
      <3>3. CASE Cardinality(s) <= k
        <4>1. h[s] = g[s] /\ s \in Sub(k)
          BY <3>3
        <4> HIDE DEF h
        <4> QED BY <2>1, <3>2, <4>1
      <3>4. CASE Cardinality(s) > k
        <4>1. h[s] = f[Picked(s)] + g[s \ {Picked(s)}] /\ s # {}
          BY <2>3, <3>1, <3>4
        <4> HIDE DEF h
        <4> QED BY <3>2, <4>1
      <3> QED BY <3>1, <3>3, <3>4
    <2> HIDE DEF h
    <2>6. Rec(h, k + 1)
      BY <2>5
    <2> HIDE DEF Rec, Sub
    <2> QED BY <2>4, <2>6
  <1>3. Cardinality(D) \in Good
    <2> HIDE DEF Good
    <2> QED BY <1>1, <1>2, NatSetInduction, FS_CardinalityType
  <1>4. Sub(Cardinality(D)) = SUBSET D
    BY SubsetCard
  <1>5. PICK g \in [Sub(Cardinality(D)) -> Int] : Rec(g, Cardinality(D))
    BY <1>3
  <1> QED BY <1>4, <1>5 DEF Summing

LEMMA SummingAgrees ==
    ASSUME NEW D, NEW E, NEW f, NEW g, NEW it, NEW jt,
           Summing(D, f, it), Summing(E, g, jt),
           NEW S \in SUBSET D, S \in SUBSET E, IsFiniteSet(S),
           \A x \in S : f[x] = g[x]
    PROVE  it[S] = jt[S]
  <1> DEFINE Good == {k \in Nat : \A s \in SUBSET S : Cardinality(s) = k => it[s] = jt[s]}
  <1>1. \A s \in SUBSET S :
           /\ it[s] = IF s = {} THEN 0 ELSE f[Picked(s)] + it[s \ {Picked(s)}]
           /\ jt[s] = IF s = {} THEN 0 ELSE g[Picked(s)] + jt[s \ {Picked(s)}]
    BY DEF Summing
  <1>2. 0 \in Good
    <2> SUFFICES ASSUME NEW s \in SUBSET S, Cardinality(s) = 0
                 PROVE  it[s] = jt[s]
      OBVIOUS
    <2>1. s = {}
      BY SubsetCard
    <2> QED BY <1>1, <2>1
  <1>3. ASSUME NEW k \in Nat, k \in Good
        PROVE  k + 1 \in Good
    <2> SUFFICES ASSUME NEW s \in SUBSET S, Cardinality(s) = k + 1
                 PROVE  it[s] = jt[s]
      OBVIOUS
    <2>1. s # {} /\ IsFiniteSet(s)
      BY SubsetCard
    <2>2. Picked(s) \in s
      BY <2>1, PickedIn
    <2>3. Cardinality(s \ {Picked(s)}) = k
      BY <2>1, <2>2, SmallerSet
    <2>4. it[s \ {Picked(s)}] = jt[s \ {Picked(s)}]
      BY <1>3, <2>3
    <2>5. f[Picked(s)] = g[Picked(s)]
      BY <2>2
    <2> QED BY <1>1, <2>1, <2>4, <2>5
  <1>4. Cardinality(S) \in Good
    <2> HIDE DEF Good
    <2> QED BY <1>2, <1>3, NatSetInduction, FS_CardinalityType
  <1> QED BY <1>4

\* The sum over any part of a set, in terms of one iteration over the set.
LEMMA SumIs ==
    ASSUME NEW D, IsFiniteSet(D), NEW f, \A x \in D : f[x] \in Int,
           NEW it, Summing(D, f, it), NEW S \in SUBSET D
    PROVE  SumFunctionOnSet(f, S) = it[S]
  <1>1. IsFiniteSet(S)
    BY FS_Subset
  <1> DEFINE jt == CHOOSE g : Summing(S, f, g)
  <1>2. Summing(S, f, jt)
    BY <1>1, SummingExists
  <1>3. SumFunctionOnSet(f, S) = jt[S]
    BY DEF SumFunctionOnSet, FoldFunctionOnSet, MapThenFoldSet, Summing, Picked
  <1> HIDE DEF jt
  <1> QED BY <1>1, <1>2, <1>3, SummingAgrees

LEMMA SumEmpty == ASSUME NEW f PROVE SumFunctionOnSet(f, {}) = 0
  <1>1. PICK it : it \in [SUBSET {} -> Int] /\ Summing({}, f, it)
    BY SummingExists, FS_EmptySet
  <1>2. SumFunctionOnSet(f, {}) = it[{}]
    BY <1>1, SumIs, FS_EmptySet
  <1> QED BY <1>1, <1>2 DEF Summing

\* A sum does not depend on the order in which its terms are taken.
LEMMA SumElement ==
    ASSUME NEW D, IsFiniteSet(D), NEW f, \A x \in D : f[x] \in Int, NEW x \in D
    PROVE  /\ SumFunctionOnSet(f, D) \in Int /\ SumFunctionOnSet(f, D \ {x}) \in Int
           /\ SumFunctionOnSet(f, D) = f[x] + SumFunctionOnSet(f, D \ {x})
  <1>1. PICK it : it \in [SUBSET D -> Int] /\ Summing(D, f, it)
    BY SummingExists
  <1>2. \A s \in SUBSET D : SumFunctionOnSet(f, s) = it[s]
    BY <1>1, SumIs
  <1>3. \A s \in SUBSET D : s # {} => it[s] = f[Picked(s)] + it[s \ {Picked(s)}]
    BY <1>1 DEF Summing
  <1> DEFINE Good == {k \in Nat : \A s \in SUBSET D : Cardinality(s) = k =>
                         \A y \in s : it[s] = f[y] + it[s \ {y}]}
  <1>4. 0 \in Good
    <2> SUFFICES ASSUME NEW s \in SUBSET D, Cardinality(s) = 0
                 PROVE  \A y \in s : it[s] = f[y] + it[s \ {y}]
      OBVIOUS
    <2> QED BY SubsetCard
  <1>5. ASSUME NEW k \in Nat, k \in Good
        PROVE  k + 1 \in Good
    <2> SUFFICES ASSUME NEW s \in SUBSET D, Cardinality(s) = k + 1, NEW y \in s
                 PROVE  it[s] = f[y] + it[s \ {y}]
      OBVIOUS
    <2> DEFINE p == Picked(s)
    <2>1. p \in s /\ IsFiniteSet(s)
      BY PickedIn, SubsetCard
    <2>2. it[s] = f[p] + it[s \ {p}]
      BY <1>3
    <2> HIDE DEF p
    <2>3. CASE y = p
      BY <2>2, <2>3
    <2>4. CASE y # p
      <3>1. Cardinality(s \ {p}) = k /\ Cardinality(s \ {y}) = k
        BY <2>1, SmallerSet
      <3>2. it[s \ {p}] = f[y] + it[(s \ {p}) \ {y}]
        BY <1>5, <2>1, <2>4, <3>1
      <3>3. it[s \ {y}] = f[p] + it[(s \ {y}) \ {p}]
        BY <1>5, <2>1, <2>4, <3>1
      <3>4. (s \ {p}) \ {y} = (s \ {y}) \ {p}
        OBVIOUS
      <3> DEFINE rest == it[(s \ {y}) \ {p}]
      <3>5. f[y] \in Int /\ f[p] \in Int /\ rest \in Int
        BY <1>1, <2>1
      <3>6. it[s] = f[p] + (f[y] + rest) /\ it[s \ {y}] = f[p] + rest
        BY <2>2, <3>2, <3>3, <3>4
      <3> HIDE DEF rest
      <3>7. f[p] + (f[y] + rest) = f[y] + (f[p] + rest)
        BY <3>5
      <3> QED BY <3>6, <3>7
    <2> QED BY <2>3, <2>4
  <1>6. Cardinality(D) \in Good
    <2> HIDE DEF Good
    <2> QED BY <1>4, <1>5, NatSetInduction, FS_CardinalityType
  <1>7. it[D] = f[x] + it[D \ {x}]
    BY <1>6
  <1> QED BY <1>1, <1>2, <1>7

LEMMA SumInt ==
    ASSUME NEW D, IsFiniteSet(D), NEW f, \A x \in D : f[x] \in Int
    PROVE  SumFunctionOnSet(f, D) \in Int
  <1>1. CASE D = {}
    BY <1>1, SumEmpty
  <1>2. CASE D # {}
    BY <1>2, SumElement
  <1> QED BY <1>1, <1>2

LEMMA SumAdd ==
    ASSUME NEW D, IsFiniteSet(D), NEW f, NEW x, x \notin D, \A y \in D \cup {x} : f[y] \in Int
    PROVE  SumFunctionOnSet(f, D \cup {x}) = SumFunctionOnSet(f, D) + f[x]
  <1>1. IsFiniteSet(D \cup {x}) /\ (D \cup {x}) \ {x} = D
    BY FS_AddElement
  <1>2. SumFunctionOnSet(f, D) \in Int /\ f[x] \in Int
    BY SumInt
  <1>3. SumFunctionOnSet(f, D \cup {x}) = f[x] + SumFunctionOnSet(f, D)
    BY <1>1, SumElement
  <1> QED BY <1>2, <1>3

\* Equal terms, equal sums.
LEMMA SumEqual ==
    ASSUME NEW D, IsFiniteSet(D), NEW f, NEW g,
           \A x \in D : f[x] \in Int /\ f[x] = g[x]
    PROVE  SumFunctionOnSet(f, D) = SumFunctionOnSet(g, D)
  <1>1. PICK it : Summing(D, f, it)
    BY SummingExists
  <1>2. PICK jt : Summing(D, g, jt)
    BY SummingExists
  <1>3. it[D] = jt[D]
    BY <1>1, <1>2, SummingAgrees
  <1> QED BY <1>1, <1>2, <1>3, SumIs

\* A property of a set that each element added keeps.
LEMMA FiniteSetInduction ==
    ASSUME NEW D, IsFiniteSet(D), NEW G, {} \in G,
           \A s \in SUBSET D, x \in D : s \in G /\ x \notin s => s \cup {x} \in G
    PROVE  D \in G
  <1> DEFINE Good == {k \in Nat : \A s \in SUBSET D : Cardinality(s) = k => s \in G}
  <1>1. 0 \in Good
    <2> SUFFICES ASSUME NEW s \in SUBSET D, Cardinality(s) = 0
                 PROVE  s \in G
      OBVIOUS
    <2>1. s = {}
      BY SubsetCard
    <2> QED BY <2>1
  <1>2. ASSUME NEW k \in Nat, k \in Good
        PROVE  k + 1 \in Good
    <2> SUFFICES ASSUME NEW s \in SUBSET D, Cardinality(s) = k + 1
                 PROVE  s \in G
      OBVIOUS
    <2>1. PICK x \in s : TRUE
      BY SubsetCard
    <2>2. s \ {x} \in SUBSET D /\ Cardinality(s \ {x}) = k
      BY SubsetCard, SmallerSet
    <2>3. s = (s \ {x}) \cup {x} /\ x \notin s \ {x} /\ x \in D
      OBVIOUS
    <2> QED BY <1>2, <2>2, <2>3
  <1>3. Cardinality(D) \in Good
    <2> HIDE DEF Good
    <2> QED BY <1>1, <1>2, NatSetInduction, FS_CardinalityType
  <1> QED BY <1>3

\* Larger terms, larger sums.
LEMMA SumMonotone ==
    ASSUME NEW D, IsFiniteSet(D), NEW f, NEW g,
           \A x \in D : f[x] \in Int /\ g[x] \in Int /\ f[x] <= g[x]
    PROVE  SumFunctionOnSet(f, D) <= SumFunctionOnSet(g, D)
  <1> DEFINE G == {s \in SUBSET D : SumFunctionOnSet(f, s) <= SumFunctionOnSet(g, s)}
  <1>1. {} \in G
    BY SumEmpty
  <1>2. ASSUME NEW s \in SUBSET D, NEW x \in D, s \in G, x \notin s
        PROVE  s \cup {x} \in G
    <2>1. IsFiniteSet(s)
      BY FS_Subset
    <2>2. /\ SumFunctionOnSet(f, s \cup {x}) = SumFunctionOnSet(f, s) + f[x]
          /\ SumFunctionOnSet(g, s \cup {x}) = SumFunctionOnSet(g, s) + g[x]
          /\ SumFunctionOnSet(f, s) \in Int /\ SumFunctionOnSet(g, s) \in Int
      BY <1>2, <2>1, SumAdd, SumInt
    <2> QED BY <1>2, <2>2
  <1>3. D \in G
    <2> HIDE DEF G
    <2> QED BY <1>1, <1>2, FiniteSetInduction
  <1> QED BY <1>3

LEMMA SumZero ==
    ASSUME NEW D, IsFiniteSet(D), NEW f, \A x \in D : f[x] = 0
    PROVE  SumFunctionOnSet(f, D) = 0
  <1> DEFINE G == {s \in SUBSET D : SumFunctionOnSet(f, s) = 0}
  <1>1. {} \in G
    BY SumEmpty
  <1>2. ASSUME NEW s \in SUBSET D, NEW x \in D, s \in G, x \notin s
        PROVE  s \cup {x} \in G
    <2>1. IsFiniteSet(s) /\ x \notin s
      BY <1>2, FS_Subset
    <2>2. \A y \in s \cup {x} : f[y] \in Int
      OBVIOUS
    <2>3. SumFunctionOnSet(f, s) = 0 /\ f[x] = 0
      BY <1>2
    <2> HIDE DEF G
    <2>4. SumFunctionOnSet(f, s \cup {x}) = SumFunctionOnSet(f, s) + f[x]
      BY <2>1, <2>2, SumAdd, Zenon
    <2>5. SumFunctionOnSet(f, s \cup {x}) = 0
      BY <2>3, <2>4
    <2> QED BY <2>5 DEF G
  <1>3. D \in G
    <2> HIDE DEF G
    <2> QED BY <1>1, <1>2, FiniteSetInduction
  <1> QED BY <1>3

\* A sum of natural numbers is one, and no term is above it.
LEMMA SumNat ==
    ASSUME NEW D, IsFiniteSet(D), NEW f, \A x \in D : f[x] \in Nat
    PROVE  /\ SumFunctionOnSet(f, D) \in Nat
           /\ \A x \in D : f[x] <= SumFunctionOnSet(f, D)
  <1>1. ASSUME NEW E \in SUBSET D
        PROVE  SumFunctionOnSet(f, E) \in Nat
    <2> DEFINE zero == [x \in E |-> 0]
    <2>1. IsFiniteSet(E) /\ \A x \in E : zero[x] = 0
      BY FS_Subset
    <2> HIDE DEF zero
    <2>2. SumFunctionOnSet(zero, E) = 0
      BY <2>1, SumZero
    <2>3. SumFunctionOnSet(zero, E) <= SumFunctionOnSet(f, E)
      BY <2>1, SumMonotone
    <2>4. SumFunctionOnSet(f, E) \in Int
      BY <2>1, SumInt
    <2> QED BY <2>2, <2>3, <2>4
  <1>2. ASSUME NEW x \in D
        PROVE  f[x] <= SumFunctionOnSet(f, D)
    <2>1. SumFunctionOnSet(f, D) = f[x] + SumFunctionOnSet(f, D \ {x})
      BY SumElement
    <2>2. SumFunctionOnSet(f, D \ {x}) \in Nat
      BY <1>1
    <2> QED BY <2>1, <2>2
  <1> QED BY <1>1, <1>2

-----------------------------------------------------------------------------
(* Division, as lines of files, slots and rows are counted.                  *)

LEMMA DivMod ==
    ASSUME NEW x \in Int, NEW d \in Nat \ {0}
    PROVE  x \div d \in Int /\ x % d \in 0 .. d - 1 /\ x = d * (x \div d) + (x % d)
  OBVIOUS

LEMMA TimesMonotone ==
    ASSUME NEW p \in Int, NEW q \in Int, NEW d \in Nat, p <= q
    PROVE  d * p <= d * q
  OBVIOUS

\* A quotient and a remainder that fit are the ones of the division.
LEMMA DivUnique ==
    ASSUME NEW d \in Nat \ {0}, NEW q \in Int, NEW r \in 0 .. d - 1
    PROVE  (d * q + r) \div d = q /\ (d * q + r) % d = r
  <1> DEFINE x == d * q + r
             p == x \div d
             s == x % d
  <1>0. x \in Int
    OBVIOUS
  <1>1. p \in Int /\ s \in 0 .. d - 1 /\ x = d * p + s
    BY <1>0, DivMod
  <1>2. ~ (p + 1 <= q)
    <2> SUFFICES ASSUME p + 1 <= q PROVE FALSE
      OBVIOUS
    <2>1. d * (p + 1) <= d * q
      BY <1>1, TimesMonotone
    <2>2. d * (p + 1) = d * p + d
      BY <1>1
    <2> HIDE DEF p, s
    <2> QED BY <1>1, <2>1, <2>2
  <1>3. ~ (q + 1 <= p)
    <2> SUFFICES ASSUME q + 1 <= p PROVE FALSE
      OBVIOUS
    <2>1. d * (q + 1) <= d * p
      BY <1>1, TimesMonotone
    <2>2. d * (q + 1) = d * q + d
      OBVIOUS
    <2> HIDE DEF p, s
    <2> QED BY <1>1, <2>1, <2>2
  <1> HIDE DEF p, s
  <1>4. p = q
    BY <1>1, <1>2, <1>3
  <1>5. s = r
    BY <1>1, <1>4
  <1> QED BY <1>4, <1>5 DEF p, s

LEMMA DivMonotone ==
    ASSUME NEW x \in Int, NEW y \in Int, NEW d \in Nat \ {0}, x <= y
    PROVE  x \div d <= y \div d
  <1> DEFINE p == x \div d
             q == y \div d
  <1>1. p \in Int /\ q \in Int /\ d * p <= x /\ y < d * q + d
    <2>1. p \in Int /\ x % d \in 0 .. d - 1 /\ x = d * p + (x % d)
      BY DivMod
    <2>2. q \in Int /\ y % d \in 0 .. d - 1 /\ y = d * q + (y % d)
      BY DivMod
    <2> QED BY <2>1, <2>2
  <1> HIDE DEF p, q
  <1>2. ~ (q + 1 <= p)
    <2> SUFFICES ASSUME q + 1 <= p PROVE FALSE
      OBVIOUS
    <2>1. d * (q + 1) <= d * p
      BY <1>1, TimesMonotone
    <2>2. d * (q + 1) = d * q + d
      BY <1>1
    <2> QED BY <1>1, <2>1, <2>2
  <1>3. p <= q
    BY <1>1, <1>2
  <1> QED BY <1>3 DEF p, q

LEMMA DivOfTimes ==
    ASSUME NEW d \in Nat \ {0}, NEW q \in Int
    PROVE  (d * q) \div d = q
  <1>1. 0 \in 0 .. d - 1 /\ d * q + 0 = d * q
    OBVIOUS
  <1> QED BY <1>1, DivUnique

LEMMA DivBelow ==
    ASSUME NEW d \in Nat \ {0}, NEW z \in Nat, NEW x \in Nat, x < z * d
    PROVE  x \div d \in 0 .. z - 1 /\ x % d \in 0 .. d - 1
  <1> DEFINE q == x \div d
  <1>1. q \in Int /\ x % d \in 0 .. d - 1 /\ x = d * q + (x % d)
    BY DivMod
  <1> HIDE DEF q
  <1>2. q >= 0
    <2> SUFFICES ASSUME q + 1 <= 0 PROVE FALSE
      BY <1>1
    <2>1. d * (q + 1) <= d * 0 /\ d * (q + 1) = d * q + d /\ d * 0 = 0
      BY <1>1, TimesMonotone
    <2> QED BY <1>1, <2>1
  <1>3. q < z
    <2> SUFFICES ASSUME z <= q PROVE FALSE
      BY <1>1
    <2>1. d * z <= d * q /\ d * z = z * d
      BY <1>1, TimesMonotone
    <2> QED BY <1>1, <2>1
  <1> QED BY <1>1, <1>2, <1>3 DEF q

\* A share of n: p of d parts, cut to a whole number.
LEMMA ShareBounds ==
    ASSUME NEW d \in Nat \ {0}, NEW n \in Nat, NEW p \in 0 .. d
    PROVE  p * n \in Nat /\ (p * n) \div d \in 0 .. n
  <1> DEFINE x == p * n
             y == d * n
  <1>1. x \in Int /\ y \in Int /\ 0 <= x /\ x <= y
    <2>1. n * 0 <= n * p /\ n * p <= n * d
      BY TimesMonotone
    <2>2. n * p = p * n /\ n * d = d * n /\ n * 0 = 0 /\ p * n \in Int /\ d * n \in Int
      OBVIOUS
    <2> QED BY <2>1, <2>2
  <1>2. y \div d = n
    BY DivOfTimes
  <1>3. 0 \div d = 0
    <2>1. 0 = d * 0
      OBVIOUS
    <2> QED BY <2>1, DivOfTimes
  <1> HIDE DEF x, y
  <1>4. 0 \div d <= x \div d /\ x \div d <= y \div d /\ x \div d \in Int
    BY <1>1, DivMonotone, DivMod
  <1> QED BY <1>1, <1>2, <1>3, <1>4 DEF x

LEMMA ShareMonotone ==
    ASSUME NEW d \in Nat \ {0}, NEW n \in Nat, NEW p \in Nat, NEW q \in Nat, p <= q
    PROVE  (p * n) \div d <= (q * n) \div d
  <1> DEFINE x == p * n
             y == q * n
  <1>1. x \in Int /\ y \in Int /\ x <= y
    <2>1. n * p <= n * q
      BY TimesMonotone
    <2>2. n * p = p * n /\ n * q = q * n /\ p * n \in Int /\ q * n \in Int
      OBVIOUS
    <2> QED BY <2>1, <2>2
  <1> HIDE DEF x, y
  <1>2. x \div d <= y \div d
    BY <1>1, DivMonotone
  <1> QED BY <1>2 DEF x, y

-----------------------------------------------------------------------------
(* Sequences of sequences.  part[k] is what the first k of them make         *)
(* together.                                                                 *)

LEMMA SeqElements ==
    ASSUME NEW T, NEW s \in Seq(T)
    PROVE  Len(s) \in Nat /\ DOMAIN s = 1 .. Len(s) /\ \A j \in 1 .. Len(s) : s[j] \in T
  OBVIOUS

LEMMA FunctionIsSeq ==
    ASSUME NEW T, NEW z \in Nat, NEW s \in [1 .. z -> T]
    PROVE  s \in Seq(T) /\ Len(s) = z
  OBVIOUS

LEMMA SeqEqual ==
    ASSUME NEW T, NEW s \in Seq(T), NEW t \in Seq(T), Len(s) = Len(t),
           \A j \in 1 .. Len(s) : s[j] = t[j]
    PROVE  s = t
  OBVIOUS

LEMMA ConcatIs ==
    ASSUME NEW T, NEW s \in Seq(T), NEW t \in Seq(T)
    PROVE  /\ s \o t \in Seq(T) /\ Len(s \o t) = Len(s) + Len(t)
           /\ \A j \in 1 .. Len(s) : (s \o t)[j] = s[j]
           /\ \A j \in 1 .. Len(t) : (s \o t)[Len(s) + j] = t[j]
  OBVIOUS

LEMMA EmptyConcat ==
    ASSUME NEW T, NEW s \in Seq(T)
    PROVE  <<>> \in Seq(T) /\ <<>> \o s = s /\ s \o <<>> = s
  <1>1. <<>> \in Seq(T)
    OBVIOUS
  <1>2. Len(<<>> \o s) = Len(s) /\ \A j \in 1 .. Len(s) : (<<>> \o s)[j] = s[j]
    OBVIOUS
  <1>3. Len(s \o <<>>) = Len(s) /\ \A j \in 1 .. Len(s) : (s \o <<>>)[j] = s[j]
    OBVIOUS
  <1> QED BY <1>1, <1>2, <1>3, ConcatIs, SeqEqual

Joined(x, s, t) == x = s \o t

LEMMA ConcatAssoc ==
    ASSUME NEW T, NEW s \in Seq(T), NEW t \in Seq(T), NEW u \in Seq(T),
           NEW st, Joined(st, s, t), NEW tu, Joined(tu, t, u), NEW z, Joined(z, st, u)
    PROVE  Joined(z, s, tu)
  <1> DEFINE x == (s \o t) \o u
             y == s \o (t \o u)
  <1>1. x \in Seq(T) /\ y \in Seq(T) /\ Len(x) = Len(y)
    OBVIOUS
  <1>2. ASSUME NEW j \in 1 .. Len(x) PROVE x[j] = y[j]
    OBVIOUS
  <1> HIDE DEF x, y
  <1>3. x = y
    BY <1>1, <1>2, SeqEqual
  <1> QED BY <1>3, Zenon DEF x, y, Joined

\* t is z elements of s, the ones behind its first d.
IsPart(t, s, d, z) == Len(t) = z /\ \A j \in 1 .. z : t[j] = s[d + j]

LEMMA SubSeqIs ==
    ASSUME NEW T, NEW s \in Seq(T), NEW d \in Nat, NEW z \in Nat, d + z <= Len(s),
           NEW p, p = d + 1, NEW q, q = d + z, NEW t, t = SubSeq(s, p, q)
    PROVE  t \in Seq(T) /\ IsPart(t, s, d, z)
  <1>1. Len(t) = z
    OBVIOUS
  <1>2. ASSUME NEW j \in 1 .. z
        PROVE  t[j] = s[d + j] /\ t[j] \in T
    <2>1. d + j \in 1 .. Len(s) /\ p + j - 1 = d + j
      OBVIOUS
    <2>2. t[j] = s[d + j]
      BY <2>1
    <2>3. s[d + j] \in T
      BY <2>1
    <2> QED BY <2>2, <2>3
  <1>3. t \in Seq(T)
    <2>1. t = [j \in 1 .. z |-> t[j]]
      OBVIOUS
    <2>2. t \in [1 .. z -> T]
      BY <1>2, <2>1, Zenon
    <2> QED BY <2>2, FunctionIsSeq
  <1> QED BY <1>1, <1>2, <1>3 DEF IsPart

Flattening(ss, z, part) ==
    /\ part[0] = <<>>
    /\ \A k \in 1 .. z : part[k] = part[k - 1] \o ss[k]

LEMMA FlatteningExists ==
    ASSUME NEW T, NEW z \in Nat, NEW ss \in [1 .. z -> Seq(T)]
    PROVE  \E part \in [0 .. z -> Seq(T)] : Flattening(ss, z, part)
  <1> DEFINE Good == {k \in Nat : k <= z =>
                         \E p \in [0 .. k -> Seq(T)] : Flattening(ss, k, p)}
  <1>1. 0 \in Good
    <2> DEFINE p == [k \in 0 .. 0 |-> <<>>]
    <2>1. p \in [0 .. 0 -> Seq(T)] /\ Flattening(ss, 0, p)
      BY DEF Flattening
    <2> QED BY <2>1
  <1>2. ASSUME NEW k \in Nat, k \in Good
        PROVE  k + 1 \in Good
    <2> SUFFICES ASSUME k + 1 <= z
                 PROVE  \E p \in [0 .. k + 1 -> Seq(T)] : Flattening(ss, k + 1, p)
      OBVIOUS
    <2>1. PICK p \in [0 .. k -> Seq(T)] : Flattening(ss, k, p)
      BY <1>2
    <2> DEFINE last == p[k] \o ss[k + 1]
               q == [j \in 0 .. k + 1 |-> IF j <= k THEN p[j] ELSE last]
    <2>2. last \in Seq(T)
      <3>1. ss[k + 1] \in Seq(T) /\ p[k] \in Seq(T)
        OBVIOUS
      <3> QED BY <3>1, ConcatIs
    <2>3. last = p[k] \o ss[k + 1]
      OBVIOUS
    <2> HIDE DEF last
    <2>4. q[k + 1] = last /\ \A j \in 0 .. k : q[j] = p[j]
      OBVIOUS
    <2>5. q \in [0 .. k + 1 -> Seq(T)]
      BY <2>2
    <2> HIDE DEF q
    <2>6. ASSUME NEW j \in 1 .. k + 1 PROVE q[j] = q[j - 1] \o ss[j]
      <3>1. CASE j = k + 1
        <4>1. j - 1 = k
          BY <3>1
        <4>2. q[j - 1] = p[k] /\ q[j] = last
          BY <2>4, <3>1, <4>1
        <4> QED BY <2>3, <3>1, <4>2, Zenon
      <3>2. CASE j # k + 1
        <4>1. j \in 1 .. k /\ j - 1 \in 0 .. k /\ j \in 0 .. k
          BY <3>2
        <4>2. q[j] = p[j] /\ q[j - 1] = p[j - 1]
          BY <2>4, <4>1
        <4>3. p[j] = p[j - 1] \o ss[j]
          BY <2>1, <4>1 DEF Flattening
        <4> QED BY <4>2, <4>3, Zenon
      <3> QED BY <3>1, <3>2
    <2>7. q[0] = <<>>
      BY <2>1, <2>4 DEF Flattening
    <2> QED BY <2>5, <2>6, <2>7 DEF Flattening
  <1>3. z \in Good
    <2> HIDE DEF Good
    <2> QED BY <1>1, <1>2, NatSetInduction
  <1> QED BY <1>3

LEMMA FlattenSteps ==
    ASSUME NEW T, NEW z \in Nat, NEW ss \in [1 .. z -> Seq(T)],
           NEW part \in [0 .. z -> Seq(T)], Flattening(ss, z, part)
    PROVE  FlattenSeq(ss) = part[z]
  <1>0. Len(ss) = z
    OBVIOUS
  <1>1. CASE z = 0
    <2>1. part[0] = <<>> /\ ss = <<>>
      BY <1>1 DEF Flattening
    <2>2. FlattenSeq(ss) = ss
      BY <1>0, <1>1 DEF FlattenSeq
    <2> QED BY <1>1, <2>1, <2>2
  <1>2. CASE z # 0
    <2> DEFINE Flat(g) == g = [j \in 1 .. z |-> IF j = 1 THEN ss[j] ELSE g[j - 1] \o ss[j]]
               fl == CHOOSE g : Flat(g)
               p == [j \in 1 .. z |-> part[j]]
    <2>1. FlattenSeq(ss) = fl[z]
      BY <1>0, <1>2 DEF FlattenSeq
    <2>2. \A j \in 1 .. z : p[j] = part[j]
      OBVIOUS
    <2>3. \A j \in 1 .. z : part[j] = IF j = 1 THEN ss[j] ELSE p[j - 1] \o ss[j]
      <3> SUFFICES ASSUME NEW j \in 1 .. z
                   PROVE  part[j] = IF j = 1 THEN ss[j] ELSE p[j - 1] \o ss[j]
        OBVIOUS
      <3> HIDE DEF p, fl
      <3>1. part[j] = part[j - 1] \o ss[j] /\ part[0] = <<>>
        BY DEF Flattening
      <3>2. CASE j = 1
        <4>1. ss[j] \in Seq(T)
          OBVIOUS
        <4>2. <<>> \o ss[j] = ss[j]
          BY <4>1, EmptyConcat
        <4>3. part[j - 1] = <<>>
          BY <3>1, <3>2
        <4> QED BY <3>1, <3>2, <4>2, <4>3, Zenon
      <3>3. CASE j # 1
        <4>1. p[j - 1] = part[j - 1]
          BY <2>2, <3>3
        <4> QED BY <3>1, <3>3, <4>1, Zenon
      <3> QED BY <3>2, <3>3
    <2>4. Flat(p)
      BY <2>3, Zenon
    <2>5. Flat(fl)
      <3> HIDE DEF p
      <3> QED BY <2>4, Zenon
    <2>6. \A j \in 1 .. z : fl[j] = IF j = 1 THEN ss[j] ELSE fl[j - 1] \o ss[j]
      <3> HIDE DEF fl
      <3> QED BY <2>5, Zenon
    <2> HIDE DEF fl
    <2> DEFINE Good == {k \in Nat : k + 1 <= z => fl[k + 1] = part[k + 1]}
    <2>7. 0 \in Good
      <3>1. 1 \in 1 .. z
        BY <1>2
      <3> HIDE DEF p
      <3>2. fl[1] = part[1]
        BY <2>3, <2>6, <3>1, Zenon
      <3>3. 0 + 1 = 1
        OBVIOUS
      <3> QED BY <3>2, <3>3
    <2>8. ASSUME NEW k \in Nat, k \in Good
          PROVE  k + 1 \in Good
      <3> SUFFICES ASSUME k + 2 <= z PROVE fl[k + 2] = part[k + 2]
        OBVIOUS
      <3>1. fl[k + 1] = part[k + 1]
        BY <2>8
      <3>2. k + 2 \in 1 .. z /\ k + 1 \in 1 .. z /\ k + 2 # 1 /\ (k + 2) - 1 = k + 1
        OBVIOUS
      <3> HIDE DEF p
      <3>3. fl[k + 2] = fl[k + 1] \o ss[k + 2]
        BY <2>6, <3>2, Zenon
      <3>4. part[k + 2] = part[k + 1] \o ss[k + 2]
        BY <2>2, <2>3, <3>2, Zenon
      <3> QED BY <3>1, <3>3, <3>4, Zenon
    <2>9. z - 1 \in Good
      <3>1. z - 1 \in Nat
        BY <1>2
      <3> HIDE DEF Good
      <3> QED BY <2>7, <2>8, <3>1, NatSetInduction
    <2>10. fl[z] = part[z]
      BY <1>2, <2>9
    <2> QED BY <2>1, <2>10
  <1> QED BY <1>1, <1>2

LEMMA FlattenEmpty == FlattenSeq(<<>>) = <<>>
  BY DEF FlattenSeq

LEMMA FlattenType ==
    ASSUME NEW T, NEW z \in Nat, NEW ss \in [1 .. z -> Seq(T)]
    PROVE  FlattenSeq(ss) \in Seq(T)
  <1>1. PICK part \in [0 .. z -> Seq(T)] : Flattening(ss, z, part)
    BY FlatteningExists
  <1>2. FlattenSeq(ss) = part[z]
    BY <1>1, FlattenSteps
  <1>3. part[z] \in Seq(T)
    OBVIOUS
  <1> QED BY <1>2, <1>3, Zenon

\* One more sequence stands at the end.
LEMMA FlattenAppend ==
    ASSUME NEW T, NEW z \in Nat, NEW ss \in [1 .. z -> Seq(T)],
           NEW tt \in [1 .. z + 1 -> Seq(T)], \A k \in 1 .. z : tt[k] = ss[k]
    PROVE  FlattenSeq(tt) = FlattenSeq(ss) \o tt[z + 1]
  <1>0. z + 1 \in Nat
    OBVIOUS
  <1>1. PICK part \in [0 .. z + 1 -> Seq(T)] : Flattening(tt, z + 1, part)
    BY <1>0, FlatteningExists, Zenon
  <1> DEFINE p == [k \in 0 .. z |-> part[k]]
  <1>2. p \in [0 .. z -> Seq(T)] /\ \A k \in 0 .. z : p[k] = part[k]
    OBVIOUS
  <1> HIDE DEF p
  <1>3. Flattening(ss, z, p)
    <2>1. p[0] = <<>>
      BY <1>1, <1>2 DEF Flattening
    <2>2. ASSUME NEW k \in 1 .. z PROVE p[k] = p[k - 1] \o ss[k]
      <3>1. k \in 1 .. z + 1 /\ k \in 0 .. z /\ k - 1 \in 0 .. z
        OBVIOUS
      <3>2. part[k] = part[k - 1] \o tt[k]
        BY <1>1, <3>1 DEF Flattening
      <3> QED BY <1>2, <3>1, <3>2, Zenon
    <2> QED BY <2>1, <2>2 DEF Flattening
  <1>4. FlattenSeq(ss) = p[z]
    BY <1>2, <1>3, FlattenSteps
  <1>5. FlattenSeq(tt) = part[z + 1]
    BY <1>0, <1>1, FlattenSteps, Zenon
  <1>6. z + 1 \in 1 .. z + 1 /\ (z + 1) - 1 = z /\ z \in 0 .. z
    OBVIOUS
  <1>7. part[z + 1] = part[z] \o tt[z + 1]
    BY <1>1, <1>6 DEF Flattening
  <1> QED BY <1>2, <1>4, <1>5, <1>6, <1>7, Zenon

\* Sequences of one length, and each of them where it is expected in what they make
\* together.
AllLong(ss, z, w) == \A j \in 1 .. z : Len(ss[j]) = w

InBlocks(s, ss, z, w) ==
    /\ Len(s) = w * z
    /\ \A j \in 1 .. z, r \in 1 .. w :
          w * (j - 1) + r \in 1 .. w * z /\ s[w * (j - 1) + r] = ss[j][r]

LEMMA FlattenUniform ==
    ASSUME NEW T, NEW w \in Nat, NEW z \in Nat, NEW ss \in [1 .. z -> Seq(T)], AllLong(ss, z, w)
    PROVE  FlattenSeq(ss) \in Seq(T) /\ InBlocks(FlattenSeq(ss), ss, z, w)
  <1> USE DEF AllLong
  <1>1. PICK part \in [0 .. z -> Seq(T)] : Flattening(ss, z, part)
    BY FlatteningExists
  <1>2. FlattenSeq(ss) = part[z]
    BY <1>1, FlattenSteps
  <1> DEFINE Placed(k) == /\ part[k] \in Seq(T) /\ Len(part[k]) = w * k
                          /\ \A j \in 1 .. k, r \in 1 .. w :
                                w * (j - 1) + r \in 1 .. w * k /\ part[k][w * (j - 1) + r] = ss[j][r]
             Good == {k \in Nat : k <= z => Placed(k)}
  <1>4. 0 \in Good
    <2>1. part[0] = <<>>
      BY <1>1 DEF Flattening
    <2>2. w * 0 = 0 /\ Len(<<>>) = 0 /\ <<>> \in Seq(T)
      OBVIOUS
    <2>3. Placed(0)
      BY <2>1, <2>2
    <2> QED BY <2>3
  <1>5. ASSUME NEW k \in Nat, k \in Good
        PROVE  k + 1 \in Good
    <2> HIDE DEF Placed
    <2> SUFFICES ASSUME k + 1 <= z PROVE Placed(k + 1)
      OBVIOUS
    <2>1. Placed(k)
      <3>1. k <= z
        OBVIOUS
      <3> QED BY <1>5, <3>1
    <2> USE DEF Placed
    <2> DEFINE x == w * k
               s == part[k]
               t == ss[k + 1]
    <2>2. x \in Nat /\ w * (k + 1) = x + w /\ (k + 1) - 1 = k
      OBVIOUS
    <2>3. s \in Seq(T) /\ t \in Seq(T) /\ Len(s) = x /\ Len(t) = w
      BY <2>1
    <2>4. part[k + 1] = s \o t
      <3>1. k + 1 \in 1 .. z
        OBVIOUS
      <3> QED BY <1>1, <2>2, <3>1 DEF Flattening
    <2> HIDE DEF x, s, t
    <2>5. /\ part[k + 1] \in Seq(T) /\ Len(part[k + 1]) = x + w
          /\ \A y \in 1 .. x : part[k + 1][y] = s[y]
          /\ \A r \in 1 .. w : part[k + 1][x + r] = t[r]
      <3>1. /\ s \o t \in Seq(T) /\ Len(s \o t) = Len(s) + Len(t)
            /\ \A y \in 1 .. Len(s) : (s \o t)[y] = s[y]
            /\ \A r \in 1 .. Len(t) : (s \o t)[Len(s) + r] = t[r]
        <4> HIDE DEF Placed, Good
        <4>1. s \in Seq(T) /\ t \in Seq(T)
          BY <2>3, Zenon
        <4> QED BY ONLY <4>1, ConcatIs
      <3> QED BY <2>3, <2>4, <3>1, Zenon
    <2>6. ASSUME NEW j \in 1 .. k + 1, NEW r \in 1 .. w
          PROVE  w * (j - 1) + r \in 1 .. x + w /\ part[k + 1][w * (j - 1) + r] = ss[j][r]
      <3>1. CASE j = k + 1
        <4>1. w * (j - 1) = x
          BY <3>1 DEF x
        <4>2. x + r \in 1 .. x + w
          BY <2>2
        <4> QED BY <2>5, <3>1, <4>1, <4>2 DEF t
      <3>2. CASE j # k + 1
        <4>1. j \in 1 .. k
          BY <3>2
        <4> DEFINE y == w * (j - 1) + r
        <4>2. y \in 1 .. w * k /\ part[k][y] = ss[j][r]
          BY <2>1, <4>1
        <4> HIDE DEF y
        <4>3. y \in 1 .. x
          BY <4>2 DEF x
        <4>4. part[k + 1][y] = ss[j][r] /\ y \in 1 .. x + w
          BY <2>2, <2>5, <4>2, <4>3 DEF s
        <4> QED BY <4>4 DEF y
      <3> QED BY <3>1, <3>2
    <2> QED BY <2>2, <2>5, <2>6
  <1>6. z \in Good
    <2> HIDE DEF Good
    <2> QED BY <1>4, <1>5, NatSetInduction
  <1>7. Placed(z)
    <2> HIDE DEF Placed
    <2> QED BY <1>6
  <1> QED BY <1>2, <1>7, Zenon DEF InBlocks

\* One more sequence stands at the front.
LEMMA FlattenPrepend ==
    ASSUME NEW T, NEW z \in Nat, NEW ss \in [1 .. z + 1 -> Seq(T)],
           NEW tt \in [1 .. z -> Seq(T)], \A k \in 1 .. z : tt[k] = ss[k + 1]
    PROVE  FlattenSeq(ss) = ss[1] \o FlattenSeq(tt)
  <1>0. z + 1 \in Nat /\ 1 \in 1 .. z + 1 /\ ss[1] \in Seq(T)
    OBVIOUS
  <1>1. PICK part \in [0 .. z + 1 -> Seq(T)] : Flattening(ss, z + 1, part)
    BY <1>0, FlatteningExists, Zenon
  <1>2. PICK rest \in [0 .. z -> Seq(T)] : Flattening(tt, z, rest)
    BY FlatteningExists
  <1>3. \A k \in 1 .. z + 1 : part[k] = part[k - 1] \o ss[k]
    BY <1>1 DEF Flattening
  <1>4. \A k \in 1 .. z : rest[k] = rest[k - 1] \o tt[k]
    BY <1>2 DEF Flattening
  <1> DEFINE Ahead(k) == part[k + 1] = ss[1] \o rest[k]
             Good == {k \in Nat : k <= z => Ahead(k)}
  <1>5. 0 \in Good
    <2>0. part[0] = <<>> /\ rest[0] = <<>> /\ 1 - 1 = 0 /\ 0 + 1 = 1
      BY <1>1, <1>2 DEF Flattening
    <2>1. part[1] = <<>> \o ss[1]
      BY <1>0, <1>3, <2>0, Zenon
    <2>2. <<>> \o ss[1] = ss[1] /\ ss[1] \o <<>> = ss[1]
      BY <1>0, EmptyConcat
    <2>3. Ahead(0)
      BY <2>0, <2>1, <2>2, Zenon
    <2> HIDE DEF Ahead
    <2> QED BY <2>3
  <1>6. ASSUME NEW k \in Nat, k \in Good
        PROVE  k + 1 \in Good
    <2> HIDE DEF Ahead
    <2> SUFFICES ASSUME k + 1 <= z PROVE Ahead(k + 1)
      OBVIOUS
    <2>0. Ahead(k)
      BY <1>6
    <2> USE DEF Ahead
    <2>1. Joined(part[k + 1], ss[1], rest[k])
      BY <2>0, Zenon DEF Joined
    <2>2. k + 2 \in 1 .. z + 1 /\ k + 1 \in 1 .. z /\ (k + 1) + 1 = k + 2
          /\ (k + 2) - 1 = k + 1 /\ (k + 1) - 1 = k
      OBVIOUS
    <2> HIDE DEF Good
    <2>3. Joined(part[k + 2], part[k + 1], ss[k + 2])
      BY <1>3, <2>2 DEF Joined
    <2>4. Joined(rest[k + 1], rest[k], ss[k + 2])
      BY <1>4, <2>2 DEF Joined
    <2>5. rest[k] \in Seq(T) /\ ss[k + 2] \in Seq(T)
      BY <2>2
    <2>6. Joined(part[k + 2], ss[1], rest[k + 1])
      <3>1. PICK a, b, c, p, q, x : /\ a = ss[1] /\ b = rest[k] /\ c = ss[k + 2]
                                    /\ p = part[k + 1] /\ q = rest[k + 1] /\ x = part[k + 2]
        OBVIOUS
      <3>2. /\ a \in Seq(T) /\ b \in Seq(T) /\ c \in Seq(T)
            /\ Joined(p, a, b) /\ Joined(x, p, c) /\ Joined(q, b, c)
        BY <1>0, <2>1, <2>3, <2>4, <2>5, <3>1, Zenon
      <3>3. Joined(x, a, q)
        BY ONLY <3>2, ConcatAssoc, Zenon
      <3> QED BY <3>1, <3>3, Zenon
    <2> QED BY <2>2, <2>6, Zenon DEF Joined
  <1>7. part[z + 1] = ss[1] \o rest[z]
    <2>1. z \in Good
      <3> HIDE DEF Good
      <3> QED BY <1>5, <1>6, NatSetInduction
    <2>2. Ahead(z)
      <3> HIDE DEF Ahead
      <3> QED BY <2>1
    <2> QED BY <2>2, Zenon
  <1>8. FlattenSeq(ss) = part[z + 1] /\ FlattenSeq(tt) = rest[z]
    BY <1>0, <1>1, <1>2, FlattenSteps, Zenon
  <1> QED BY <1>7, <1>8, Zenon

-----------------------------------------------------------------------------
(* Sums over the places of sequences.                                        *)

\* The sum over two sets that have no element in common.
LEMMA SumUnion ==
    ASSUME NEW D, IsFiniteSet(D), NEW E, IsFiniteSet(E), D \cap E = {},
           NEW f, \A x \in D \cup E : f[x] \in Int
    PROVE  SumFunctionOnSet(f, D \cup E) = SumFunctionOnSet(f, D) + SumFunctionOnSet(f, E)
  <1> DEFINE Both(s) == SumFunctionOnSet(f, D \cup s)
                            = SumFunctionOnSet(f, D) + SumFunctionOnSet(f, s)
             G == {s \in SUBSET E : Both(s)}
  <1>1. {} \in G
    <2>1. D \cup {} = D /\ SumFunctionOnSet(f, {}) = 0 /\ SumFunctionOnSet(f, D) \in Int
      BY SumEmpty, SumInt
    <2>2. Both({})
      BY <2>1
    <2> QED BY <2>2
  <1>2. ASSUME NEW s \in SUBSET E, NEW x \in E, s \in G, x \notin s
        PROVE  s \cup {x} \in G
    <2>1. IsFiniteSet(s) /\ IsFiniteSet(D \cup s) /\ x \notin D \cup s
      <3>1. s \subseteq E /\ x \notin D /\ x \notin s
        BY <1>2
      <3>2. IsFiniteSet(s)
        BY <3>1, FS_Subset, Zenon
      <3>3. IsFiniteSet(D \cup s)
        BY <3>2, FS_Union, Zenon
      <3> QED BY <3>1, <3>2, <3>3
    <2>2. SumFunctionOnSet(f, s \cup {x}) = SumFunctionOnSet(f, s) + f[x]
      BY <1>2, <2>1, SumAdd
    <2>3. SumFunctionOnSet(f, (D \cup s) \cup {x}) = SumFunctionOnSet(f, D \cup s) + f[x]
      <3>1. \A y \in (D \cup s) \cup {x} : f[y] \in Int
        OBVIOUS
      <3> QED BY <2>1, <3>1, SumAdd
    <2>4. (D \cup s) \cup {x} = D \cup (s \cup {x})
      OBVIOUS
    <2>5. /\ SumFunctionOnSet(f, D) \in Int /\ SumFunctionOnSet(f, s) \in Int /\ f[x] \in Int
      BY <2>1, SumInt
    <2>6. Both(s)
      BY <1>2
    <2>7. Both(s \cup {x})
      <3>1. PICK a, b, y : /\ a = SumFunctionOnSet(f, D) /\ b = SumFunctionOnSet(f, s)
                           /\ y = f[x]
        OBVIOUS
      <3>2. SumFunctionOnSet(f, D \cup (s \cup {x})) = (a + b) + y
        BY <2>3, <2>4, <2>6, <3>1, Zenon
      <3>3. SumFunctionOnSet(f, s \cup {x}) = b + y
        BY <2>2, <3>1, Zenon
      <3>4. (a + b) + y = a + (b + y)
        BY ONLY <2>5, <3>1
      <3> QED BY <3>1, <3>2, <3>3, <3>4, Zenon
    <2> QED BY <2>7
  <1>3. E \in G
    <2> HIDE DEF G
    <2> QED BY <1>1, <1>2, FiniteSetInduction
  <1> QED BY <1>3

LEMMA IntervalFinite ==
    ASSUME NEW a \in Int, NEW m \in Nat
    PROVE  IsFiniteSet(1 .. m) /\ IsFiniteSet(a + 1 .. a + m)
  <1>1. m \in Int /\ 1 \in Int /\ a + 1 \in Int /\ a + m \in Int
    OBVIOUS
  <1> QED BY <1>1, FS_Interval

LEMMA SumNext ==
    ASSUME NEW k \in Nat, NEW d, \A j \in 1 .. k + 1 : d[j] \in Int
    PROVE  SumFunctionOnSet(d, 1 .. k + 1) = SumFunctionOnSet(d, 1 .. k) + d[k + 1]
  <1>1. PICK A : A = 1 .. k
    OBVIOUS
  <1>2. k + 1 \notin A /\ 1 .. k + 1 = A \cup {k + 1}
    BY <1>1
  <1>3. IsFiniteSet(A)
    BY <1>1, IntervalFinite
  <1>4. PICK x : x = k + 1
    OBVIOUS
  <1>5. x \notin A /\ \A j \in A \cup {x} : d[j] \in Int
    BY <1>2, <1>4
  <1>6. SumFunctionOnSet(d, A \cup {x}) = SumFunctionOnSet(d, A) + d[x]
    BY ONLY <1>3, <1>5, SumAdd
  <1> QED BY <1>1, <1>2, <1>4, <1>6

\* The same terms at other places.
LEMMA SumShift ==
    ASSUME NEW m \in Nat, NEW d \in Int, NEW f, NEW g,
           \A r \in 1 .. m : f[r] \in Int /\ g[d + r] = f[r]
    PROVE  /\ SumFunctionOnSet(g, d + 1 .. d + m) = SumFunctionOnSet(f, 1 .. m)
           /\ SumFunctionOnSet(f, 1 .. m) \in Int
  <1> DEFINE Same(k) == SumFunctionOnSet(g, d + 1 .. d + k) = SumFunctionOnSet(f, 1 .. k)
             Good == {k \in Nat : k <= m => Same(k)}
  <1>1. 0 \in Good
    <2>1. d + 1 .. d + 0 = {} /\ 1 .. 0 = {}
      OBVIOUS
    <2>2. Same(0)
      BY <2>1, SumEmpty, Zenon
    <2> HIDE DEF Same
    <2> QED BY <2>2
  <1>2. ASSUME NEW k \in Nat, k \in Good
        PROVE  k + 1 \in Good
    <2> HIDE DEF Same
    <2> SUFFICES ASSUME k + 1 <= m PROVE Same(k + 1)
      OBVIOUS
    <2>1. Same(k)
      BY <1>2
    <2> USE DEF Same
    <2> DEFINE D == 1 .. k
               E == d + 1 .. d + k
               x == d + k + 1
    <2>2. IsFiniteSet(D) /\ k + 1 \notin D /\ 1 .. k + 1 = D \cup {k + 1}
      <3>1. IsFiniteSet(D)
        BY IntervalFinite
      <3>2. k + 1 \notin D /\ 1 .. k + 1 = D \cup {k + 1}
        OBVIOUS
      <3> QED BY <3>1, <3>2
    <2>3. IsFiniteSet(E) /\ x \notin E /\ d + 1 .. d + (k + 1) = E \cup {x}
      <3>1. IsFiniteSet(E)
        BY IntervalFinite
      <3>2. x \notin E /\ d + 1 .. d + (k + 1) = E \cup {x}
        OBVIOUS
      <3> QED BY <3>1, <3>2
    <2>4. (\A y \in D \cup {k + 1} : f[y] \in Int) /\ g[x] = f[k + 1]
      <3>1. x = d + (k + 1) /\ k + 1 \in 1 .. m
        OBVIOUS
      <3> QED BY <3>1
    <2>5. \A y \in E \cup {x} : g[y] \in Int
      <3> SUFFICES ASSUME NEW y \in E \cup {x} PROVE g[y] \in Int
        OBVIOUS
      <3>1. y - d \in 1 .. m /\ d + (y - d) = y
        OBVIOUS
      <3> QED BY <3>1
    <2> HIDE DEF D, E, x
    <2>6. SumFunctionOnSet(f, D \cup {k + 1}) = SumFunctionOnSet(f, D) + f[k + 1]
      BY <2>2, <2>4, SumAdd
    <2>7. SumFunctionOnSet(g, E \cup {x}) = SumFunctionOnSet(g, E) + g[x]
      BY <2>3, <2>5, SumAdd
    <2>8. SumFunctionOnSet(g, E) = SumFunctionOnSet(f, D)
      BY <2>1 DEF D, E
    <2> QED BY <2>2, <2>3, <2>4, <2>6, <2>7, <2>8, Zenon
  <1>3. m \in Good
    <2> HIDE DEF Good
    <2> QED BY <1>1, <1>2, NatSetInduction
  <1>4. SumFunctionOnSet(f, 1 .. m) \in Int
    <2>1. IsFiniteSet(1 .. m)
      BY IntervalFinite
    <2> QED BY <2>1, SumInt
  <1> QED BY <1>3, <1>4

\* The sum of the products of what stands at the same place.
Dot(p, q) == SumFunctionOnSet([x \in 1 .. Len(p) |-> p[x] * q[x]], 1 .. Len(p))

LEMMA DotEmpty == Dot(<<>>, <<>>) = 0
  <1>1. 1 .. Len(<<>>) = {}
    OBVIOUS
  <1> QED BY <1>1, SumEmpty DEF Dot

LEMMA DotConcat ==
    ASSUME NEW p \in Seq(Int), NEW q \in Seq(Int), Len(p) = Len(q),
           NEW r \in Seq(Int), NEW s \in Seq(Int), Len(r) = Len(s),
           NEW x, Joined(x, p, r), NEW y, Joined(y, q, s)
    PROVE  /\ Dot(x, y) = Dot(p, q) + Dot(r, s) /\ Len(x) = Len(y)
           /\ Dot(p, q) \in Int /\ Dot(r, s) \in Int
  <1>1. /\ x \in Seq(Int) /\ Len(x) = Len(p) + Len(r)
        /\ \A j \in 1 .. Len(p) : x[j] = p[j]
        /\ \A j \in 1 .. Len(r) : x[Len(p) + j] = r[j]
    <2>1. x = p \o r
      BY DEF Joined
    <2>2. /\ p \o r \in Seq(Int) /\ Len(p \o r) = Len(p) + Len(r)
          /\ \A j \in 1 .. Len(p) : (p \o r)[j] = p[j]
          /\ \A j \in 1 .. Len(r) : (p \o r)[Len(p) + j] = r[j]
      BY ONLY p \in Seq(Int), r \in Seq(Int), ConcatIs
    <2> QED BY <2>1, <2>2, Zenon
  <1>2. /\ y \in Seq(Int) /\ Len(y) = Len(q) + Len(s)
        /\ \A j \in 1 .. Len(q) : y[j] = q[j]
        /\ \A j \in 1 .. Len(s) : y[Len(q) + j] = s[j]
    <2>1. y = q \o s
      BY DEF Joined
    <2>2. /\ q \o s \in Seq(Int) /\ Len(q \o s) = Len(q) + Len(s)
          /\ \A j \in 1 .. Len(q) : (q \o s)[j] = q[j]
          /\ \A j \in 1 .. Len(s) : (q \o s)[Len(q) + j] = s[j]
      BY ONLY q \in Seq(Int), s \in Seq(Int), ConcatIs
    <2> QED BY <2>1, <2>2, Zenon
  <1>3. PICK m \in Nat, k \in Nat : m = Len(p) /\ k = Len(r)
    OBVIOUS
  <1> DEFINE f == [j \in 1 .. Len(x) |-> x[j] * y[j]]
             g == [j \in 1 .. Len(p) |-> p[j] * q[j]]
             h == [j \in 1 .. Len(r) |-> r[j] * s[j]]
  <1>4. Len(x) = m + k /\ Len(p) = m /\ Len(q) = m /\ Len(r) = k /\ Len(s) = k /\ Len(y) = m + k
    BY <1>1, <1>2, <1>3
  <1>5. \A j \in 1 .. m : g[j] \in Int /\ f[j] = g[j]
    <2> SUFFICES ASSUME NEW j \in 1 .. m PROVE g[j] \in Int /\ f[j] = g[j]
      OBVIOUS
    <2>1. x[j] = p[j] /\ y[j] = q[j] /\ p[j] \in Int /\ q[j] \in Int
      BY <1>1, <1>2, <1>4, SeqElements
    <2>2. g[j] = p[j] * q[j] /\ f[j] = x[j] * y[j]
      BY <1>4
    <2> HIDE DEF f, g
    <2> QED BY <2>1, <2>2
  <1>6. \A j \in 1 .. k : h[j] \in Int /\ f[m + j] = h[j]
    <2> SUFFICES ASSUME NEW j \in 1 .. k PROVE h[j] \in Int /\ f[m + j] = h[j]
      OBVIOUS
    <2>1. x[m + j] = r[j] /\ y[m + j] = s[j] /\ r[j] \in Int /\ s[j] \in Int
      BY <1>1, <1>2, <1>4, SeqElements
    <2>2. h[j] = r[j] * s[j] /\ f[m + j] = x[m + j] * y[m + j]
      <3>1. m + j \in 1 .. m + k
        OBVIOUS
      <3> QED BY <1>4, <3>1
    <2> HIDE DEF f, h
    <2> QED BY <2>1, <2>2
  <1>7. /\ Dot(x, y) = SumFunctionOnSet(f, 1 .. m + k)
        /\ Dot(p, q) = SumFunctionOnSet(g, 1 .. m)
        /\ Dot(r, s) = SumFunctionOnSet(h, 1 .. k)
    BY <1>4 DEF Dot
  <1> HIDE DEF f, g, h
  <1>8. /\ SumFunctionOnSet(f, m + 1 .. m + k) = SumFunctionOnSet(h, 1 .. k)
        /\ SumFunctionOnSet(h, 1 .. k) \in Int
    <2>1. m \in Int /\ k \in Nat
      OBVIOUS
    <2> QED BY ONLY <1>6, <2>1, SumShift
  <1>9. /\ SumFunctionOnSet(g, 1 .. m) = SumFunctionOnSet(f, 1 .. m)
        /\ SumFunctionOnSet(g, 1 .. m) \in Int
    <2>1. IsFiniteSet(1 .. m)
      BY IntervalFinite
    <2> QED BY ONLY <1>5, <2>1, SumEqual, SumInt
  <1>10. SumFunctionOnSet(f, 1 .. m + k)
            = SumFunctionOnSet(f, 1 .. m) + SumFunctionOnSet(f, m + 1 .. m + k)
    <2>1. /\ IsFiniteSet(1 .. m) /\ IsFiniteSet(m + 1 .. m + k)
          /\ (1 .. m) \cap (m + 1 .. m + k) = {}
          /\ 1 .. m + k = (1 .. m) \cup (m + 1 .. m + k)
      <3>1. IsFiniteSet(1 .. m) /\ IsFiniteSet(m + 1 .. m + k)
        <4>1. m \in Int /\ 1 \in Int
          OBVIOUS
        <4> QED BY <4>1, IntervalFinite
      <3>2. /\ (1 .. m) \cap (m + 1 .. m + k) = {}
            /\ 1 .. m + k = (1 .. m) \cup (m + 1 .. m + k)
        OBVIOUS
      <3> QED BY <3>1, <3>2
    <2>2. \A j \in (1 .. m) \cup (m + 1 .. m + k) : f[j] \in Int
      <3> SUFFICES ASSUME NEW j \in 1 .. m + k PROVE f[j] \in Int
        BY <2>1
      <3>1. CASE j <= m
        <4>1. j \in 1 .. m
          BY <3>1
        <4> QED BY <1>5, <4>1, Zenon
      <3>2. CASE ~ (j <= m)
        <4>1. j - m \in 1 .. k /\ m + (j - m) = j
          BY <3>2
        <4> QED BY <1>6, <4>1
      <3> QED BY <3>1, <3>2
    <2>3. PICK A, B : A = 1 .. m /\ B = m + 1 .. m + k
      OBVIOUS
    <2>4. SumFunctionOnSet(f, A \cup B) = SumFunctionOnSet(f, A) + SumFunctionOnSet(f, B)
      BY <2>1, <2>2, <2>3, SumUnion
    <2> QED BY <2>1, <2>3, <2>4
  <1> QED BY <1>4, <1>7, <1>8, <1>9, <1>10

\* What sequences of the same lengths make together has the sum of their products.
SameLengths(ss, tt, z) == \A k \in 1 .. z : Len(ss[k]) = Len(tt[k])

Dots(d, ss, tt, z) == \A k \in 1 .. z : d[k] = Dot(ss[k], tt[k])

LEMMA FlattenDot ==
    ASSUME NEW z \in Nat, NEW ss \in [1 .. z -> Seq(Int)], NEW tt \in [1 .. z -> Seq(Int)],
           SameLengths(ss, tt, z), NEW d, Dots(d, ss, tt, z)
    PROVE  /\ Dot(FlattenSeq(ss), FlattenSeq(tt)) = SumFunctionOnSet(d, 1 .. z)
           /\ Len(FlattenSeq(ss)) = Len(FlattenSeq(tt))
           /\ \A k \in 1 .. z : d[k] \in Int
  <1>1. PICK p \in [0 .. z -> Seq(Int)] : Flattening(ss, z, p)
    BY FlatteningExists
  <1>2. PICK q \in [0 .. z -> Seq(Int)] : Flattening(tt, z, q)
    BY FlatteningExists
  <1>3. FlattenSeq(ss) = p[z] /\ FlattenSeq(tt) = q[z]
    BY <1>1, <1>2, FlattenSteps
  <1> DEFINE Upto(k) == /\ Len(p[k]) = Len(q[k])
                        /\ Dot(p[k], q[k]) = SumFunctionOnSet(d, 1 .. k)
                        /\ \A j \in 1 .. k : d[j] \in Int
             Good == {k \in Nat : k <= z => Upto(k)}
  <1>4. 0 \in Good
    <2>1. p[0] = <<>> /\ q[0] = <<>> /\ 1 .. 0 = {}
      BY <1>1, <1>2 DEF Flattening
    <2>2. SumFunctionOnSet(d, {}) = 0
      BY SumEmpty
    <2>3. Upto(0)
      BY <2>1, <2>2, DotEmpty, Zenon
    <2> HIDE DEF Upto
    <2> QED BY <2>3
  <1>5. ASSUME NEW k \in Nat, k \in Good
        PROVE  k + 1 \in Good
    <2> HIDE DEF Upto
    <2> SUFFICES ASSUME k + 1 <= z PROVE Upto(k + 1)
      OBVIOUS
    <2>0. Upto(k)
      BY <1>5
    <2> USE DEF Upto
    <2>1. k + 1 \in 1 .. z /\ (k + 1) - 1 = k /\ k \in 0 .. z
      OBVIOUS
    <2>2. /\ Joined(p[k + 1], p[k], ss[k + 1]) /\ Joined(q[k + 1], q[k], tt[k + 1])
      BY <1>1, <1>2, <2>1 DEF Flattening, Joined
    <2>3. PICK a, b, r, s, x, y : /\ a = p[k] /\ b = q[k] /\ r = ss[k + 1] /\ s = tt[k + 1]
                                  /\ x = p[k + 1] /\ y = q[k + 1]
      OBVIOUS
    <2>4. /\ a \in Seq(Int) /\ b \in Seq(Int) /\ r \in Seq(Int) /\ s \in Seq(Int)
      BY <2>1, <2>3
    <2>5. Len(a) = Len(b) /\ Len(r) = Len(s) /\ Joined(x, a, r) /\ Joined(y, b, s)
      BY <2>0, <2>1, <2>2, <2>3, Zenon DEF SameLengths
    <2>6. /\ Dot(x, y) = Dot(a, b) + Dot(r, s) /\ Len(x) = Len(y)
          /\ Dot(a, b) \in Int /\ Dot(r, s) \in Int
      BY ONLY <2>4, <2>5, DotConcat, Zenon
    <2>7. d[k + 1] = Dot(r, s)
      BY <2>1, <2>3, Zenon DEF Dots
    <2>8. \A j \in 1 .. k + 1 : d[j] \in Int
      <3> SUFFICES ASSUME NEW j \in 1 .. k + 1 PROVE d[j] \in Int
        OBVIOUS
      <3>1. j \in 1 .. k \/ j = k + 1
        OBVIOUS
      <3> QED BY <2>0, <2>6, <2>7, <3>1, Zenon
    <2>9. SumFunctionOnSet(d, 1 .. k + 1) = SumFunctionOnSet(d, 1 .. k) + d[k + 1]
      BY <2>8, SumNext
    <2>10. Dot(x, y) = SumFunctionOnSet(d, 1 .. k + 1)
      BY <2>0, <2>3, <2>6, <2>7, <2>9, Zenon
    <2> QED BY <2>3, <2>6, <2>8, <2>10, Zenon
  <1>6. Upto(z)
    <2>1. z \in Good
      <3> HIDE DEF Good
      <3> QED BY <1>4, <1>5, NatSetInduction
    <2> HIDE DEF Upto
    <2> QED BY <2>1
  <1> QED BY <1>3, <1>6, Zenon

Lengths(d, ss, z) == \A k \in 1 .. z : d[k] = Len(ss[k])

LEMMA FlattenLength ==
    ASSUME NEW T, NEW z \in Nat, NEW ss \in [1 .. z -> Seq(T)], NEW d, Lengths(d, ss, z)
    PROVE  Len(FlattenSeq(ss)) = SumFunctionOnSet(d, 1 .. z)
  <1>1. PICK p \in [0 .. z -> Seq(T)] : Flattening(ss, z, p)
    BY FlatteningExists
  <1>2. FlattenSeq(ss) = p[z]
    BY <1>1, FlattenSteps
  <1>3. \A j \in 1 .. z : d[j] = Len(ss[j]) /\ d[j] \in Int /\ ss[j] \in Seq(T)
    <2> SUFFICES ASSUME NEW j \in 1 .. z
                 PROVE  d[j] = Len(ss[j]) /\ d[j] \in Int /\ ss[j] \in Seq(T)
      OBVIOUS
    <2>1. ss[j] \in Seq(T)
      OBVIOUS
    <2>2. Len(ss[j]) \in Int
      BY <2>1
    <2> QED BY <2>1, <2>2 DEF Lengths
  <1> DEFINE Upto(k) == Len(p[k]) = SumFunctionOnSet(d, 1 .. k)
             Good == {k \in Nat : k <= z => Upto(k)}
  <1>4. 0 \in Good
    <2>1. p[0] = <<>> /\ 1 .. 0 = {} /\ Len(<<>>) = 0
      BY <1>1 DEF Flattening
    <2>2. SumFunctionOnSet(d, {}) = 0
      BY SumEmpty
    <2>3. Upto(0)
      BY <2>1, <2>2, Zenon
    <2> HIDE DEF Upto
    <2> QED BY <2>3
  <1>5. ASSUME NEW k \in Nat, k \in Good
        PROVE  k + 1 \in Good
    <2> HIDE DEF Upto
    <2> SUFFICES ASSUME k + 1 <= z PROVE Upto(k + 1)
      OBVIOUS
    <2>0. Upto(k)
      BY <1>5
    <2> USE DEF Upto
    <2>1. k + 1 \in 1 .. z /\ (k + 1) - 1 = k /\ k \in 0 .. z
      OBVIOUS
    <2>2. Joined(p[k + 1], p[k], ss[k + 1])
      BY <1>1, <2>1 DEF Flattening, Joined
    <2>3. PICK a, r, x : a = p[k] /\ r = ss[k + 1] /\ x = p[k + 1]
      OBVIOUS
    <2>4. a \in Seq(T) /\ r \in Seq(T) /\ Joined(x, a, r)
      BY <2>1, <2>2, <2>3
    <2>5. Len(x) = Len(a) + Len(r)
      BY ONLY <2>4, ConcatIs DEF Joined
    <2>6. d[k + 1] = Len(r)
      BY <1>3, <2>1, <2>3, Zenon
    <2>7. SumFunctionOnSet(d, 1 .. k + 1) = SumFunctionOnSet(d, 1 .. k) + d[k + 1]
      <3>1. \A j \in 1 .. k + 1 : d[j] \in Int
        BY <1>3
      <3> QED BY <3>1, SumNext
    <2> QED BY <2>0, <2>3, <2>5, <2>6, <2>7, Zenon
  <1>6. Upto(z)
    <2>1. z \in Good
      <3> HIDE DEF Good
      <3> QED BY <1>4, <1>5, NatSetInduction
    <2> HIDE DEF Upto
    <2> QED BY <2>1
  <1> QED BY <1>2, <1>6, Zenon

\* The first sequences make a beginning of what all of them make.
Begins(s, t) == Len(s) <= Len(t) /\ \A j \in 1 .. Len(s) : s[j] = t[j]

LEMMA BeginsIsPrefix ==
    ASSUME NEW T, NEW s \in Seq(T), NEW t \in Seq(T), Begins(s, t)
    PROVE  IsPrefix(s, t)
  <1>1. Len(s) \in Nat /\ Len(s) <= Len(t)
    BY DEF Begins
  <1>2. PICK a, b : a = SubSeq(s, 1, Len(s)) /\ b = SubSeq(t, 1, Len(s))
    OBVIOUS
  <1>3. a \in Seq(T) /\ b \in Seq(T) /\ Len(a) = Len(s) /\ Len(b) = Len(s)
    BY <1>1, <1>2
  <1>4. \A j \in 1 .. Len(s) : a[j] = s[j] /\ b[j] = t[j]
    BY <1>1, <1>2
  <1>5. a = b
    BY <1>3, <1>4, SeqEqual DEF Begins
  <1> QED BY <1>1, <1>2, <1>5 DEF IsPrefix

LEMMA FlattenBegins ==
    ASSUME NEW T, NEW z \in Nat, NEW tt \in [1 .. z -> Seq(T)],
           NEW m \in 0 .. z, NEW ss \in [1 .. m -> Seq(T)], \A k \in 1 .. m : ss[k] = tt[k]
    PROVE  Begins(FlattenSeq(ss), FlattenSeq(tt))
  <1>1. PICK p \in [0 .. z -> Seq(T)] : Flattening(tt, z, p)
    BY FlatteningExists
  <1> DEFINE o == [k \in 0 .. m |-> p[k]]
  <1>2. o \in [0 .. m -> Seq(T)] /\ (\A k \in 0 .. m : o[k] = p[k]) /\ m \in Nat
    OBVIOUS
  <1> HIDE DEF o
  <1>3. Flattening(ss, m, o)
    <2>1. o[0] = <<>>
      BY <1>1, <1>2 DEF Flattening
    <2>2. ASSUME NEW k \in 1 .. m PROVE o[k] = o[k - 1] \o ss[k]
      <3>1. k \in 1 .. z /\ k \in 0 .. m /\ k - 1 \in 0 .. m
        OBVIOUS
      <3>2. p[k] = p[k - 1] \o tt[k]
        BY <1>1, <3>1 DEF Flattening
      <3> QED BY <1>2, <3>1, <3>2, Zenon
    <2> QED BY <2>1, <2>2 DEF Flattening
  <1>4. FlattenSeq(ss) = o[m] /\ FlattenSeq(tt) = p[z] /\ o[m] = p[m]
    <2>1. FlattenSeq(ss) = o[m]
      BY <1>2, <1>3, FlattenSteps, Zenon
    <2>2. FlattenSeq(tt) = p[z]
      BY <1>1, FlattenSteps, Zenon
    <2>3. m \in 0 .. m
      BY <1>2
    <2> QED BY <1>2, <2>1, <2>2, <2>3, Zenon
  <1> DEFINE Good == {k \in Nat : m + k <= z => Begins(p[m], p[m + k])}
  <1>5. 0 \in Good
    <2>1. p[m] \in Seq(T) /\ m + 0 = m
      OBVIOUS
    <2>2. Begins(p[m], p[m])
      BY <2>1 DEF Begins
    <2> QED BY <2>1, <2>2
  <1>6. ASSUME NEW k \in Nat, k \in Good
        PROVE  k + 1 \in Good
    <2> SUFFICES ASSUME m + (k + 1) <= z PROVE Begins(p[m], p[m + (k + 1)])
      OBVIOUS
    <2>1. /\ m + (k + 1) \in 1 .. z /\ (m + (k + 1)) - 1 = m + k /\ m + k \in 0 .. z
          /\ m + k <= z
      OBVIOUS
    <2>2. Begins(p[m], p[m + k])
      BY <1>6, <2>1
    <2>3. PICK a, b, r, x : /\ a = p[m] /\ b = p[m + k] /\ r = tt[m + (k + 1)]
                            /\ x = p[m + (k + 1)]
      OBVIOUS
    <2>4. a \in Seq(T) /\ b \in Seq(T) /\ r \in Seq(T) /\ Begins(a, b)
      BY <2>1, <2>2, <2>3
    <2>5. x = b \o r
      BY <1>1, <2>1, <2>3 DEF Flattening
    <2>6. Len(x) = Len(b) + Len(r) /\ \A j \in 1 .. Len(b) : x[j] = b[j]
      BY ONLY <2>4, <2>5, ConcatIs
    <2>7. Len(a) \in Nat /\ Len(b) \in Nat /\ Len(r) \in Nat
      BY <2>4
    <2>8. Begins(a, x)
      BY ONLY <2>4, <2>6, <2>7 DEF Begins
    <2> QED BY <2>3, <2>8
  <1>7. Begins(p[m], p[z])
    <2>1. z - m \in Nat /\ m + (z - m) = z
      OBVIOUS
    <2>2. z - m \in Good
      <3> HIDE DEF Good
      <3> QED BY <1>5, <1>6, <2>1, NatSetInduction
    <2> QED BY <2>1, <2>2
  <1> QED BY <1>4, <1>7, Zenon

LEMMA DotSingle ==
    ASSUME NEW p \in Int
    PROVE  Dot(<< p >>, << 1 >>) = p
  <1> DEFINE f == [x \in 1 .. Len(<< p >>) |-> << p >>[x] * << 1 >>[x]]
  <1>1. Len(<< p >>) = 1 /\ f[1] = p /\ 1 .. 1 = 1 .. 0 + 1 /\ 1 .. 0 = {} /\ 0 + 1 = 1
    OBVIOUS
  <1>2. Dot(<< p >>, << 1 >>) = SumFunctionOnSet(f, 1 .. 0 + 1)
    BY <1>1 DEF Dot
  <1> HIDE DEF f
  <1>3. \A j \in 1 .. 0 + 1 : f[j] \in Int
    BY <1>1
  <1>4. SumFunctionOnSet(f, 1 .. 0 + 1) = SumFunctionOnSet(f, 1 .. 0) + f[0 + 1]
    BY <1>3, SumNext
  <1>5. SumFunctionOnSet(f, 1 .. 0) = 0
    BY <1>1, SumEmpty
  <1> QED BY <1>1, <1>2, <1>4, <1>5

\* A 1 in one place and 0 elsewhere pick the number in that place.
OneAt(q, v) == \A x \in 1 .. Len(q) : q[x] = IF x = v THEN 1 ELSE 0

LEMMA DotPicks ==
    ASSUME NEW p \in Seq(Int), NEW q, Len(p) = Len(q), NEW v \in 1 .. Len(p), OneAt(q, v)
    PROVE  Dot(p, q) = p[v]
  <1> DEFINE f == [x \in 1 .. Len(p) |-> p[x] * q[x]]
             D == 1 .. Len(p)
  <1>1. Dot(p, q) = SumFunctionOnSet(f, D)
    BY DEF Dot
  <1>2. \A x \in D : f[x] = IF x = v THEN p[v] ELSE 0
    <2> SUFFICES ASSUME NEW x \in D PROVE f[x] = IF x = v THEN p[v] ELSE 0
      OBVIOUS
    <2>1. p[x] \in Int /\ q[x] = IF x = v THEN 1 ELSE 0
      BY DEF OneAt
    <2>2. f[x] = p[x] * q[x]
      OBVIOUS
    <2> HIDE DEF f
    <2> QED BY <2>1, <2>2
  <1>3. p[v] \in Int /\ v \in D /\ Len(p) \in Nat
    OBVIOUS
  <1>4. IsFiniteSet(D) /\ IsFiniteSet(D \ {v})
    BY <1>3, IntervalFinite, FS_Subset
  <1> HIDE DEF f, D
  <1>5. \A x \in D : f[x] \in Int
    BY <1>2, <1>3
  <1>6. SumFunctionOnSet(f, D) = f[v] + SumFunctionOnSet(f, D \ {v})
    BY <1>3, <1>4, <1>5, SumElement
  <1>7. SumFunctionOnSet(f, D \ {v}) = 0
    <2>1. \A x \in D \ {v} : f[x] = 0
      BY <1>2
    <2> QED BY <1>4, <2>1, SumZero
  <1>8. f[v] = p[v]
    BY <1>2, <1>3
  <1> QED BY <1>1, <1>3, <1>6, <1>7, <1>8
=============================================================================
