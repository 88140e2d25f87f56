----------------------------- MODULE SumTheorems ------------------------------
(***************************************************************************)
(* What the running totals of the contracts need to know about sums over a    *)
(* finite set: SumFunctionOnSet of the community modules, for functions into  *)
(* the naturals.                                                             *)
(*                                                                          *)
(* Induction is over the subsets of a finite set, and what it shows is a set  *)
(* of subsets, not a predicate: the least-number principle, from which it     *)
(* follows, is then a fact of first-order logic.                              *)
(***************************************************************************)
EXTENDS Integers, FiniteSets, Functions, FiniteSetTheorems, WellFoundedInduction, TLAPS

(* The naturals under < are well founded.                                      *)
LEMMA LessWellFounded ==
    \E R : IsWellFoundedOn(R, Nat) /\ \A m, n \in Nat : <<m, n>> \in R <=> m < n
<1> DEFINE R == OpToRel(<, Nat)
<1>1. IsWellFoundedOn(R, Nat)
  BY NatLessThanWellFounded
<1>2. \A m, n \in Nat : <<m, n>> \in R <=> m < n
  BY DEF OpToRel
<1> QED BY <1>1, <1>2, Zenon

(* A nonempty set of naturals has a least element.                            *)
LEMMA LeastNat ==
    ASSUME NEW T \in SUBSET Nat, T # {}
    PROVE  \E m \in T : \A k \in T : m <= k
<1>1. PICK R : IsWellFoundedOn(R, Nat) /\ \A m, n \in Nat : <<m, n>> \in R <=> m < n
  BY LessWellFounded
<1>2. T \subseteq Nat /\ IsWellFoundedOn(R, Nat)
  BY <1>1
<1>3. PICK m \in T : \A k \in T : ~ (<<k, m>> \in R)
  BY <1>2, WFMin, Zenon
<1>4. ASSUME NEW k \in T PROVE m <= k
  <2>1. m \in Nat /\ k \in Nat
    BY <1>2
  <2>2. ~ (k < m)
    BY <2>1, <1>1, <1>3
  <2> QED BY <2>1, <2>2
<1> QED BY <1>4

(* A set G of subsets of S that contains a subset whenever it contains all     *)
(* smaller ones contains them all.                                            *)
LEMMA SubsetInduction ==
    ASSUME NEW S, IsFiniteSet(S), NEW G,
           \A s \in SUBSET S : (\A r \in SUBSET s : r # s => r \in G) => s \in G
    PROVE  \A s \in SUBSET S : s \in G
<1> SUFFICES ASSUME \E s \in SUBSET S : s \notin G PROVE FALSE
  OBVIOUS
<1> DEFINE T == {n \in Nat : \E s \in SUBSET S : s \notin G /\ Cardinality(s) = n}
<1>1. \A s \in SUBSET S : IsFiniteSet(s) /\ Cardinality(s) \in Nat
  BY FS_Subset, FS_CardinalityType
<1>2. T \in SUBSET Nat /\ T # {}
  BY <1>1
<1>3. PICK n \in T : \A k \in T : n <= k
  <2> HIDE DEF T
  <2> QED BY <1>2, LeastNat
<1>4. PICK s \in SUBSET S : s \notin G /\ Cardinality(s) = n
  OBVIOUS
<1>5. ASSUME NEW r \in SUBSET s, r # s PROVE r \in G
  <2>1. Cardinality(r) < Cardinality(s)
    <3>1. IsFiniteSet(s)
      BY <1>1
    <3>2. /\ Cardinality(r) <= Cardinality(s)
          /\ Cardinality(r) = Cardinality(s) => r = s
      BY <3>1, FS_Subset
    <3>3. Cardinality(r) \in Nat /\ Cardinality(s) \in Nat
      BY <1>1
    <3> QED BY <3>2, <3>3, <1>5
  <2>2. r \in SUBSET S /\ Cardinality(r) \in Nat /\ Cardinality(s) \in Nat
    BY <1>1
  <2>3. SUFFICES ASSUME r \notin G PROVE FALSE
    OBVIOUS
  <2>4. Cardinality(r) \in T
    BY <2>2, <2>3
  <2>5. n <= Cardinality(r)
    BY <1>3, <2>4
  <2> QED BY <1>4, <2>1, <2>2, <2>5
<1> QED BY <1>4, <1>5

-------------------------------------------------------------------------------
(* The recursion behind a sum.                                                *)

SomeOf(s) == CHOOSE x \in s : TRUE

SumStep(f, h, s) == IF s = {} THEN 0 ELSE f[SomeOf(s)] + h[s \ {SomeOf(s)}]

SumOf(f, S, h) == h = [s \in SUBSET S |-> SumStep(f, h, s)]

(* The element taken out of a nonempty set leaves a smaller one.               *)
LEMMA SomeOfFacts ==
    ASSUME NEW s, s # {}
    PROVE  SomeOf(s) \in s /\ s \ {SomeOf(s)} \in SUBSET s /\ s \ {SomeOf(s)} # s
BY DEF SomeOf

(* Two functions that satisfy the recursion agree where both are defined.      *)
LEMMA SumOfUnique ==
    ASSUME NEW f, NEW S, NEW R, NEW g, NEW h, IsFiniteSet(S), R \subseteq S,
           SumOf(f, R, g), SumOf(f, S, h)
    PROVE  \A s \in SUBSET R : g[s] = h[s]
<1> DEFINE G == {s \in SUBSET R : g[s] = h[s]}
<1>1. ASSUME NEW s \in SUBSET R, \A r \in SUBSET s : r # s => r \in G
      PROVE  s \in G
  <2>1. g[s] = SumStep(f, g, s) /\ h[s] = SumStep(f, h, s)
    <3>1. s \in SUBSET S
      OBVIOUS
    <3> QED BY <3>1 DEF SumOf
  <2>2. CASE s = {}
    BY <2>1, <2>2 DEF SumStep
  <2>3. CASE s # {}
    <3>1. s \ {SomeOf(s)} \in G
      BY <1>1, <2>3, SomeOfFacts
    <3>2. g[s \ {SomeOf(s)}] = h[s \ {SomeOf(s)}]
      BY <3>1
    <3> QED BY <2>1, <2>3, <3>2 DEF SumStep
  <2> QED BY <2>2, <2>3
<1>2. IsFiniteSet(R)
  BY FS_Subset
<1>3. \A s \in SUBSET R : s \in G
  <2> HIDE DEF G
  <2> QED BY <1>1, <1>2, SubsetInduction
<1> QED BY <1>3

(* The recursion has a solution on every finite set: on each subset it takes   *)
(* the value that a solution on that subset has.                              *)
LEMMA SumOfExists ==
    ASSUME NEW f, NEW S, IsFiniteSet(S)
    PROVE  \A s \in SUBSET S : \E h : SumOf(f, s, h)
<1> DEFINE G == {s \in SUBSET S : \E h : SumOf(f, s, h)}
           H(s) == CHOOSE h : SumOf(f, s, h)
<1>1. ASSUME NEW s \in SUBSET S, \A r \in SUBSET s : r # s => r \in G
      PROVE  s \in G
  <2> DEFINE Before(r) == r \ {SomeOf(r)}
             h == [r \in SUBSET s |-> IF r = {} THEN 0
                                      ELSE f[SomeOf(r)] + H(Before(r))[Before(r)]]
  <2>1. ASSUME NEW r \in SUBSET s, r # s PROVE SumOf(f, r, H(r))
    <3>1. \E g : SumOf(f, r, g)
      BY <1>1, <2>1
    <3> QED BY <3>1, Zenon
  <2>2. ASSUME NEW r \in SUBSET s, r # {}
        PROVE  h[Before(r)] = H(Before(r))[Before(r)]
    <3> DEFINE q == Before(r)
    <3>1. q \in SUBSET s /\ q # s
      BY <2>2, SomeOfFacts
    <3>2. SumOf(f, q, H(q))
      <4> HIDE DEF H, q
      <4> QED BY <2>1, <3>1
    <3>3. H(q)[q] = SumStep(f, H(q), q)
      <4> HIDE DEF H, q
      <4> QED BY <3>2 DEF SumOf
    <3>4. CASE q = {}
      <4> HIDE DEF H
      <4> QED BY <3>1, <3>3, <3>4 DEF SumStep
    <3>5. CASE q # {}
      <4> DEFINE p == Before(q)
      <4>1. p \in SUBSET q /\ p # q
        BY <3>5, SomeOfFacts
      <4>2. SumOf(f, p, H(p))
        <5>1. p \in SUBSET s /\ p # s
          BY <4>1, <3>1
        <5> HIDE DEF H, p
        <5> QED BY <2>1, <5>1
      <4>3. IsFiniteSet(q)
        BY <3>1, FS_Subset
      <4>4. H(p)[p] = H(q)[p]
        <5> HIDE DEF H, p, q
        <5> QED BY <3>2, <4>1, <4>2, <4>3, SumOfUnique
      <4>5. h[q] = f[SomeOf(q)] + H(p)[p]
        <5> HIDE DEF H
        <5> QED BY <3>1, <3>5
      <4>6. H(q)[q] = f[SomeOf(q)] + H(q)[p]
        <5> HIDE DEF H
        <5> QED BY <3>3, <3>5 DEF SumStep
      <4> HIDE DEF H, h, p, q
      <4> QED BY <4>4, <4>5, <4>6 DEF q
    <3> QED BY <3>4, <3>5
  <2>3. SumOf(f, s, h)
    <3>1. ASSUME NEW r \in SUBSET s PROVE h[r] = SumStep(f, h, r)
      <4>1. CASE r = {}
        BY <4>1 DEF SumStep
      <4>2. CASE r # {}
        <5>1. h[r] = f[SomeOf(r)] + H(Before(r))[Before(r)]
          <6> HIDE DEF H
          <6> QED BY <4>2
        <5> HIDE DEF h, H
        <5> QED BY <4>2, <5>1, <2>2 DEF SumStep
      <4> QED BY <4>1, <4>2
    <3>2. h = [r \in SUBSET s |-> h[r]]
      OBVIOUS
    <3> HIDE DEF h
    <3> QED BY <3>1, <3>2 DEF SumOf
  <2> HIDE DEF h
  <2> QED BY <2>3
<1>2. \A s \in SUBSET S : s \in G
  <2> HIDE DEF G
  <2> QED BY <1>1, SubsetInduction
<1> QED BY <1>2

(* SumFunctionOnSet satisfies the recursion.                                  *)
LEMMA SumUnfolds ==
    ASSUME NEW f, NEW S, IsFiniteSet(S)
    PROVE  /\ S = {} => SumFunctionOnSet(f, S) = 0
           /\ S # {} => SumFunctionOnSet(f, S) =
                           f[SomeOf(S)] + SumFunctionOnSet(f, S \ {SomeOf(S)})
<1> DEFINE H(s) == CHOOSE h : SumOf(f, s, h)
<1>1. ASSUME NEW s \in SUBSET S
      PROVE  SumOf(f, s, H(s)) /\ SumFunctionOnSet(f, s) = H(s)[s]
  <2>1. \E h : SumOf(f, s, h)
    BY SumOfExists
  <2>2. SumOf(f, s, H(s))
    BY <2>1, Zenon
  <2>3. SumFunctionOnSet(f, s) = H(s)[s]
    BY DEF SumFunctionOnSet, FoldFunctionOnSet, MapThenFoldSet, SumOf, SumStep, SomeOf
  <2> QED BY <2>2, <2>3
<1>2. H(S)[S] = SumStep(f, H(S), S)
  <2>1. SumOf(f, S, H(S))
    BY <1>1
  <2> HIDE DEF H
  <2> QED BY <2>1 DEF SumOf
<1>3. CASE S = {}
  <2> HIDE DEF H
  <2> QED BY <1>1, <1>2, <1>3 DEF SumStep
<1>4. CASE S # {}
  <2> DEFINE R == S \ {SomeOf(S)}
  <2>1. R \in SUBSET S
    OBVIOUS
  <2> HIDE DEF H, R
  <2>2. H(R)[R] = H(S)[R]
    BY <1>1, <2>1, SumOfUnique
  <2>3. H(S)[S] = f[SomeOf(S)] + H(S)[R]
    BY <1>2, <1>4 DEF SumStep, R
  <2>4. SumFunctionOnSet(f, S) = H(S)[S] /\ SumFunctionOnSet(f, R) = H(R)[R]
    BY <1>1, <2>1
  <2> QED BY <1>4, <2>2, <2>3, <2>4 DEF R
<1> QED BY <1>3, <1>4

-------------------------------------------------------------------------------
(* Sums of naturals.                                                          *)

NatsOn(f, S) == \A x \in S : f[x] \in Nat

(* A sum of naturals is a natural.                                            *)
LEMMA SumType ==
    ASSUME NEW f, NEW S, IsFiniteSet(S), NatsOn(f, S)
    PROVE  SumFunctionOnSet(f, S) \in Nat
<1> DEFINE G == {s \in SUBSET S : SumFunctionOnSet(f, s) \in Nat}
<1>1. ASSUME NEW s \in SUBSET S, \A r \in SUBSET s : r # s => r \in G
      PROVE  s \in G
  <2>1. IsFiniteSet(s)
    BY FS_Subset
  <2>2. CASE s = {}
    <3>1. SumFunctionOnSet(f, s) = 0
      BY <2>1, <2>2, SumUnfolds
    <3> QED BY <3>1
  <2>3. CASE s # {}
    <3>1. SomeOf(s) \in s /\ s \ {SomeOf(s)} \in G
      BY <1>1, <2>3, SomeOfFacts
    <3>2. f[SomeOf(s)] \in Nat
      BY <3>1 DEF NatsOn
    <3>3. SumFunctionOnSet(f, s) = f[SomeOf(s)] + SumFunctionOnSet(f, s \ {SomeOf(s)})
      BY <2>1, <2>3, SumUnfolds
    <3> QED BY <3>1, <3>2, <3>3
  <2> QED BY <2>2, <2>3
<1>2. \A s \in SUBSET S : s \in G
  <2> HIDE DEF G
  <2> QED BY <1>1, SubsetInduction
<1> QED BY <1>2

(* Any summand can be taken out: the order of summation does not matter.       *)
LEMMA SumRemove ==
    ASSUME NEW f, NEW S, IsFiniteSet(S), NatsOn(f, S), NEW x \in S
    PROVE  SumFunctionOnSet(f, S) = f[x] + SumFunctionOnSet(f, S \ {x})
<1> DEFINE Sum(s) == SumFunctionOnSet(f, s)
           G == {s \in SUBSET S : \A y \in s : Sum(s) = f[y] + Sum(s \ {y})}
<1>1. ASSUME NEW s \in SUBSET S, \A r \in SUBSET s : r # s => r \in G,
             NEW y \in s
      PROVE  Sum(s) = f[y] + Sum(s \ {y})
  <2> DEFINE c == SomeOf(s)
  <2>1. c \in s
    BY SomeOfFacts
  <2>2. ASSUME NEW r \in SUBSET s
        PROVE  IsFiniteSet(r) /\ Sum(r) \in Nat
    <3>1. IsFiniteSet(r) /\ NatsOn(f, r)
      BY FS_Subset DEF NatsOn
    <3> QED BY <3>1, SumType
  <2>3. Sum(s) = f[c] + Sum(s \ {c})
    <3>1. IsFiniteSet(s)
      BY <2>2
    <3> QED BY <3>1, SumUnfolds
  <2> HIDE DEF c
  <2>4. CASE y = c
    BY <2>3, <2>4
  <2>5. CASE y # c
    <3>1. s \ {c} \in G /\ s \ {y} \in G
      BY <1>1, <2>1
    <3> HIDE DEF Sum
    <3>2. Sum(s \ {c}) = f[y] + Sum((s \ {c}) \ {y})
      BY <2>5, <3>1
    <3>3. Sum(s \ {y}) = f[c] + Sum((s \ {y}) \ {c})
      BY <2>1, <2>5, <3>1
    <3> DEFINE rest == Sum((s \ {y}) \ {c})
    <3>4. (s \ {c}) \ {y} = (s \ {y}) \ {c}
      OBVIOUS
    <3>5. f[c] \in Nat /\ f[y] \in Nat /\ rest \in Nat
      BY <2>1, <2>2 DEF NatsOn
    <3>6. Sum(s) = f[c] + (f[y] + rest) /\ Sum(s \ {y}) = f[c] + rest
      BY <2>3, <3>2, <3>3, <3>4
    <3>7. f[c] + (f[y] + rest) = f[y] + (f[c] + rest)
      <4> HIDE DEF rest
      <4> QED BY <3>5
    <3> HIDE DEF rest
    <3> QED BY <3>6, <3>7, Zenon
  <2> QED BY <2>4, <2>5
<1>2. \A s \in SUBSET S : s \in G
  <2>1. ASSUME NEW s \in SUBSET S, \A r \in SUBSET s : r # s => r \in G
        PROVE  s \in G
    <3>1. \A y \in s : Sum(s) = f[y] + Sum(s \ {y})
      BY <1>1, <2>1
    <3> QED BY <3>1
  <2> HIDE DEF G
  <2> QED BY <2>1, SubsetInduction
<1>3. S \in G
  <2> HIDE DEF G
  <2> QED BY <1>2
<1> QED BY <1>3

(* Equal functions have equal sums.                                           *)
LEMMA SumEqual ==
    ASSUME NEW f, NEW g, NEW S, IsFiniteSet(S), NatsOn(f, S), \A y \in S : g[y] = f[y]
    PROVE  SumFunctionOnSet(g, S) = SumFunctionOnSet(f, S)
<1> DEFINE G == {s \in SUBSET S : SumFunctionOnSet(g, s) = SumFunctionOnSet(f, s)}
<1>1. ASSUME NEW s \in SUBSET S, \A r \in SUBSET s : r # s => r \in G
      PROVE  s \in G
  <2>1. IsFiniteSet(s)
    BY FS_Subset
  <2>2. CASE s = {}
    <3>1. SumFunctionOnSet(f, s) = 0 /\ SumFunctionOnSet(g, s) = 0
      BY <2>1, <2>2, SumUnfolds
    <3> QED BY <3>1
  <2>3. CASE s # {}
    <3>1. SomeOf(s) \in s /\ s \ {SomeOf(s)} \in G
      BY <1>1, <2>3, SomeOfFacts
    <3>2. f[SomeOf(s)] = g[SomeOf(s)]
      BY <3>1
    <3>3. /\ SumFunctionOnSet(f, s) = f[SomeOf(s)] + SumFunctionOnSet(f, s \ {SomeOf(s)})
          /\ SumFunctionOnSet(g, s) = g[SomeOf(s)] + SumFunctionOnSet(g, s \ {SomeOf(s)})
      BY <2>1, <2>3, SumUnfolds
    <3> QED BY <3>1, <3>2, <3>3
  <2> QED BY <2>2, <2>3
<1>2. \A s \in SUBSET S : s \in G
  <2> HIDE DEF G
  <2> QED BY <1>1, SubsetInduction
<1> QED BY <1>2

(* Changing one summand changes the sum by as much.                            *)
LEMMA SumChange ==
    ASSUME NEW f, NEW g, NEW S, IsFiniteSet(S), NatsOn(f, S), NEW x \in S, g[x] \in Nat,
           \A y \in S \ {x} : g[y] = f[y]
    PROVE  /\ f[x] <= SumFunctionOnSet(f, S)
           /\ SumFunctionOnSet(g, S) = SumFunctionOnSet(f, S) - f[x] + g[x]
           /\ SumFunctionOnSet(f, S) \in Nat /\ SumFunctionOnSet(g, S) \in Nat
<1> DEFINE R == S \ {x}
           a == SumFunctionOnSet(f, R)
           b == SumFunctionOnSet(f, S)
           c == SumFunctionOnSet(g, S)
<1>1. NatsOn(g, S) /\ NatsOn(f, R) /\ IsFiniteSet(R)
  BY FS_Subset DEF NatsOn
<1>2. SumFunctionOnSet(g, R) = a
  <2> HIDE DEF R
  <2> QED BY <1>1, SumEqual DEF R
<1>3. b = f[x] + a /\ c = g[x] + a
  BY <1>1, <1>2, SumRemove
<1>4. a \in Nat /\ b \in Nat /\ c \in Nat /\ f[x] \in Nat
  BY <1>1, SumType DEF NatsOn
<1> HIDE DEF a, b, c
<1>5. f[x] <= b /\ c = b - f[x] + g[x]
  BY <1>3, <1>4
<1> QED BY <1>4, <1>5 DEF b, c

(* No summand exceeds the sum.                                                *)
LEMMA SumMember ==
    ASSUME NEW f, NEW S, IsFiniteSet(S), NatsOn(f, S), NEW x \in S
    PROVE  f[x] <= SumFunctionOnSet(f, S)
<1>1. f[x] \in Nat
  BY DEF NatsOn
<1> QED BY <1>1, SumChange

(* A sum of nothing but zeros is zero.                                         *)
LEMMA SumZero ==
    ASSUME NEW f, NEW S, IsFiniteSet(S), \A x \in S : f[x] = 0
    PROVE  SumFunctionOnSet(f, S) = 0
<1>1. NatsOn(f, S)
  BY DEF NatsOn
<1> DEFINE G == {s \in SUBSET S : SumFunctionOnSet(f, s) = 0}
<1>2. ASSUME NEW s \in SUBSET S, \A r \in SUBSET s : r # s => r \in G
      PROVE  s \in G
  <2>1. IsFiniteSet(s)
    BY FS_Subset
  <2>2. CASE s = {}
    <3>1. SumFunctionOnSet(f, s) = 0
      BY <2>1, <2>2, SumUnfolds
    <3> QED BY <3>1
  <2>3. CASE s # {}
    <3>1. SomeOf(s) \in s /\ s \ {SomeOf(s)} \in G
      BY <1>2, <2>3, SomeOfFacts
    <3>2. SumFunctionOnSet(f, s) = f[SomeOf(s)] + SumFunctionOnSet(f, s \ {SomeOf(s)})
      BY <2>1, <2>3, SumUnfolds
    <3> QED BY <3>1, <3>2
  <2> QED BY <2>2, <2>3
<1>3. \A s \in SUBSET S : s \in G
  <2> HIDE DEF G
  <2> QED BY <1>2, SubsetInduction
<1> QED BY <1>3

-------------------------------------------------------------------------------
(* The same for the sum of a whole function.                                   *)

(* A function is summed over its domain.                                      *)
LEMMA TotalIsSum ==
    ASSUME NEW S, NEW f \in [S -> Nat]
    PROVE  SumFunction(f) = SumFunctionOnSet(f, S) /\ NatsOn(f, S)
BY DEF SumFunction, NatsOn

(* The sum of a function into the naturals is a natural.                       *)
LEMMA TotalType ==
    ASSUME NEW S, IsFiniteSet(S), NEW f \in [S -> Nat]
    PROVE  SumFunction(f) \in Nat
BY TotalIsSum, SumType

(* A value that changes moves the total by as much.                            *)
LEMMA TotalChange ==
    ASSUME NEW S, IsFiniteSet(S), NEW f \in [S -> Nat], NEW g \in [S -> Nat], NEW x \in S,
           \A y \in S : y # x => g[y] = f[y]
    PROVE  /\ f[x] <= SumFunction(f)
           /\ SumFunction(g) = SumFunction(f) - f[x] + g[x]
           /\ SumFunction(f) \in Nat /\ SumFunction(g) \in Nat
<1>1. g[x] \in Nat /\ \A y \in S \ {x} : g[y] = f[y]
  OBVIOUS
<1> QED BY <1>1, TotalIsSum, SumChange

(* No value exceeds the total.                                                *)
LEMMA TotalMember ==
    ASSUME NEW S, IsFiniteSet(S), NEW f \in [S -> Nat], NEW x \in S
    PROVE  f[x] <= SumFunction(f) /\ SumFunction(f) \in Nat
BY TotalIsSum, SumMember, SumType

(* Zeros add up to zero.                                                      *)
LEMMA TotalZero ==
    ASSUME NEW S, IsFiniteSet(S), NEW f \in [S -> Nat], \A x \in S : f[x] = 0
    PROVE  SumFunction(f) = 0
BY TotalIsSum, SumZero

(* Equal values add up to that value times how many there are.                 *)
LEMMA TotalConstant ==
    ASSUME NEW S, IsFiniteSet(S), NEW n \in Nat
    PROVE  /\ SumFunction([x \in S |-> n]) = n * Cardinality(S)
           /\ n * Cardinality(S) \in Nat
<1> DEFINE f == [x \in S |-> n]
           G == {s \in SUBSET S : SumFunctionOnSet(f, s) = n * Cardinality(s)}
<1>1. \A s \in SUBSET S : IsFiniteSet(s) /\ Cardinality(s) \in Nat
  BY FS_Subset, FS_CardinalityType
<1>2. ASSUME NEW s \in SUBSET S, \A r \in SUBSET s : r # s => r \in G
      PROVE  s \in G
  <2>1. CASE s = {}
    <3>1. SumFunctionOnSet(f, s) = 0 /\ Cardinality(s) = 0
      BY <1>1, <2>1, SumUnfolds, FS_EmptySet
    <3>2. n * 0 = 0
      OBVIOUS
    <3> HIDE DEF f
    <3> QED BY <3>1, <3>2
  <2>2. CASE s # {}
    <3> DEFINE x == SomeOf(s)
               r == s \ {x}
    <3>1. x \in s /\ r \in G
      BY <1>2, <2>2, SomeOfFacts
    <3>2. f[x] = n
      BY <3>1
    <3>3. SumFunctionOnSet(f, s) = n + SumFunctionOnSet(f, r)
      BY <1>1, <2>2, <3>2, SumUnfolds
    <3>4. Cardinality(r) = Cardinality(s) - 1 /\ Cardinality(r) \in Nat
      BY <1>1, <3>1, FS_RemoveElement
    <3>5. SumFunctionOnSet(f, r) = n * Cardinality(r)
      BY <3>1
    <3> HIDE DEF f, x, r
    <3> DEFINE c == Cardinality(s)
    <3>6. c \in Nat
      BY <1>1
    <3>7. Cardinality(r) = c - 1
      BY <3>4
    <3> HIDE DEF c
    <3>8. n + n * (c - 1) = n * c
      BY <3>6
    <3>9. SumFunctionOnSet(f, s) = n * c
      BY <3>3, <3>5, <3>7, <3>8
    <3> QED BY <3>9 DEF c
  <2> QED BY <2>1, <2>2
<1>3. \A s \in SUBSET S : s \in G
  <2> HIDE DEF G
  <2> QED BY <1>2, SubsetInduction
<1>4. SumFunctionOnSet(f, S) = n * Cardinality(S) /\ Cardinality(S) \in Nat
  BY <1>1, <1>3
<1>5. SumFunction(f) = SumFunctionOnSet(f, S)
  BY TotalIsSum
<1>6. n * Cardinality(S) \in Nat
  BY <1>4
<1> QED BY <1>4, <1>5, <1>6

(* h is f and k times g.                                                      *)
Scaled(h, f, k, g, S) == \A x \in S : h[x] = f[x] + k * g[x]

(* A multiple of one function added to another adds that multiple of its total. *)
LEMMA TotalScaled ==
    ASSUME NEW S, IsFiniteSet(S), NEW f \in [S -> Nat], NEW g \in [S -> Nat],
           NEW h \in [S -> Nat], NEW k \in Nat, Scaled(h, f, k, g, S)
    PROVE  /\ SumFunction(h) = SumFunction(f) + k * SumFunction(g)
           /\ SumFunction(f) \in Nat /\ SumFunction(g) \in Nat /\ SumFunction(h) \in Nat
<1> DEFINE F(s) == SumFunctionOnSet(f, s)
           G(s) == SumFunctionOnSet(g, s)
           H(s) == SumFunctionOnSet(h, s)
           T == {s \in SUBSET S : H(s) = F(s) + k * G(s)}
<1>1. ASSUME NEW s \in SUBSET S
      PROVE  IsFiniteSet(s) /\ F(s) \in Nat /\ G(s) \in Nat /\ H(s) \in Nat
  <2>1. IsFiniteSet(s) /\ NatsOn(f, s) /\ NatsOn(g, s) /\ NatsOn(h, s)
    BY FS_Subset DEF NatsOn
  <2> QED BY <2>1, SumType
<1>2. ASSUME NEW s \in SUBSET S, \A r \in SUBSET s : r # s => r \in T
      PROVE  s \in T
  <2>1. CASE s = {}
    <3>1. F(s) = 0 /\ G(s) = 0 /\ H(s) = 0
      BY <1>1, <2>1, SumUnfolds
    <3>2. k * 0 = 0
      OBVIOUS
    <3> HIDE DEF F, G, H
    <3> QED BY <3>1, <3>2
  <2>2. CASE s # {}
    <3> DEFINE x == SomeOf(s)
               r == s \ {x}
    <3>1. x \in s /\ r \in T /\ r \in SUBSET S
      BY <1>2, <2>2, SomeOfFacts
    <3>2. F(s) = f[x] + F(r) /\ G(s) = g[x] + G(r) /\ H(s) = h[x] + H(r)
      BY <1>1, <2>2, SumUnfolds
    <3>3. F(r) \in Nat /\ G(r) \in Nat /\ H(r) = F(r) + k * G(r)
      BY <1>1, <3>1
    <3>4. f[x] \in Nat /\ g[x] \in Nat /\ h[x] = f[x] + k * g[x]
      BY <3>1 DEF Scaled
    <3> HIDE DEF F, G, H, x, r
    <3>5. k * (g[x] + G(r)) = k * g[x] + k * G(r)
      BY <3>3, <3>4
    <3>6. k * g[x] \in Nat /\ k * G(r) \in Nat
      BY <3>3, <3>4
    <3>7. H(s) = F(s) + k * G(s)
      BY <3>2, <3>3, <3>4, <3>5, <3>6
    <3> QED BY <3>7
  <2> QED BY <2>1, <2>2
<1>3. \A s \in SUBSET S : s \in T
  <2> HIDE DEF T
  <2> QED BY <1>2, SubsetInduction
<1>4. H(S) = F(S) + k * G(S) /\ F(S) \in Nat /\ G(S) \in Nat /\ H(S) \in Nat
  BY <1>1, <1>3
<1> QED BY <1>4, TotalIsSum
===============================================================================
