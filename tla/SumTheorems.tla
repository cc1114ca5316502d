---------------------------- MODULE SumTheorems ----------------------------
(***************************************************************************)
(* Sums of a function over its finite domain, as module Functions defines  *)
(* them (SumFunction): that there is one, that it is a natural number, and *)
(* what a change of one value does to it.                                  *)
(*                                                                         *)
(* Induction is over the members of a set, instead of the numbers or the   *)
(* subsets with some property, since a fact with an operator as parameter  *)
(* could not be used.                                                      *)
(***************************************************************************)
EXTENDS Functions, Integers, FiniteSetTheorems, WellFoundedInduction, TLAPS

\* Induction on the naturals, for a set of them.
LEMMA AllNaturals ==
  ASSUME NEW T, 0 \in T, \A n \in Nat : n \in T => n + 1 \in T
  PROVE  \A n \in Nat : n \in T
<1> DEFINE S == {n \in Nat : n \notin T}
<1>1. SUFFICES ASSUME S # {} PROVE FALSE
  OBVIOUS
<1>2. S \subseteq Nat
  OBVIOUS
<1> HIDE DEF S
<1>3. PICK n \in S : \A m \in S : ~ (<<m, n>> \in OpToRel(<, Nat))
  BY <1>1, <1>2, NatLessThanWellFounded, WFMin
<1>4. n \in Nat /\ n \notin T /\ n # 0
  BY <1>3 DEF S
<1>5. n - 1 \in Nat /\ n - 1 < n /\ (n - 1) + 1 = n
  BY <1>4
<1>6. n - 1 \in S
  BY <1>4, <1>5 DEF S
<1>7. <<n - 1, n>> \in OpToRel(<, Nat)
  BY <1>4, <1>5, Zenon DEF OpToRel
<1> QED
  BY <1>3, <1>6, <1>7

\* The next element to add, as the library chooses it.
Pick(s) == CHOOSE x \in s : TRUE

\* One step of the library's sum of f, when g is the sum of smaller sets.
Step(f, g, s) == IF s = {} THEN 0 ELSE f[Pick(s)] + g[s \ {Pick(s)}]

\* What is left of a finite set without the next element is smaller.
LEMMA Smaller ==
  ASSUME NEW S, IsFiniteSet(S), NEW s \in SUBSET S, s # {}
  PROVE  /\ Pick(s) \in s /\ s \ {Pick(s)} \in SUBSET S
         /\ IsFiniteSet(s) /\ Cardinality(s) \in Nat \ {0}
         /\ Cardinality(s \ {Pick(s)}) = Cardinality(s) - 1
<1>1. Pick(s) \in s
  BY DEF Pick
<1>2. IsFiniteSet(s)
  BY FS_Subset
<1>3. Cardinality(s) \in Nat /\ Cardinality(s) # 0
  BY <1>2, FS_CardinalityType, FS_EmptySet
<1>4. Cardinality(s \ {Pick(s)}) = Cardinality(s) - 1
  BY <1>1, <1>2, FS_RemoveElement
<1> QED
  BY <1>1, <1>2, <1>3, <1>4

\* Induction on the subsets of a finite set, for a set of them.
LEMMA AllSubsets ==
  ASSUME NEW S, IsFiniteSet(S), NEW T, {} \in T,
         \A s \in SUBSET S : s # {} /\ s \ {Pick(s)} \in T => s \in T
  PROVE  \A s \in SUBSET S : s \in T
<1> DEFINE N == {n \in Nat : \A s \in SUBSET S : Cardinality(s) = n => s \in T}
<1>1. \A s \in SUBSET S : IsFiniteSet(s) /\ Cardinality(s) \in Nat
  BY FS_Subset, FS_CardinalityType
<1>2. 0 \in N
  <2>1. \A s \in SUBSET S : Cardinality(s) = 0 => s = {}
    BY <1>1, FS_EmptySet
  <2> QED
    BY <2>1
<1>3. ASSUME NEW n \in Nat, n \in N PROVE n + 1 \in N
  <2> SUFFICES ASSUME NEW s \in SUBSET S, Cardinality(s) = n + 1 PROVE s \in T
    OBVIOUS
  <2>1. s # {}
    BY FS_EmptySet
  <2>2. s \ {Pick(s)} \in SUBSET S /\ Cardinality(s \ {Pick(s)}) = (n + 1) - 1
    BY <2>1, Smaller
  <2>3. s \ {Pick(s)} \in T
    BY <1>3, <2>2
  <2> QED
    BY <2>1, <2>3
<1> HIDE DEF N
<1>4. \A n \in Nat : n \in N
  BY <1>2, <1>3, AllNaturals
<1> QED
  BY <1>1, <1>4 DEF N

\* There is a function that does all these steps.
LEMMA SumExists ==
  ASSUME NEW S, IsFiniteSet(S), NEW f \in [S -> Int]
  PROVE  \E g \in [SUBSET S -> Int] : \A s \in SUBSET S : g[s] = Step(f, g, s)
<1> DEFINE Upto(n, g) == \A s \in SUBSET S : Cardinality(s) <= n => g[s] = Step(f, g, s)
           T == {n \in Nat : \E g \in [SUBSET S -> Int] : Upto(n, g)}
<1>1. \A s \in SUBSET S : IsFiniteSet(s) /\ Cardinality(s) \in Nat
  BY FS_Subset, FS_CardinalityType
<1>2. 0 \in T
  <2> DEFINE g == [s \in SUBSET S |-> 0]
  <2>1. g \in [SUBSET S -> Int]
    OBVIOUS
  <2>2. \A s \in SUBSET S : Cardinality(s) <= 0 => s = {}
    BY <1>1, FS_EmptySet
  <2>3. Upto(0, g)
    BY <2>2 DEF Step
  <2> QED
    BY <2>1, <2>3
<1>3. ASSUME NEW n \in Nat, n \in T PROVE n + 1 \in T
  <2>1. PICK g \in [SUBSET S -> Int] : Upto(n, g)
    BY <1>3
  <2> DEFINE h == [s \in SUBSET S |->
                     IF Cardinality(s) <= n THEN g[s] ELSE Step(f, g, s)]
  <2>2. ASSUME NEW s \in SUBSET S, s # {}
        PROVE  /\ Pick(s) \in S /\ s \ {Pick(s)} \in SUBSET S
               /\ Cardinality(s) <= n + 1 => Cardinality(s \ {Pick(s)}) <= n
    <3>1. /\ Pick(s) \in s /\ s \ {Pick(s)} \in SUBSET S
          /\ Cardinality(s) \in Nat \ {0}
          /\ Cardinality(s \ {Pick(s)}) = Cardinality(s) - 1
      BY <2>2, Smaller
    <3> QED
      BY <3>1
  <2>3. ASSUME NEW s \in SUBSET S PROVE Step(f, g, s) \in Int
    <3>1. CASE s = {}
      BY <3>1 DEF Step
    <3>2. CASE s # {}
      <4>1. f[Pick(s)] \in Int /\ g[s \ {Pick(s)}] \in Int
        BY <2>2, <3>2
      <4> QED
        BY <3>2, <4>1 DEF Step
    <3> QED
      BY <3>1, <3>2
  <2>4. h \in [SUBSET S -> Int]
    BY <2>3
  <2>5. ASSUME NEW s \in SUBSET S, Cardinality(s) <= n + 1
        PROVE  h[s] = Step(f, h, s)
    <3>1. Step(f, h, s) = Step(f, g, s)
      BY <2>2, <2>5 DEF Step
    <3>2. h[s] = Step(f, g, s)
      BY <2>1
    <3> QED
      BY <3>1, <3>2
  <2> HIDE DEF h
  <2>6. Upto(n + 1, h)
    BY <2>5
  <2> QED
    BY <2>4, <2>6
<1> HIDE DEF T
<1>4. Cardinality(S) \in T
  BY <1>1, <1>2, <1>3, AllNaturals
<1>5. PICK g \in [SUBSET S -> Int] : Upto(Cardinality(S), g)
  BY <1>4 DEF T
<1>6. \A s \in SUBSET S : Cardinality(s) <= Cardinality(S)
  BY FS_Subset
<1>7. \A s \in SUBSET S : g[s] = Step(f, g, s)
  BY <1>5, <1>6
<1> QED
  BY <1>7

\* SumFunction() does them.
LEMMA SumIs ==
  ASSUME NEW S, IsFiniteSet(S), NEW f \in [S -> Int]
  PROVE  \E g \in [SUBSET S -> Int] :
           /\ \A s \in SUBSET S : g[s] = Step(f, g, s)
           /\ SumFunction(f) = g[S]
<1> DEFINE Good(g) == g = [s \in SUBSET S |-> Step(f, g, s)]
           iter == CHOOSE g : Good(g)
<1>1. \E g : Good(g)
  <2>1. PICK g \in [SUBSET S -> Int] : \A s \in SUBSET S : g[s] = Step(f, g, s)
    BY SumExists, Zenon
  <2> QED
    BY <2>1
<1>2. Good(iter)
  BY <1>1
<1>3. SumFunction(f) = iter[S]
  BY DEF SumFunction, SumFunctionOnSet, FoldFunctionOnSet, MapThenFoldSet, Step, Pick
<1> HIDE DEF iter
<1>4. \A s \in SUBSET S : iter[s] = Step(f, iter, s)
  BY <1>2
<1>5. \A s \in SUBSET S : iter[s] \in Int
  <2> DEFINE T == {s \in SUBSET S : iter[s] \in Int}
  <2>1. {} \in T
    <3>1. {} \in SUBSET S
      OBVIOUS
    <3>2. iter[{}] = 0
      BY <1>4, <3>1, Zenon DEF Step
    <3> QED
      BY <3>1, <3>2
  <2>2. ASSUME NEW s \in SUBSET S, s # {}, s \ {Pick(s)} \in T PROVE s \in T
    <3>1. Pick(s) \in S
      BY <2>2, Smaller
    <3>2. f[Pick(s)] \in Int /\ iter[s \ {Pick(s)}] \in Int
      BY <2>2, <3>1
    <3>3. iter[s] = f[Pick(s)] + iter[s \ {Pick(s)}]
      BY <1>4, <2>2, Zenon DEF Step
    <3> QED
      BY <3>2, <3>3
  <2> HIDE DEF T
  <2>3. \A s \in SUBSET S : s \in T
    BY <2>1, <2>2, AllSubsets
  <2> QED
    BY <2>3 DEF T
<1>6. iter \in [SUBSET S -> Int]
  <2>1. iter = [s \in SUBSET S |-> iter[s]]
    BY <1>2
  <2> QED
    BY <1>5, <2>1
<1> QED
  BY <1>3, <1>4, <1>6

\* A sum of naturals is one, and of zeros zero.
LEMMA SumNat ==
  ASSUME NEW S, IsFiniteSet(S), NEW f \in [S -> Nat]
  PROVE  SumFunction(f) \in Nat /\ ((\A x \in S : f[x] = 0) => SumFunction(f) = 0)
<1>0. f \in [S -> Int]
  OBVIOUS
<1>1. PICK g \in [SUBSET S -> Int] :
        (\A s \in SUBSET S : g[s] = Step(f, g, s)) /\ SumFunction(f) = g[S]
  BY <1>0, SumIs
<1> DEFINE T == {s \in SUBSET S : g[s] \in Nat /\ ((\A x \in S : f[x] = 0) => g[s] = 0)}
<1>2. {} \in T
  <2>1. {} \in SUBSET S
    OBVIOUS
  <2>2. g[{}] = 0
    BY <1>1, <2>1, Zenon DEF Step
  <2> QED
    BY <2>1, <2>2
<1>3. ASSUME NEW s \in SUBSET S, s # {}, s \ {Pick(s)} \in T PROVE s \in T
  <2>0. Pick(s) \in S
    BY <1>3, Smaller
  <2>1. Pick(s) \in S /\ f[Pick(s)] \in Nat
    BY <2>0
  <2>2. g[s] = f[Pick(s)] + g[s \ {Pick(s)}]
    BY <1>1, <1>3 DEF Step
  <2> QED
    BY <1>3, <2>1, <2>2
<1> HIDE DEF T
<1>4. \A s \in SUBSET S : s \in T
  BY <1>2, <1>3, AllSubsets
<1> QED
  BY <1>1, <1>4 DEF T

\* One summand makes the difference between two sums.
LEMMA SumChanges ==
  ASSUME NEW S, IsFiniteSet(S), NEW f \in [S -> Int], NEW h \in [S -> Int],
         NEW x \in S, \A y \in S \ {x} : h[y] = f[y]
  PROVE  SumFunction(h) = SumFunction(f) + (h[x] - f[x])
<1> DEFINE d == h[x] - f[x]
<1>0. d \in Int /\ h[x] = f[x] + d
  OBVIOUS
<1> HIDE DEF d
<1>1. PICK g \in [SUBSET S -> Int] :
        (\A s \in SUBSET S : g[s] = Step(f, g, s)) /\ SumFunction(f) = g[S]
  BY SumIs
<1>2. PICK k \in [SUBSET S -> Int] :
        (\A s \in SUBSET S : k[s] = Step(h, k, s)) /\ SumFunction(h) = k[S]
  BY SumIs
<1> DEFINE T == {s \in SUBSET S : k[s] = g[s] + (IF x \in s THEN d ELSE 0)}
<1>3. {} \in T
  <2>1. {} \in SUBSET S
    OBVIOUS
  <2>2. g[{}] = 0 /\ k[{}] = 0
    BY <1>1, <1>2, <2>1, Zenon DEF Step
  <2> QED
    BY <2>1, <2>2
<1>4. ASSUME NEW s \in SUBSET S, s # {}, s \ {Pick(s)} \in T PROVE s \in T
  <2> DEFINE p == Pick(s)
  <2>0. p \in s /\ s \ {p} \in SUBSET S
    BY <1>4, Smaller
  <2>1. p \in s /\ p \in S /\ f[p] \in Int /\ h[p] \in Int
        /\ s \ {p} \in SUBSET S /\ g[s \ {p}] \in Int /\ k[s \ {p}] \in Int
    <3> HIDE DEF p
    <3> QED
      BY <2>0
  <2>2. g[s] = f[p] + g[s \ {p}] /\ k[s] = h[p] + k[s \ {p}]
    BY <1>1, <1>2, <1>4 DEF Step
  <2>3. k[s \ {p}] = g[s \ {p}] + (IF x \in s \ {p} THEN d ELSE 0)
    BY <1>4
  <2> HIDE DEF p
  <2>4. CASE p = x
    BY <1>0, <2>1, <2>2, <2>3, <2>4
  <2>5. CASE p # x
    <3>1. h[p] = f[p] /\ (x \in s \ {p} <=> x \in s)
      BY <2>1, <2>5
    <3> QED
      BY <1>0, <2>1, <2>2, <2>3, <3>1
  <2> QED
    BY <2>4, <2>5
<1> HIDE DEF T
<1>5. S \in T
  BY <1>3, <1>4, AllSubsets
<1> QED
  BY <1>1, <1>2, <1>5 DEF T, d
=============================================================================
