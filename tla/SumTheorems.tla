----------------------------- MODULE SumTheorems -----------------------------
(***************************************************************************)
(* Sums over the elements of a finite set: SumFunction of the community    *)
(* modules, for integer functions.  The conservation laws of the ledgers   *)
(* need that changing one summand changes the sum by as much, whatever the *)
(* order in which the fold takes the elements out.                         *)
(***************************************************************************)
EXTENDS Integers, FiniteSets, Functions, FiniteSetTheorems,
        WellFoundedInduction, TLAPS

(* The element the fold takes out of a set next. *)
Pick(s) == CHOOSE x \in s : TRUE

(* One unfolding of the sum over s, by a function it that sums smaller sets. *)
Unfolding(f, it, s) == IF s = {} THEN 0 ELSE f[Pick(s)] + it[s \ {Pick(s)}]

(* The sums over all the subsets of the domain, as the fold computes them.  *)
IsSums(f, it) == it = [s \in SUBSET DOMAIN f |-> Unfolding(f, it, s)]

LEMMA PickIn ==
  ASSUME NEW s, s # {}
  PROVE  Pick(s) \in s
BY DEF Pick

(* A set of natural numbers has a least element. *)
LEMMA LeastNumber ==
  ASSUME NEW T \in SUBSET Nat, T # {}
  PROVE  \E n \in T : \A k \in T : n <= k
<1> DEFINE R == OpToRel(<, Nat)
<1>1. IsWellFoundedOn(R, Nat)
  BY NatLessThanWellFounded
<1>2. PICK n \in T : \A k \in T : <<k, n>> \notin R
  <2> HIDE DEF R
  <2> QED
    BY <1>1, WFMin
<1>3. ASSUME NEW k \in T PROVE n <= k
  <2>1. ~(k < n)
    BY <1>2 DEF OpToRel
  <2> QED
    BY <2>1
<1> QED
  BY <1>3

(* Among subsets of a finite set, one of the bad ones has no smaller bad    *)
(* one: induction over the subsets, as a least counterexample.              *)
LEMMA SmallestSubset ==
  ASSUME NEW D, IsFiniteSet(D), NEW Bad \in SUBSET SUBSET D, Bad # {}
  PROVE  \E s \in Bad : \A x \in s : s \ {x} \notin Bad
<1> DEFINE T == {Cardinality(s) : s \in Bad}
<1>1. ASSUME NEW s \in SUBSET D
      PROVE  IsFiniteSet(s) /\ Cardinality(s) \in Nat
  BY FS_Subset, FS_CardinalityType
<1>2. T \in SUBSET Nat /\ T # {}
  BY <1>1
<1>3. PICK n \in T : \A k \in T : n <= k
  <2> HIDE DEF T
  <2> QED
    BY <1>2, LeastNumber
<1>4. PICK s \in Bad : Cardinality(s) = n
  BY <1>3
<1>5. ASSUME NEW x \in s, s \ {x} \in Bad PROVE FALSE
  <2>1. Cardinality(s \ {x}) = Cardinality(s) - 1
    BY <1>1, FS_RemoveElement
  <2>2. n <= Cardinality(s \ {x})
    BY <1>3, <1>5
  <2> QED
    BY <1>1, <1>4, <2>1, <2>2
<1> QED
  BY <1>5
-----------------------------------------------------------------------------
(* The recursion has a solution on the subsets of at most n elements, for   *)
(* every n.                                                                 *)
Solves(f, n, it) ==
  /\ it \in [SUBSET DOMAIN f -> Int]
  /\ \A s \in SUBSET DOMAIN f :
       Cardinality(s) <= n => it[s] = Unfolding(f, it, s)

LEMMA SolutionStep ==
  ASSUME NEW D, IsFiniteSet(D), NEW f \in [D -> Int], NEW n \in Nat,
         NEW it, Solves(f, n, it)
  PROVE  \E next : Solves(f, n + 1, next)
<1> DEFINE next == [s \in SUBSET D |->
                      IF Cardinality(s) <= n THEN it[s] ELSE Unfolding(f, it, s)]
<1>1. DOMAIN f = D /\ it \in [SUBSET D -> Int]
  BY DEF Solves
<1>2. ASSUME NEW s \in SUBSET D
      PROVE  Unfolding(f, it, s) \in Int
  BY <1>1, PickIn DEF Unfolding
<1>3. next \in [SUBSET D -> Int]
  BY <1>1, <1>2
<1>4. ASSUME NEW s \in SUBSET D
      PROVE  next[s] = Unfolding(f, it, s) \/ ~(Cardinality(s) <= n + 1)
  BY DEF Solves
<1>5. ASSUME NEW s \in SUBSET D, Cardinality(s) <= n + 1
      PROVE  next[s] = Unfolding(f, next, s)
  <2>1. next[s] = Unfolding(f, it, s)
    BY <1>1, <1>5 DEF Solves
  <2>2. CASE s = {}
    BY <2>1, <2>2 DEF Unfolding
  <2>3. CASE s # {}
    <3>1. /\ Pick(s) \in s
          /\ IsFiniteSet(s) /\ Cardinality(s) \in Nat
      BY <2>3, PickIn, FS_Subset, FS_CardinalityType
    <3>2. Cardinality(s \ {Pick(s)}) = Cardinality(s) - 1
      BY <3>1, FS_RemoveElement
    <3>3. Cardinality(s \ {Pick(s)}) <= n
      BY <1>5, <3>1, <3>2
    <3>4. next[s \ {Pick(s)}] = it[s \ {Pick(s)}]
      BY <3>3
    <3> HIDE DEF next
    <3> QED
      BY <2>1, <2>3, <3>4 DEF Unfolding
  <2> QED
    BY <2>2, <2>3
<1>6. Solves(f, n + 1, next)
  <2> HIDE DEF next
  <2> QED
    BY <1>1, <1>3, <1>5 DEF Solves
<1> QED
  BY <1>6

LEMMA SolutionExists ==
  ASSUME NEW D, IsFiniteSet(D), NEW f \in [D -> Int], NEW n \in Nat
  PROVE  \E it : Solves(f, n, it)
<1> DEFINE Bad == {m \in Nat : ~\E it : Solves(f, m, it)}
<1> SUFFICES ASSUME n \in Bad PROVE FALSE
  OBVIOUS
<1>1. PICK m \in Bad : \A k \in Bad : m <= k
  <2>1. Bad \in SUBSET Nat /\ Bad # {}
    OBVIOUS
  <2> HIDE DEF Bad
  <2> QED
    BY <2>1, LeastNumber
<1>2. CASE m = 0
  <2> DEFINE it == [s \in SUBSET D |-> 0]
  <2>1. ASSUME NEW s \in SUBSET D, Cardinality(s) <= 0
        PROVE  s = {}
    BY <2>1, FS_Subset, FS_CardinalityType, FS_EmptySet
  <2>2. Solves(f, 0, it)
    BY <2>1 DEF Solves, Unfolding
  <2> QED
    BY <1>2, <2>2
<1>3. CASE m # 0
  <2>1. m - 1 \in Nat /\ m - 1 \notin Bad /\ (m - 1) + 1 = m
    BY <1>1, <1>3
  <2>2. PICK it : Solves(f, m - 1, it)
    BY <2>1
  <2>3. \E next : Solves(f, (m - 1) + 1, next)
    BY <2>1, <2>2, SolutionStep
  <2> QED
    BY <2>1, <2>3
<1> QED
  BY <1>2, <1>3

(* The fold is well defined: its value is that of a function which unfolds  *)
(* every subset.                                                            *)
Unfolds(f, it) ==
  /\ it \in [SUBSET DOMAIN f -> Int]
  /\ it[{}] = 0
  /\ \A s \in SUBSET DOMAIN f :
       s # {} => it[s] = f[Pick(s)] + it[s \ {Pick(s)}]

LEMMA SumUnfolds ==
  ASSUME NEW D, IsFiniteSet(D), NEW f \in [D -> Int]
  PROVE  \E it : Unfolds(f, it) /\ SumFunction(f) = it[D]
<1>1. DOMAIN f = D
  OBVIOUS
<1>2. SumFunction(f) = (CHOOSE it : IsSums(f, it))[DOMAIN f]
  BY DEF SumFunction, SumFunctionOnSet, FoldFunctionOnSet, MapThenFoldSet,
         IsSums, Unfolding, Pick
<1>3. Cardinality(D) \in Nat
  BY FS_CardinalityType
<1>4. PICK it : Solves(f, Cardinality(D), it)
  BY <1>3, SolutionExists
<1>5. IsSums(f, it)
  <2>1. ASSUME NEW s \in SUBSET D PROVE it[s] = Unfolding(f, it, s)
    BY <1>1, <1>4, FS_Subset DEF Solves
  <2> QED
    BY <1>1, <1>4, <2>1 DEF IsSums, Solves
<1> DEFINE sums == CHOOSE j : IsSums(f, j)
<1>6. IsSums(f, sums)
  BY <1>5
<1> HIDE DEF sums
<1>7. sums = [s \in SUBSET D |-> Unfolding(f, sums, s)]
  BY <1>1, <1>6 DEF IsSums
<1>8. \A s \in SUBSET D : sums[s] = Unfolding(f, sums, s)
  BY <1>7
<1>9. sums \in [SUBSET D -> Int]
  <2> DEFINE Bad == {s \in SUBSET D : sums[s] \notin Int}
  <2>1. Bad = {}
    <3> SUFFICES ASSUME Bad # {} PROVE FALSE
      OBVIOUS
    <3>1. PICK s \in Bad : \A x \in s : s \ {x} \notin Bad
      <4>1. Bad \in SUBSET SUBSET D
        OBVIOUS
      <4> HIDE DEF Bad
      <4> QED
        BY <4>1, SmallestSubset
    <3>2. sums[s] = Unfolding(f, sums, s) /\ sums[s] \notin Int /\ s \in SUBSET D
      BY <1>8
    <3>3. s # {}
      BY <3>2 DEF Unfolding
    <3>4. Pick(s) \in s /\ Pick(s) \in D
      BY <3>2, <3>3, PickIn
    <3>5. sums[s \ {Pick(s)}] \in Int
      BY <3>1, <3>2, <3>4
    <3>6. f[Pick(s)] + sums[s \ {Pick(s)}] \in Int
      BY <3>4, <3>5
    <3> QED
      BY <3>2, <3>3, <3>6 DEF Unfolding
  <2> QED
    BY <1>7, <2>1
<1>10. SumFunction(f) = sums[D]
  BY <1>1, <1>2 DEF sums
<1>11. Unfolds(f, sums)
  BY <1>1, <1>8, <1>9 DEF Unfolds, Unfolding
<1> QED
  BY <1>10, <1>11
-----------------------------------------------------------------------------
(* The sum of integers is an integer, of natural numbers a natural number.  *)
THEOREM SumType ==
  ASSUME NEW D, IsFiniteSet(D), NEW f \in [D -> Int]
  PROVE  /\ SumFunction(f) \in Int
         /\ (\A x \in D : f[x] >= 0) => SumFunction(f) >= 0
         /\ (\A x \in D : f[x] = 0) => SumFunction(f) = 0
<1>1. PICK it : Unfolds(f, it) /\ SumFunction(f) = it[D]
  BY SumUnfolds
<1>2. ASSUME \A x \in D : f[x] >= 0 PROVE it[D] >= 0
  <2> DEFINE Bad == {s \in SUBSET D : ~(it[s] >= 0)}
  <2> SUFFICES ASSUME Bad # {} PROVE FALSE
    OBVIOUS
  <2>1. PICK s \in Bad : \A x \in s : s \ {x} \notin Bad
    <3>1. Bad \in SUBSET SUBSET D
      OBVIOUS
    <3> HIDE DEF Bad
    <3> QED
      BY <3>1, SmallestSubset
  <2>2. s # {}
    <3>1. it[{}] = 0 /\ {} \notin Bad
      BY <1>1 DEF Unfolds
    <3> QED
      BY <2>1, <3>1
  <2>3. Pick(s) \in s /\ Pick(s) \in D
    BY <2>1, <2>2, PickIn
  <2>4. it[s \ {Pick(s)}] >= 0 /\ f[Pick(s)] >= 0
    BY <1>2, <2>1, <2>3
  <2>5. it[s] = f[Pick(s)] + it[s \ {Pick(s)}]
    BY <1>1, <2>1, <2>2 DEF Unfolds
  <2>6. it[s \ {Pick(s)}] \in Int /\ f[Pick(s)] \in Int /\ ~(it[s] >= 0)
    BY <1>1, <2>1, <2>3 DEF Unfolds
  <2> QED
    BY <2>4, <2>5, <2>6
<1>3. ASSUME \A x \in D : f[x] = 0 PROVE it[D] = 0
  <2> DEFINE Bad == {s \in SUBSET D : it[s] # 0}
  <2> SUFFICES ASSUME Bad # {} PROVE FALSE
    OBVIOUS
  <2>1. PICK s \in Bad : \A x \in s : s \ {x} \notin Bad
    <3>1. Bad \in SUBSET SUBSET D
      OBVIOUS
    <3> HIDE DEF Bad
    <3> QED
      BY <3>1, SmallestSubset
  <2>2. s # {}
    <3>1. it[{}] = 0 /\ {} \notin Bad
      BY <1>1 DEF Unfolds
    <3> QED
      BY <2>1, <3>1
  <2>3. Pick(s) \in s /\ Pick(s) \in D
    BY <2>1, <2>2, PickIn
  <2>4. it[s \ {Pick(s)}] = 0 /\ f[Pick(s)] = 0
    BY <1>3, <2>1, <2>3
  <2>5. it[s] = f[Pick(s)] + it[s \ {Pick(s)}]
    BY <1>1, <2>1, <2>2 DEF Unfolds
  <2> QED
    BY <2>1, <2>4, <2>5
<1>4. it[D] \in Int
  BY <1>1 DEF Unfolds
<1> QED
  BY <1>1, <1>2, <1>3, <1>4

(* Changing one summand changes the sum by as much. *)
THEOREM SumStep ==
  ASSUME NEW D, IsFiniteSet(D), NEW f \in [D -> Int], NEW g \in [D -> Int],
         NEW r \in D, \A x \in D \ {r} : g[x] = f[x]
  PROVE  SumFunction(g) = SumFunction(f) - f[r] + g[r]
<1>1. PICK F : Unfolds(f, F) /\ SumFunction(f) = F[D]
  BY SumUnfolds
<1>2. PICK G : Unfolds(g, G) /\ SumFunction(g) = G[D]
  BY SumUnfolds
<1> DEFINE Change(s) == IF r \in s THEN g[r] - f[r] ELSE 0
           Bad == {s \in SUBSET D : G[s] # F[s] + Change(s)}
<1>3. Bad = {}
  <2> SUFFICES ASSUME Bad # {} PROVE FALSE
    OBVIOUS
  <2>1. PICK s \in Bad : \A x \in s : s \ {x} \notin Bad
    <3>1. Bad \in SUBSET SUBSET D
      OBVIOUS
    <3> HIDE DEF Bad
    <3> QED
      BY <3>1, SmallestSubset
  <2>2. s # {}
    <3>1. F[{}] = 0 /\ G[{}] = 0
      BY <1>1, <1>2 DEF Unfolds
    <3>2. {} \notin Bad
      BY <3>1
    <3> QED
      BY <2>1, <3>2
  <2> DEFINE x == Pick(s)
             t == s \ {Pick(s)}
  <2>3. x \in s /\ x \in D /\ t \in SUBSET D
    BY <2>1, <2>2, PickIn
  <2>4. G[t] = F[t] + Change(t)
    BY <2>1, <2>3
  <2>5. F[s] = f[x] + F[t] /\ G[s] = g[x] + G[t]
    BY <1>1, <1>2, <2>1, <2>2 DEF Unfolds
  <2>6. /\ F[t] \in Int /\ G[t] \in Int /\ f[x] \in Int /\ g[x] \in Int
        /\ f[r] \in Int /\ g[r] \in Int
    BY <1>1, <1>2, <2>3 DEF Unfolds
  <2>7. G[s] # F[s] + Change(s)
    BY <2>1
  <2> HIDE DEF Bad
  <2>8. CASE x = r
    <3>1. r \notin t /\ r \in s
      BY <2>3, <2>8
    <3>2. Change(t) = 0 /\ Change(s) = g[r] - f[r]
      BY <3>1
    <3> HIDE DEF Change, x, t
    <3> QED
      BY <2>4, <2>5, <2>6, <2>7, <2>8, <3>2
  <2>9. CASE x # r
    <3>1. r \in t <=> r \in s
      BY <2>9
    <3>2. Change(t) = Change(s) /\ Change(s) \in Int
      BY <3>1, <2>6
    <3>3. g[x] = f[x]
      BY <2>3, <2>9
    <3> HIDE DEF Change, x, t
    <3> QED
      BY <2>4, <2>5, <2>6, <2>7, <3>2, <3>3
  <2> QED
    BY <2>8, <2>9
<1>4. G[D] = F[D] + (g[r] - f[r])
  BY <1>3
<1>5. F[D] \in Int /\ G[D] \in Int /\ f[r] \in Int /\ g[r] \in Int
  BY <1>1, <1>2 DEF Unfolds
<1> QED
  BY <1>1, <1>2, <1>4, <1>5

(* A sum of summands that are nowhere negative is at least each of them. *)
THEOREM SumAtLeast ==
  ASSUME NEW D, IsFiniteSet(D), NEW f \in [D -> Int],
         \A x \in D : f[x] >= 0, NEW r \in D
  PROVE  SumFunction(f) >= f[r]
<1> DEFINE g == [f EXCEPT ![r] = 0]
<1>1. /\ g \in [D -> Int] /\ g[r] = 0
      /\ \A x \in D \ {r} : g[x] = f[x]
      /\ \A x \in D : g[x] >= 0
  OBVIOUS
<1> HIDE DEF g
<1>2. SumFunction(g) = SumFunction(f) - f[r] + g[r]
  BY <1>1, SumStep
<1>3. SumFunction(g) >= 0
  BY <1>1, SumType
<1>4. SumFunction(f) \in Int /\ f[r] \in Int
  BY SumType
<1> QED
  BY <1>1, <1>2, <1>3, <1>4

(* Larger summands make a larger sum. *)
THEOREM SumMonotone ==
  ASSUME NEW D, IsFiniteSet(D), NEW f \in [D -> Int], NEW g \in [D -> Int],
         \A x \in D : f[x] <= g[x]
  PROVE  SumFunction(f) <= SumFunction(g)
<1>1. PICK F : Unfolds(f, F) /\ SumFunction(f) = F[D]
  BY SumUnfolds
<1>2. PICK G : Unfolds(g, G) /\ SumFunction(g) = G[D]
  BY SumUnfolds
<1> DEFINE Bad == {s \in SUBSET D : ~(F[s] <= G[s])}
<1>3. Bad = {}
  <2> SUFFICES ASSUME Bad # {} PROVE FALSE
    OBVIOUS
  <2>1. PICK s \in Bad : \A x \in s : s \ {x} \notin Bad
    <3>1. Bad \in SUBSET SUBSET D
      OBVIOUS
    <3> HIDE DEF Bad
    <3> QED
      BY <3>1, SmallestSubset
  <2>2. s # {}
    <3>1. F[{}] = 0 /\ G[{}] = 0
      BY <1>1, <1>2 DEF Unfolds
    <3>2. {} \notin Bad
      BY <3>1
    <3> QED
      BY <2>1, <3>2
  <2> DEFINE x == Pick(s)
             t == s \ {Pick(s)}
  <2>3. x \in s /\ x \in D /\ t \in SUBSET D
    BY <2>1, <2>2, PickIn
  <2>4. F[t] <= G[t] /\ f[x] <= g[x]
    BY <2>1, <2>3
  <2>5. F[s] = f[x] + F[t] /\ G[s] = g[x] + G[t]
    BY <1>1, <1>2, <2>1, <2>2 DEF Unfolds
  <2>6. F[t] \in Int /\ G[t] \in Int /\ f[x] \in Int /\ g[x] \in Int
    BY <1>1, <1>2, <2>3 DEF Unfolds
  <2>7. ~(F[s] <= G[s])
    BY <2>1
  <2> HIDE DEF Bad, x, t
  <2> QED
    BY <2>4, <2>5, <2>6, <2>7
<1> QED
  BY <1>1, <1>2, <1>3
=============================================================================
