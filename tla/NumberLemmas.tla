---------------------------- MODULE NumberLemmas ----------------------------
(***************************************************************************)
(* Facts about numbers that the proofs of several components need: least   *)
(* and largest numbers, ranks, division with remainder, sums over finite   *)
(* sets, recursions and folds.                                             *)
(***************************************************************************)
EXTENDS Integers, FiniteSets, FiniteSetsExt, FiniteSetTheorems, WellFoundedInduction, TLAPS

(* A nonempty set of natural numbers has a least one.  The proofs use it   *)
(* for induction: the least number for which a claim fails.                *)
LEMMA LeastNumber ==
    ASSUME NEW S \in SUBSET Nat, S # {}
    PROVE  \E m \in S : \A k \in S : m <= k
<1>1. IsWellFoundedOn(OpToRel(<, Nat), Nat)
  BY NatLessThanWellFounded
<1>2. PICK m \in S : \A k \in S : ~(<<k, m>> \in OpToRel(<, Nat))
  BY <1>1, WFMin
<1>3. \A k \in S : ~(k < m)
  BY <1>2 DEF OpToRel
<1> QED
  BY <1>3

(* The largest of finitely many natural numbers, which Max chooses.        *)
LEMMA MaxIsLargest ==
    ASSUME NEW S \in SUBSET Nat, IsFiniteSet(S), S # {}
    PROVE  Max(S) \in S /\ \A k \in S : k <= Max(S)
<1>1. PICK n \in Nat : ExistsBijection(1 .. n, S)
  BY FS_NatBijection
<1>2. PICK f \in [1 .. n -> S] : \A x \in S : \E i \in 1 .. n : f[i] = x
  BY <1>1 DEF ExistsBijection, Bijection, Surjection
<1>3. n # 0
  <2>1. PICK x \in S : TRUE
    OBVIOUS
  <2>2. PICK i \in 1 .. n : f[i] = x
    BY <1>2
  <2> QED
    BY <2>2
<1>4. \A i \in 1 .. n : f[i] \in Nat
  BY <1>2
<1> DEFINE Led(k) == \E m \in 1 .. k : \A i \in 1 .. k : f[i] <= f[m]
           Bad    == {k \in 1 .. n : ~Led(k)}
<1>5. \A k \in 1 .. n : k # 1 /\ Led(k - 1) => Led(k)
  <2>1. SUFFICES ASSUME NEW k \in 1 .. n, k # 1, Led(k - 1) PROVE Led(k)
    OBVIOUS
  <2>2. PICK m \in 1 .. (k - 1) : \A i \in 1 .. (k - 1) : f[i] <= f[m]
    BY <2>1
  <2>3. \A i \in 1 .. k : i = k \/ i \in 1 .. (k - 1)
    OBVIOUS
  <2>4. m \in 1 .. k /\ k \in 1 .. k /\ m \in 1 .. n
    BY <2>2
  <2>5. \A i \in 1 .. k : i \in 1 .. n
    OBVIOUS
  <2>6. CASE f[k] <= f[m]
    <3>1. \A i \in 1 .. k : f[i] <= f[m]
      BY <2>2, <2>3, <2>6
    <3> QED
      BY <3>1, <2>4
  <2>7. CASE f[m] <= f[k]
    <3>1. \A i \in 1 .. k : f[i] <= f[k]
      BY <2>2, <2>3, <2>4, <2>5, <2>7, <1>4
    <3> QED
      BY <3>1, <2>4
  <2> QED
    BY <2>6, <2>7, <1>4, <2>4
<1>6. Led(1)
  <2>1. \A i \in 1 .. 1 : f[i] <= f[1]
    BY <1>3, <1>4
  <2> QED
    BY <2>1
<1>7. Bad = {}
  <2> HIDE DEF Led
  <2>1. SUFFICES ASSUME Bad # {} PROVE FALSE
    OBVIOUS
  <2>2. Bad \in SUBSET Nat
    OBVIOUS
  <2>3. PICK k \in Bad : \A j \in Bad : k <= j
    <3> HIDE DEF Bad
    <3> QED
      BY <2>1, <2>2, LeastNumber
  <2>4. k \in 1 .. n /\ ~Led(k) /\ k # 1
    BY <2>3, <1>6
  <2>5. k - 1 \in 1 .. n /\ ~(k <= k - 1)
    BY <2>4
  <2>6. Led(k - 1)
    BY <2>3, <2>5
  <2> QED
    BY <2>4, <2>6, <1>5
<1>8. PICK m \in 1 .. n : \A i \in 1 .. n : f[i] <= f[m]
  <2>1. n \in 1 .. n
    BY <1>3
  <2> QED
    BY <1>7, <2>1
<1>9. f[m] \in S /\ \A x \in S : f[m] >= x
  BY <1>8, <1>2, <1>4
<1> QED
  BY <1>9 DEF Max

(* The same for a set that is bounded.                                     *)
LEMMA MaxOfBounded ==
    ASSUME NEW S \in SUBSET Nat, S # {}, NEW n \in Nat, \A k \in S : k <= n
    PROVE  /\ Max(S) \in S /\ Max(S) \in 0 .. n
           /\ \A k \in S : k <= Max(S)
<1>1. IsFiniteSet(S)
  BY FS_BoundedSetOfNaturals
<1>2. Max(S) \in S /\ \A k \in S : k <= Max(S)
  BY <1>1, MaxIsLargest
<1>3. Max(S) \in Nat /\ Max(S) <= n
  BY <1>2
<1> QED
  BY <1>2, <1>3

(* The least number, which Min chooses.                                    *)
LEMMA MinIsLeast ==
    ASSUME NEW S \in SUBSET Nat, S # {}
    PROVE  Min(S) \in S /\ \A k \in S : Min(S) <= k
<1>1. PICK m \in S : \A k \in S : m <= k
  BY LeastNumber
<1> QED
  BY <1>1 DEF Min

(* The smaller one of two numbers.                                         *)
LEMMA MinOfTwo ==
    ASSUME NEW a \in Int, NEW b \in Int
    PROVE  Min({a, b}) = IF a <= b THEN a ELSE b
<1>1. \E x \in {a, b} : \A y \in {a, b} : x <= y
  OBVIOUS
<1>2. Min({a, b}) \in {a, b} /\ \A y \in {a, b} : Min({a, b}) <= y
  BY <1>1 DEF Min
<1> QED
  BY <1>2

(* How many members of a set are below a number.                           *)
RankIn(S, x) == Cardinality({y \in S : y < x})

(* A larger member has a larger rank.                                      *)
LEMMA RankGrows ==
    ASSUME NEW S \in SUBSET Nat, IsFiniteSet(S), NEW x \in S, NEW z \in S, x < z
    PROVE  RankIn(S, x) \in Nat /\ RankIn(S, z) \in Nat /\ RankIn(S, x) < RankIn(S, z)
<1> DEFINE A == {y \in S : y < x}
           B == {y \in S : y < z}
<1>1. A \in SUBSET S /\ B \in SUBSET S
  OBVIOUS
<1>2. A \cup {x} \in SUBSET B /\ x \notin A
  <2>1. x \in Nat /\ z \in Nat /\ \A y \in S : y \in Nat
    OBVIOUS
  <2>2. \A y \in S : y < x => y < z
    BY <2>1
  <2>3. ~(x < x)
    BY <2>1
  <2> QED
    BY <2>2, <2>3
<1> HIDE DEF A, B
<1>3. IsFiniteSet(A) /\ IsFiniteSet(B)
  BY <1>1, FS_Subset
<1>4. Cardinality(A) \in Nat /\ Cardinality(B) \in Nat
  BY <1>3, FS_CardinalityType
<1>5. IsFiniteSet(A \cup {x}) /\ Cardinality(A \cup {x}) = Cardinality(A) + 1
  BY <1>2, <1>3, FS_AddElement
<1>6. Cardinality(A \cup {x}) <= Cardinality(B)
  BY <1>2, <1>3, FS_Subset
<1>7. Cardinality(A) < Cardinality(B)
  BY <1>4, <1>5, <1>6
<1> QED
  BY <1>4, <1>7 DEF RankIn, A, B

(* Every rank below the size of the set is taken.                          *)
LEMMA EveryRank ==
    ASSUME NEW S \in SUBSET Nat, IsFiniteSet(S), NEW i \in Nat, i < Cardinality(S)
    PROVE  \E x \in S : RankIn(S, x) = i
<1> DEFINE Has(k) == \E x \in S : RankIn(S, x) = k
           Bad    == {k \in 0 .. i : ~Has(k)}
<1>0. Cardinality(S) \in Nat /\ S # {}
  BY FS_CardinalityType, FS_EmptySet
<1>1. Has(0)
  <2>1. PICK x \in S : \A y \in S : x <= y
    BY <1>0, LeastNumber
  <2>2. {y \in S : y < x} = {}
    <3>1. \A y \in S : y \in Nat /\ x \in Nat /\ x <= y
      BY <2>1
    <3>2. \A y \in S : ~(y < x)
      BY <3>1
    <3> QED
      BY <3>2
  <2>3. RankIn(S, x) = 0
    BY <2>2, FS_EmptySet DEF RankIn
  <2> QED
    BY <2>3
<1>2. \A k \in 1 .. i : Has(k - 1) => Has(k)
  <2>1. SUFFICES ASSUME NEW k \in 1 .. i, Has(k - 1) PROVE Has(k)
    OBVIOUS
  <2>2. PICK x \in S : RankIn(S, x) = k - 1
    BY <2>1
  <2> DEFINE A == {y \in S : y < x}
             U == {y \in S : x < y}
  <2>3. A \in SUBSET S /\ x \notin A
    OBVIOUS
  <2>4. IsFiniteSet(A) /\ Cardinality(A) = k - 1
    <3>1. IsFiniteSet(A)
      BY <2>3, FS_Subset
    <3> QED
      BY <2>2, <3>1 DEF RankIn
  <2>5. IsFiniteSet(A \cup {x}) /\ Cardinality(A \cup {x}) = k
    <3> HIDE DEF A
    <3>1. IsFiniteSet(A \cup {x}) /\ Cardinality(A \cup {x}) = (k - 1) + 1
      BY <2>3, <2>4, FS_AddElement
    <3> QED
      BY <3>1
  <2>6. U # {}
    <3>1. SUFFICES ASSUME U = {} PROVE FALSE
      OBVIOUS
    <3>2. \A y \in S : y \in A \/ y = x
      BY <3>1
    <3>3. S = A \cup {x}
      BY <3>2, <2>3
    <3> HIDE DEF A
    <3>4. Cardinality(S) = k
      BY <3>3, <2>5
    <3> QED
      BY <3>4
  <2>7. U \in SUBSET Nat
    OBVIOUS
  <2>8. PICK z \in U : \A y \in U : z <= y
    <3> HIDE DEF U
    <3> QED
      BY <2>6, <2>7, LeastNumber
  <2>9. {y \in S : y < z} = A \cup {x}
    <3>1. z \in S /\ x < z
      BY <2>8
    <3>2. \A y \in S : x < y => z <= y
      BY <2>8
    <3>3. \A y \in S : y < z => y \in A \/ y = x
      BY <3>1, <3>2
    <3>4. \A y \in A : y \in S /\ y < z
      BY <3>1
    <3> QED
      BY <3>1, <3>3, <3>4
  <2>10. RankIn(S, z) = k
    BY <2>5, <2>9 DEF RankIn
  <2> QED
    BY <2>8, <2>10
<1>3. Bad = {}
  <2> HIDE DEF Has
  <2>1. SUFFICES ASSUME Bad # {} PROVE FALSE
    OBVIOUS
  <2>2. Bad \in SUBSET Nat
    OBVIOUS
  <2>3. PICK k \in Bad : \A j \in Bad : k <= j
    <3> HIDE DEF Bad
    <3> QED
      BY <2>1, <2>2, LeastNumber
  <2>4. k \in 1 .. i /\ ~Has(k)
    BY <2>3, <1>1
  <2>5. k - 1 \in 0 .. i /\ ~(k <= k - 1)
    BY <2>4
  <2>6. Has(k - 1)
    BY <2>3, <2>5
  <2> QED
    BY <2>4, <2>6, <1>2
<1> QED
  BY <1>3

(* Division with remainder, for a number that may be negative.             *)
LEMMA DivisionFacts ==
    ASSUME NEW x \in Int, NEW n \in Nat \ {0}
    PROVE  /\ x \div n \in Int
           /\ (x % n) \in 0 .. n - 1
           /\ x = n * (x \div n) + (x % n)
OBVIOUS

(* Multiples of a positive number are at least that far apart.             *)
LEMMA TimesGrows ==
    ASSUME NEW n \in Nat \ {0}, NEW a \in Int, NEW b \in Int, a >= b + 1
    PROVE  n * a >= n * b + n
OBVIOUS

(* The remainder is the only one.                                          *)
LEMMA RemainderIs ==
    ASSUME NEW x \in Int, NEW n \in Nat \ {0}, NEW k \in Int, NEW r \in 0 .. n - 1,
           x = n * k + r
    PROVE  (x % n) = r
<1>1. PICK d \in Int, q \in 0 .. n - 1 : x = n * d + q /\ q = (x % n)
  BY DivisionFacts
<1>2. CASE d = k
  <2>1. PICK m \in Int : m = n * k
    OBVIOUS
  <2>2. x = m + q /\ x = m + r
    BY <1>1, <1>2, <2>1
  <2>3. q = r
    BY <2>2
  <2> QED
    BY <1>1, <2>3
<1>3. CASE d >= k + 1
  <2>1. n * d >= n * k + n
    BY <1>3, TimesGrows
  <2> QED
    BY <1>1, <2>1
<1>4. CASE k >= d + 1
  <2>1. n * k >= n * d + n
    BY <1>4, TimesGrows
  <2> QED
    BY <1>1, <2>1
<1> QED
  BY <1>2, <1>3, <1>4

(* A remainder may be taken before a subtraction.                          *)
LEMMA RemainderOfDifference ==
    ASSUME NEW x \in Int, NEW n \in Nat \ {0}, NEW j \in Int
    PROVE  (((x % n) - j) % n) = ((x - j) % n)
<1>1. PICK d \in Int, q \in 0 .. n - 1 : x = n * d + q /\ q = (x % n)
  BY DivisionFacts
<1>2. PICK e \in Int, r \in 0 .. n - 1 : x - j = n * e + r /\ r = ((x - j) % n)
  <2>1. x - j \in Int
    OBVIOUS
  <2> QED
    BY <2>1, DivisionFacts
<1>3. q - j = n * (e - d) + r
  BY <1>1, <1>2
<1>4. e - d \in Int /\ q - j \in Int
  OBVIOUS
<1>5. ((q - j) % n) = r
  BY <1>3, <1>4, RemainderIs
<1> QED
  BY <1>1, <1>2, <1>5

(* A number may be reduced by a multiple of the divisor before.            *)
LEMMA RemainderThrough ==
    ASSUME NEW x \in Int, NEW n \in Nat \ {0}, NEW c \in Nat \ {0}, (c % n) = 0, NEW j \in Int
    PROVE  (((x % c) - j) % n) = ((x - j) % n)
<1>1. PICK d \in Int, q \in 0 .. c - 1 : x = c * d + q /\ q = (x % c)
  BY DivisionFacts
<1>2. PICK m \in Int : c = n * m
  <2>1. c \in Int
    OBVIOUS
  <2>2. PICK k \in Int, r \in 0 .. n - 1 : c = n * k + r /\ r = (c % n)
    BY <2>1, DivisionFacts
  <2>3. PICK y \in Int : y = n * k
    OBVIOUS
  <2>4. c = y + r /\ r = 0
    BY <2>2, <2>3
  <2>5. c = y
    BY <2>3, <2>4
  <2> QED
    BY <2>3, <2>5
<1>3. PICK e \in Int, r \in 0 .. n - 1 : q - j = n * e + r /\ r = ((q - j) % n)
  <2>1. q - j \in Int
    OBVIOUS
  <2> QED
    BY <2>1, DivisionFacts
<1>4. PICK k \in Int : k = m * d + e /\ x - j = n * k + r
  <2>1. x - j = (n * m) * d + (n * e + r)
    BY <1>1, <1>2, <1>3
  <2>2. (n * m) * d + (n * e + r) = n * (m * d + e) + r
    OBVIOUS
  <2> QED
    BY <2>1, <2>2
<1>5. x - j \in Int
  OBVIOUS
<1>6. ((x - j) % n) = r
  BY <1>4, <1>5, RemainderIs
<1> QED
  BY <1>1, <1>3, <1>6

(* n consecutive numbers have every remainder by n.                        *)
LEMMA RemainderReached ==
    ASSUME NEW x \in Int, NEW n \in Nat \ {0}, NEW q \in 0 .. n - 1
    PROVE  \E j \in 0 .. n - 1 : ((x - j) % n) = q
<1>1. PICK e \in Int, j \in 0 .. n - 1 : x - q = n * e + j
  <2>1. x - q \in Int
    OBVIOUS
  <2> QED
    BY <2>1, DivisionFacts
<1>2. x - j = n * e + q /\ x - j \in Int
  BY <1>1
<1>3. ((x - j) % n) = q
  BY <1>2, RemainderIs
<1> QED
  BY <1>3
-----------------------------------------------------------------------------
(***************************************************************************)
(* Sums over finite sets.  SumFunctionOnSet takes the members of a set one *)
(* by one as CHOOSE gives them; Adds says what the sum of every subset is  *)
(* whichever member is taken first.                                        *)
(***************************************************************************)
Adds(g, f, S) ==
    /\ \A x \in S : f[x] \in Int
    /\ g \in [SUBSET S -> Int]
    /\ g[{}] = 0
    /\ \A s \in SUBSET S : \A x \in s : g[s] = f[x] + g[s \ {x}]

(* What the fold behind SumFunctionOnSet satisfies.                        *)
SumStep(h, f, S) ==
    h = [s \in SUBSET S |->
           IF s = {} THEN 0
           ELSE f[CHOOSE x \in s : TRUE] + h[s \ {CHOOSE x \in s : TRUE}]]

(* A sum over subsets is extended by one member.                           *)
LEMMA AddsOneMore ==
    ASSUME NEW S, NEW f, NEW e, e \notin S, f[e] \in Int, NEW g, Adds(g, f, S)
    PROVE  \E k : Adds(k, f, S \cup {e})
<1> DEFINE T == S \cup {e}
           k == [s \in SUBSET T |-> IF e \in s THEN f[e] + g[s \ {e}] ELSE g[s]]
<1>1. \A s \in SUBSET T : s \ {e} \in SUBSET S /\ (e \notin s => s \in SUBSET S)
  OBVIOUS
<1>2. \A s \in SUBSET S : g[s] \in Int
  BY DEF Adds
<1>3. k \in [SUBSET T -> Int]
  BY <1>1, <1>2
<1>4. k[{}] = 0
  BY DEF Adds
<1>5. ASSUME NEW s \in SUBSET T, NEW x \in s
      PROVE  k[s] = f[x] + k[s \ {x}]
  <2>1. s \ {x} \in SUBSET T
    OBVIOUS
  <2>2. CASE x = e
    <3>1. k[s] = f[e] + g[s \ {e}]
      BY <2>2
    <3>2. k[s \ {x}] = g[s \ {e}]
      BY <2>1, <2>2
    <3> QED
      BY <2>2, <3>1, <3>2
  <2>3. CASE x # e /\ e \in s
    <3>1. k[s] = f[e] + g[s \ {e}]
      BY <2>3
    <3>2. k[s \ {x}] = f[e] + g[(s \ {x}) \ {e}]
      BY <2>1, <2>3
    <3>3. x \in s \ {e} /\ s \ {e} \in SUBSET S /\ (s \ {x}) \ {e} = (s \ {e}) \ {x}
      BY <1>1, <2>3
    <3>4. g[s \ {e}] = f[x] + g[(s \ {e}) \ {x}]
      BY <3>3 DEF Adds
    <3>5. g[s \ {e}] \in Int /\ g[(s \ {e}) \ {x}] \in Int
      BY <1>2, <3>3
    <3>6. f[x] + g[(s \ {e}) \ {x}] = g[s \ {e}]
      BY <3>4
    <3>7. f[e] + (f[x] + g[(s \ {e}) \ {x}]) = f[x] + (f[e] + g[(s \ {e}) \ {x}])
      <4>1. x \in S
        BY <2>3
      <4>2. f[x] \in Int
        BY <4>1 DEF Adds
      <4> QED
        BY <3>5, <4>2
    <3> QED
      BY <3>1, <3>2, <3>3, <3>4, <3>7
  <2>4. CASE e \notin s
    <3>1. k[s] = g[s] /\ k[s \ {x}] = g[s \ {x}]
      BY <2>1, <2>4
    <3>2. s \in SUBSET S
      BY <1>1, <2>4
    <3> QED
      BY <3>1, <3>2 DEF Adds
  <2> QED
    BY <2>2, <2>3, <2>4
<1> HIDE DEF k
<1> QED
  BY <1>3, <1>4, <1>5 DEF Adds

(* There is a sum over the subsets of every finite set.                    *)
LEMMA AddsExists ==
    ASSUME NEW S, IsFiniteSet(S), NEW f, \A x \in S : f[x] \in Int
    PROVE  \E g : Adds(g, f, S)
<1> DEFINE Bad == {n \in 0 .. Cardinality(S) :
                     \E T \in SUBSET S : Cardinality(T) = n /\ ~(\E g : Adds(g, f, T))}
<1>0. Cardinality(S) \in Nat /\ \A T \in SUBSET S : IsFiniteSet(T) /\ Cardinality(T) \in Nat
                                                 /\ Cardinality(T) <= Cardinality(S)
  BY FS_CardinalityType, FS_Subset
<1>1. SUFFICES ASSUME ~(\E g : Adds(g, f, S)) PROVE FALSE
  OBVIOUS
<1>2. Cardinality(S) \in Bad /\ Bad \in SUBSET Nat
  BY <1>0, <1>1
<1>3. PICK n \in Bad : \A k \in Bad : n <= k
  <2> HIDE DEF Bad
  <2> QED
    BY <1>2, LeastNumber
<1>4. PICK T \in SUBSET S : Cardinality(T) = n /\ ~(\E g : Adds(g, f, T))
  BY <1>3
<1>5. CASE T = {}
  <2> DEFINE z == [s \in SUBSET T |-> 0]
  <2>1. Adds(z, f, T)
    BY <1>5 DEF Adds
  <2> QED
    BY <1>4, <2>1
<1>6. CASE T # {}
  <2>1. PICK e \in T : TRUE
    BY <1>6
  <2> DEFINE R == T \ {e}
  <2>2. Cardinality(R) = n - 1 /\ R \in SUBSET S /\ T = R \cup {e} /\ e \notin R /\ e \in S
    BY <1>0, <1>4, <2>1, FS_RemoveElement
  <2>3. n - 1 \in 0 .. Cardinality(S) /\ ~(n <= n - 1)
    BY <1>0, <2>2
  <2> HIDE DEF R
  <2>4. \E g : Adds(g, f, R)
    <3>1. n - 1 \notin Bad
      BY <1>3, <2>3
    <3> QED
      BY <2>2, <2>3, <3>1
  <2>5. PICK g : Adds(g, f, R)
    BY <2>4
  <2>6. f[e] \in Int
    BY <2>2
  <2>7. \E k : Adds(k, f, R \cup {e})
    BY <2>2, <2>5, <2>6, AddsOneMore
  <2> QED
    BY <1>4, <2>2, <2>7
<1> QED
  BY <1>5, <1>6

(* SumFunctionOnSet computes that sum.                                     *)
LEMMA SumIs ==
    ASSUME NEW S, IsFiniteSet(S), NEW f, NEW g, Adds(g, f, S), NEW T \in SUBSET S
    PROVE  SumFunctionOnSet(f, T) = g[T]
<1> DEFINE h == CHOOSE k : SumStep(k, f, T)
           r == [s \in SUBSET T |-> g[s]]
<1>1. SumFunctionOnSet(f, T) = h[T]
  BY DEF SumFunctionOnSet, FoldFunctionOnSet, MapThenFoldSet, SumStep
<1>2. \A s \in SUBSET T : s # {} =>
         /\ (CHOOSE x \in s : TRUE) \in s
         /\ g[s] = f[CHOOSE x \in s : TRUE] + g[s \ {CHOOSE x \in s : TRUE}]
  BY DEF Adds
<1>3. SumStep(r, f, T)
  <2>1. \A s \in SUBSET T : r[s] = g[s]
    OBVIOUS
  <2>2. \A s \in SUBSET T : s \ {CHOOSE x \in s : TRUE} \in SUBSET T
    OBVIOUS
  <2>3. \A s \in SUBSET T :
           g[s] = IF s = {} THEN 0
                  ELSE f[CHOOSE x \in s : TRUE] + r[s \ {CHOOSE x \in s : TRUE}]
    BY <1>2, <2>1, <2>2 DEF Adds
  <2> QED
    BY <2>3 DEF SumStep
<1>4. SumStep(h, f, T)
  BY <1>3
<1> HIDE DEF h
<1>5. \A s \in SUBSET T : h[s] = IF s = {} THEN 0
                                 ELSE f[CHOOSE x \in s : TRUE] + h[s \ {CHOOSE x \in s : TRUE}]
  BY <1>4 DEF SumStep
<1> DEFINE Bad == {n \in Nat : \E s \in SUBSET T : Cardinality(s) = n /\ h[s] # g[s]}
<1>6. \A s \in SUBSET T : IsFiniteSet(s) /\ Cardinality(s) \in Nat
  BY FS_Subset, FS_CardinalityType
<1>7. SUFFICES ASSUME h[T] # g[T] PROVE FALSE
  BY <1>1
<1>8. Cardinality(T) \in Bad /\ Bad \in SUBSET Nat
  BY <1>6, <1>7
<1>9. PICK n \in Bad : \A k \in Bad : n <= k
  <2> HIDE DEF Bad
  <2> QED
    BY <1>8, LeastNumber
<1>10. PICK s \in SUBSET T : Cardinality(s) = n /\ h[s] # g[s]
  BY <1>9
<1>11. s # {}
  BY <1>5, <1>10 DEF Adds
<1>12. PICK x \in s : /\ h[s] = f[x] + h[s \ {x}]
                      /\ g[s] = f[x] + g[s \ {x}]
  BY <1>2, <1>5, <1>11
<1>13. /\ s \ {x} \in SUBSET T /\ Cardinality(s \ {x}) = n - 1
       /\ Cardinality(s \ {x}) \in Nat /\ n \in Nat
  BY <1>6, <1>10, FS_RemoveElement
<1>14. h[s \ {x}] = g[s \ {x}]
  <2>1. n - 1 \notin Bad
    <3>1. ~(n <= n - 1)
      BY <1>13
    <3> QED
      BY <1>9, <3>1
  <2> QED
    BY <1>13, <2>1
<1> QED
  BY <1>10, <1>12, <1>14

(* The sum over nothing.                                                   *)
LEMMA SumOfNone ==
    ASSUME NEW f
    PROVE  SumFunctionOnSet(f, {}) = 0
<1>1. IsFiniteSet({}) /\ \A x \in {} : f[x] \in Int
  BY FS_EmptySet
<1>2. PICK g : Adds(g, f, {})
  BY <1>1, AddsExists
<1>3. SumFunctionOnSet(f, {}) = g[{}]
  BY <1>1, <1>2, SumIs
<1> QED
  BY <1>2, <1>3 DEF Adds

(* Any member of the set may be taken apart.                               *)
LEMMA SumSplit ==
    ASSUME NEW S, IsFiniteSet(S), NEW f, \A x \in S : f[x] \in Int, NEW e \in S
    PROVE  /\ SumFunctionOnSet(f, S) = f[e] + SumFunctionOnSet(f, S \ {e})
           /\ SumFunctionOnSet(f, S) \in Int /\ SumFunctionOnSet(f, S \ {e}) \in Int
<1>1. PICK g : Adds(g, f, S)
  BY AddsExists
<1>2. SumFunctionOnSet(f, S) = g[S] /\ SumFunctionOnSet(f, S \ {e}) = g[S \ {e}]
  BY <1>1, SumIs
<1>3. S \in SUBSET S /\ S \ {e} \in SUBSET S
  OBVIOUS
<1>4. g[S] \in Int /\ g[S \ {e}] \in Int /\ g[S] = f[e] + g[S \ {e}]
  BY <1>1, <1>3 DEF Adds
<1> QED
  BY <1>2, <1>4

(* The sum depends on the values in the set only.                          *)
LEMMA SumAgrees ==
    ASSUME NEW S, IsFiniteSet(S), NEW f, NEW k,
           \A x \in S : f[x] \in Int /\ k[x] = f[x]
    PROVE  SumFunctionOnSet(k, S) = SumFunctionOnSet(f, S)
<1>1. PICK g : Adds(g, f, S)
  BY AddsExists
<1>2. Adds(g, k, S)
  BY <1>1 DEF Adds
<1>3. SumFunctionOnSet(f, S) = g[S] /\ SumFunctionOnSet(k, S) = g[S]
  BY <1>1, <1>2, SumIs
<1> QED
  BY <1>3

(* A sum of natural numbers is one.                                        *)
LEMMA SumOfNaturals ==
    ASSUME NEW S, IsFiniteSet(S), NEW f, \A x \in S : f[x] \in Nat
    PROVE  SumFunctionOnSet(f, S) \in Nat
<1>1. PICK g : Adds(g, f, S)
  BY AddsExists
<1> DEFINE Bad == {n \in Nat : \E s \in SUBSET S : Cardinality(s) = n /\ g[s] \notin Nat}
<1>2. \A s \in SUBSET S : IsFiniteSet(s) /\ Cardinality(s) \in Nat
  BY FS_Subset, FS_CardinalityType
<1>3. SumFunctionOnSet(f, S) = g[S]
  BY <1>1, SumIs
<1>4. SUFFICES ASSUME g[S] \notin Nat PROVE FALSE
  BY <1>3
<1>5. Cardinality(S) \in Bad /\ Bad \in SUBSET Nat
  BY <1>2, <1>4
<1>6. PICK n \in Bad : \A k \in Bad : n <= k
  <2> HIDE DEF Bad
  <2> QED
    BY <1>5, LeastNumber
<1>7. PICK s \in SUBSET S : Cardinality(s) = n /\ g[s] \notin Nat
  BY <1>6
<1>8. PICK x \in s : TRUE
  <2>1. g[{}] \in Nat
    BY <1>1 DEF Adds
  <2>2. s # {}
    BY <1>7, <2>1
  <2> QED
    BY <2>2
<1>9. /\ s \ {x} \in SUBSET S /\ Cardinality(s \ {x}) = n - 1
      /\ Cardinality(s \ {x}) \in Nat /\ n \in Nat
  BY <1>2, <1>7, FS_RemoveElement
<1>10. g[s \ {x}] \in Nat
  <2>1. n - 1 \notin Bad
    <3>1. ~(n <= n - 1)
      BY <1>9
    <3> QED
      BY <1>6, <3>1
  <2> QED
    BY <1>9, <2>1
<1>11. g[s] = f[x] + g[s \ {x}] /\ f[x] \in Nat
  BY <1>1, <1>8 DEF Adds
<1> QED
  BY <1>7, <1>10, <1>11
-----------------------------------------------------------------------------
(***************************************************************************)
(* Division that is exact, or bounded from below.                          *)
(***************************************************************************)
LEMMA ExactDivision ==
    ASSUME NEW n \in Nat \ {0}, NEW k \in Int
    PROVE  (n * k) \div n = k
<1>1. PICK x \in Int : x = n * k
  OBVIOUS
<1>2. PICK d \in Int, q \in 0 .. n - 1 : x = n * d + q /\ d = x \div n
  BY DivisionFacts
<1>3. CASE d >= k + 1
  <2>1. n * d >= n * k + n
    BY <1>3, TimesGrows
  <2> QED
    BY <1>1, <1>2, <2>1
<1>4. CASE k >= d + 1
  <2>1. n * k >= n * d + n
    BY <1>4, TimesGrows
  <2> QED
    BY <1>1, <1>2, <2>1
<1>5. CASE d = k
  BY <1>1, <1>2, <1>5
<1> QED
  BY <1>3, <1>4, <1>5

(* A quotient is at least what fits into the number.                       *)
LEMMA DivisionAtLeast ==
    ASSUME NEW x \in Int, NEW n \in Nat \ {0}, NEW k \in Int, n * k <= x
    PROVE  k <= x \div n
<1>1. PICK d \in Int, q \in 0 .. n - 1 : x = n * d + q /\ d = x \div n
  BY DivisionFacts
<1>2. SUFFICES ASSUME k >= d + 1 PROVE FALSE
  BY <1>1
<1>3. n * k >= n * d + n
  BY <1>2, TimesGrows
<1>4. n * k \in Int /\ n * d \in Int
  OBVIOUS
<1> QED
  BY <1>1, <1>3, <1>4
-----------------------------------------------------------------------------
(* f is the recursion from a by step, of n steps.                          *)
Steps(n, S) == [(1 .. n) \X S -> S]
Iteration(n, S, a, step, f) ==
    f \in [0 .. n -> S] /\ f[0] = a /\ \A i \in 1 .. n : f[i] = step[<<i, f[i - 1]>>]

(* A recursion over numbers has a solution.                                *)
LEMMA IterateExists ==
    ASSUME NEW n \in Nat, NEW S, NEW a \in S, NEW step \in Steps(n, S)
    PROVE  \E f : Iteration(n, S, a, step, f)
<1> DEFINE Iter(g, k) == /\ g \in [0 .. k -> S] /\ g[0] = a
                         /\ \A i \in 1 .. k : g[i] = step[<<i, g[i - 1]>>]
           Bad == {k \in 0 .. n : ~(\E g : Iter(g, k))}
<1>0. step \in [(1 .. n) \X S -> S]
  BY DEF Steps
<1>1. ASSUME Bad # {} PROVE FALSE
  <2>1. PICK m \in Bad : \A k \in Bad : m <= k
    <3>1. Bad \in SUBSET Nat
      OBVIOUS
    <3> HIDE DEF Bad
    <3> QED
      BY <1>1, <3>1, LeastNumber
  <2>2. m \in 0 .. n /\ m \in Nat /\ ~(\E g : Iter(g, m))
    <3> HIDE DEF Iter
    <3>1. m \in 0 .. n /\ ~(\E g : Iter(g, m))
      OBVIOUS
    <3> QED
      BY ONLY <3>1
  <2>3. CASE m = 0
    <3> DEFINE h == [i \in 0 .. 0 |-> a]
    <3>1. Iter(h, 0)
      OBVIOUS
    <3> QED
      BY ONLY <2>2, <2>3, <3>1
  <2>4. CASE m # 0
    <3>1. m - 1 \in 0 .. n /\ m - 1 \notin Bad
      <4> HIDE DEF Bad, Iter
      <4> QED
        BY ONLY <2>1, <2>2, <2>4, n \in Nat
    <3>2. PICK g : Iter(g, m - 1)
      <4> HIDE DEF Iter
      <4> QED
        BY <3>1
    <3> DEFINE h == [i \in 0 .. m |-> IF i = m THEN step[<<m, g[m - 1]>>] ELSE g[i]]
    <3>3. g[m - 1] \in S /\ m \in 1 .. n
      BY ONLY <2>2, <2>4, <3>2, n \in Nat
    <3>4. step[<<m, g[m - 1]>>] \in S
      BY ONLY <1>0, <3>3
    <3>5. \A i \in 0 .. m : i = m \/ i \in 0 .. m - 1
      BY ONLY <2>2
    <3>6. h \in [0 .. m -> S]
      BY ONLY <3>2, <3>4, <3>5
    <3>7. h[0] = a
      BY ONLY <2>2, <2>4, <3>2
    <3>8. \A i \in 1 .. m : h[i] = step[<<i, h[i - 1]>>]
      <4>1. SUFFICES ASSUME NEW i \in 1 .. m PROVE h[i] = step[<<i, h[i - 1]>>]
        OBVIOUS
      <4>2. i - 1 \in 0 .. m /\ i - 1 # m /\ i \in 0 .. m /\ h[i - 1] = g[i - 1]
        BY ONLY <2>2, i \in 1 .. m
      <4>3. CASE i = m
        BY ONLY <4>2, <4>3
      <4>4. CASE i # m
        <5>1. i \in 1 .. m - 1
          BY ONLY <2>2, <4>4, i \in 1 .. m
        <5> QED
          BY ONLY <3>2, <4>2, <4>4, <5>1
      <4> QED
        BY <4>3, <4>4
    <3>9. Iter(h, m)
      <4> HIDE DEF h
      <4> QED
        BY ONLY <3>6, <3>7, <3>8
    <3> QED
      <4> HIDE DEF Iter, h
      <4> QED
        BY ONLY <2>2, <3>9
  <2> QED
    BY <2>3, <2>4
<1>2. n \in 0 .. n
  OBVIOUS
<1>3. PICK g : Iter(g, n)
  <2> HIDE DEF Iter
  <2> QED
    BY <1>1, <1>2
<1> QED
  BY ONLY <1>3 DEF Iteration

(* What a recursion starts in and keeps, it ends in.                       *)
LEMMA IterateKeeps ==
    ASSUME NEW n \in Nat, NEW S, NEW g, g[0] \in S,
           \A i \in 1 .. n : g[i - 1] \in S => g[i] \in S
    PROVE  \A i \in 0 .. n : g[i] \in S
<1> DEFINE Bad == {k \in 0 .. n : g[k] \notin S}
<1>1. ASSUME Bad # {} PROVE FALSE
  <2>1. PICK m \in Bad : \A k \in Bad : m <= k
    <3>1. Bad \in SUBSET Nat
      OBVIOUS
    <3> HIDE DEF Bad
    <3> QED
      BY <1>1, <3>1, LeastNumber
  <2>2. m \in 1 .. n /\ g[m] \notin S
    BY <2>1
  <2>3. m - 1 \in 0 .. n /\ m - 1 \notin Bad
    <3> HIDE DEF Bad
    <3> QED
      BY <2>1, <2>2
  <2> QED
    BY <2>2, <2>3
<1> QED
  BY <1>1

(* it is the recursion over sets of numbers, the largest number last.      *)
FoldOver(n, a, step, it) ==
    it = [s \in SUBSET (1 .. n) |-> IF s = {} THEN a ELSE step[<<Max(s), it[s \ {Max(s)}]>>]]

(* It has a solution.                                                      *)
LEMMA FoldExists ==
    ASSUME NEW n \in Nat, NEW S, NEW a \in S, NEW step \in Steps(n, S)
    PROVE  \E it \in [SUBSET (1 .. n) -> S] : FoldOver(n, a, step, it)
<1> DEFINE P == SUBSET (1 .. n)
           T == [P -> S]
           one(i, g) == [s \in P |-> IF i \in s THEN step[<<i, g[s \ {i}]>>] ELSE g[s]]
           all == [x \in (1 .. n) \X T |-> one(x[1], x[2])]
           zero == [s \in P |-> a]
<1>1. zero \in T
  OBVIOUS
<1>2. all \in Steps(n, T)
  <2>1. ASSUME NEW i \in 1 .. n, NEW g \in T PROVE one(i, g) \in T
    <3>1. ASSUME NEW s \in P, i \in s PROVE step[<<i, g[s \ {i}]>>] \in S
      <4>1. g[s \ {i}] \in S
        OBVIOUS
      <4> QED
        BY ONLY <4>1, i \in 1 .. n, step \in Steps(n, S) DEF Steps
    <3> QED
      BY <3>1
  <2> HIDE DEF T, one
  <2> QED
    BY <2>1 DEF Steps
<1> HIDE DEF T
<1>3. PICK f : Iteration(n, T, zero, all, f)
  <2> HIDE DEF zero, all
  <2> QED
    BY <1>1, <1>2, IterateExists
<1>4. /\ f \in [0 .. n -> T] /\ f[0] = zero
      /\ \A i \in 1 .. n : f[i] = one(i, f[i - 1])
  <2>1. /\ f \in [0 .. n -> T] /\ f[0] = zero /\ \A i \in 1 .. n : f[i] = all[<<i, f[i - 1]>>]
    BY <1>3 DEF Iteration
  <2>2. \A i \in 1 .. n : f[i - 1] \in T
    BY <2>1
  <2> HIDE DEF one
  <2> QED
    BY <2>1, <2>2
<1>5. ASSUME NEW j \in 0 .. n, NEW s \in P, \A x \in s : x <= j
      PROVE  f[n][s] = f[j][s]
  <2> DEFINE Bad == {k \in j .. n : f[k][s] # f[j][s]}
  <2>1. ASSUME Bad # {} PROVE FALSE
    <3>1. PICK k \in Bad : \A m \in Bad : k <= m
      <4>1. Bad \in SUBSET Nat
        OBVIOUS
      <4> HIDE DEF Bad
      <4> QED
        BY <2>1, <4>1, LeastNumber
    <3>2. k \in j .. n /\ f[k][s] # f[j][s] /\ k # j
      OBVIOUS
    <3>3. k - 1 \in j .. n /\ k - 1 \notin Bad /\ k \in 1 .. n /\ k \notin s
      <4> HIDE DEF Bad
      <4> QED
        BY <1>5, <3>1, <3>2
    <3>4. f[k - 1][s] = f[j][s]
      BY <3>3
    <3>5. f[k][s] = f[k - 1][s]
      <4>1. f[k] = one(k, f[k - 1])
        BY ONLY <1>4, <3>3
      <4> QED
        BY ONLY <3>3, <4>1, s \in P
    <3> QED
      BY <3>2, <3>4, <3>5
  <2>2. n \in j .. n
    OBVIOUS
  <2> QED
    BY <2>1, <2>2
<1>6. f[n] \in T
  BY <1>4
<1>7. ASSUME NEW s \in P
      PROVE  f[n][s] = IF s = {} THEN a ELSE step[<<Max(s), f[n][s \ {Max(s)}]>>]
  <2>1. CASE s = {}
    <3>1. f[n][s] = f[0][s]
      BY <1>5, <2>1
    <3> QED
      BY <1>4, <2>1, <3>1
  <2>2. CASE s # {}
    <3>1. IsFiniteSet(s) /\ s \in SUBSET Nat
      <4>1. IsFiniteSet(1 .. n) /\ s \in SUBSET (1 .. n)
        BY FS_Interval
      <4>2. IsFiniteSet(s)
        BY ONLY <4>1, FS_Subset
      <4>3. s \in SUBSET Nat
        BY ONLY <4>1
      <4> QED
        BY <4>2, <4>3
    <3>2. Max(s) \in s /\ \A k \in s : k <= Max(s)
      BY <2>2, <3>1, MaxIsLargest
    <3>3. PICK m \in 1 .. n : m = Max(s) /\ m \in s
      BY <3>2
    <3>4. f[n][s] = f[m][s]
      <4>1. m \in 0 .. n /\ \A x \in s : x <= m
        BY <3>2, <3>3
      <4> QED
        BY <1>5, <4>1
    <3>5. f[m][s] = step[<<m, f[m - 1][s \ {m}]>>]
      BY <1>4, <3>3
    <3>6. f[n][s \ {m}] = f[m - 1][s \ {m}]
      <4>0. m - 1 \in 0 .. n
        BY ONLY m \in 1 .. n, n \in Nat
      <4>1. m - 1 \in 0 .. n /\ s \ {m} \in P
        BY ONLY <4>0, s \in P
      <4>2. \A x \in s \ {m} : x \in Int /\ m \in Int /\ x <= m /\ x # m
        BY <3>2, <3>3
      <4>3. \A x \in s \ {m} : x <= m - 1
        BY ONLY <4>2
      <4> QED
        BY <1>5, <4>1, <4>3
    <3> QED
      BY <2>2, <3>3, <3>4, <3>5, <3>6
  <2> QED
    BY <2>1, <2>2
<1> QED
  <2>1. f[n] = [s \in P |-> IF s = {} THEN a ELSE step[<<Max(s), f[n][s \ {Max(s)}]>>]]
    BY <1>6, <1>7 DEF T
  <2> QED
    BY <1>6, <2>1 DEF T, FoldOver

(* Such a recursion goes through the numbers one by one.                   *)
LEMMA FoldIs ==
    ASSUME NEW n \in Nat, NEW S, NEW a \in S, NEW step \in Steps(n, S), NEW it,
           it[1 .. 0] = a,
           \A i \in 1 .. n : it[1 .. i - 1] \in S => it[1 .. i] = step[<<i, it[1 .. i - 1]>>]
    PROVE  \E f : Iteration(n, S, a, step, f) /\ f[n] = it[1 .. n]
<1> DEFINE f == [i \in 0 .. n |-> it[1 .. i]]
<1>1. f[0] = a
  OBVIOUS
<1>2. ASSUME NEW i \in 1 .. n, f[i - 1] \in S PROVE f[i] \in S /\ f[i] = step[<<i, f[i - 1]>>]
  <2>1. f[i] = it[1 .. i] /\ f[i - 1] = it[1 .. i - 1]
    OBVIOUS
  <2>2. it[1 .. i] = step[<<i, it[1 .. i - 1]>>]
    BY ONLY <1>2, <2>1, \A j \in 1 .. n : it[1 .. j - 1] \in S => it[1 .. j] = step[<<j, it[1 .. j - 1]>>], i \in 1 .. n
  <2> HIDE DEF f
  <2>3. step[<<i, f[i - 1]>>] \in S
    BY ONLY <1>2, i \in 1 .. n, step \in Steps(n, S) DEF Steps
  <2> QED
    BY <2>1, <2>2, <2>3
<1>3. f = [i \in 0 .. n |-> f[i]] /\ f[n] = it[1 .. n]
  OBVIOUS
<1> HIDE DEF f
<1>4. \A i \in 0 .. n : f[i] \in S
  BY <1>1, <1>2, IterateKeeps
<1>5. \A i \in 1 .. n : f[i] = step[<<i, f[i - 1]>>]
  BY <1>2, <1>4
<1> QED
  BY <1>1, <1>3, <1>4, <1>5 DEF Iteration

(* The largest number of a set.                                            *)
LEMMA MaxOfInterval ==
    ASSUME NEW n \in Nat, NEW u \in SUBSET (1 .. n), u # {}
    PROVE  Max(u) \in 1 .. n
<1>1. u \in SUBSET Nat /\ \A k \in u : k <= n
  OBVIOUS
<1>2. Max(u) \in u
  BY ONLY <1>1, u # {}, n \in Nat, MaxOfBounded
<1> QED
  BY <1>2

(* The numbers up to i, and the largest of them.                           *)
LEMMA SegmentFacts ==
    ASSUME NEW n \in Nat, NEW i \in 1 .. n
    PROVE  /\ Max(1 .. i) = i /\ (1 .. i) \ {i} = 1 .. i - 1
           /\ 1 .. i # {} /\ 1 .. i \in SUBSET (1 .. n)
<1>1. 1 .. i # {} /\ 1 .. i \in SUBSET (1 .. n) /\ 1 .. i \in SUBSET Nat /\ i \in 1 .. i
  OBVIOUS
<1>2. (1 .. i) \ {i} = 1 .. i - 1
  OBVIOUS
<1>3. Max(1 .. i) \in 1 .. i /\ i <= Max(1 .. i)
  <2>1. i \in Nat /\ \A k \in 1 .. i : k <= i
    OBVIOUS
  <2> QED
    BY ONLY <1>1, <2>1, MaxOfBounded
<1> QED
  BY <1>1, <1>2, <1>3
=============================================================================
