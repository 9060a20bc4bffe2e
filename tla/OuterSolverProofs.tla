--------------------------- MODULE OuterSolverProofs ---------------------------
(****************************************************************************)
(* What the outer solver, its oracle and its topology keep, for any input   *)
(* of constraints and any cap on degrees.                                   *)
(*                                                                          *)
(* The solver: the numbers it keeps by subtraction, and the queue it fills  *)
(* at the moments an obstacle goes, are what a fresh count would give.  The *)
(* oracle enters by two facts only: erasing v takes v out of the live       *)
(* vertices, and it resolves active queries, those of v among them.         *)
(*                                                                          *)
(* The topology: no route of a deletion parts two connected vertices, and a *)
(* depth-first artifact that outlives deletions is never too fine.          *)
(*                                                                          *)
(* The oracle: a fresh artifact is exact, so a query is active exactly      *)
(* while its endpoints are joined without its owner, whatever supports the  *)
(* classes watch.                                                           *)
(****************************************************************************)
EXTENDS OuterSolver, SequenceTheorems, FiniteSetTheorems, FunctionTheorems, WellFoundedInduction, TLAPS

--------------------------------------------------------------------------------
(* Counting. *)

LEMMA CountZero ==
  ASSUME NEW S, IsFiniteSet(S)
  PROVE  Cardinality(S) = 0 <=> S = {}
BY FS_EmptySet

LEMMA CountMinus ==
  ASSUME NEW S, IsFiniteSet(S), NEW T \in SUBSET S
  PROVE  Cardinality(S \ T) = Cardinality(S) - Cardinality(T)
<1>1. S \cap T = T
  OBVIOUS
<1>. QED
  BY <1>1, FS_Difference

\* A constraint has at most one branch query, so masses add up.
LEMMA MassMinus ==
  ASSUME NEW qs, IsFiniteSet(qs), NEW A, NEW B \in SUBSET A
  PROVE  Mass(qs, A \ B) = Mass(qs, A) - Mass(qs, B)
<1>. DEFINE Of(S) == {q \in qs : BranchAt(q) \cap S # {}}
<1>1. \A q \in qs : \A x, y \in BranchAt(q) : x = y
  BY DEF BranchAt
<1>2. Of(A \ B) = Of(A) \ Of(B)
  BY <1>1
<1>3. Of(B) \in SUBSET Of(A)
  OBVIOUS
<1>4. Of(A) \in SUBSET qs
  OBVIOUS
<1>5. IsFiniteSet(Of(A))
  BY <1>4, FS_Subset
<1>. HIDE DEF Of
<1>6. Cardinality(Of(A) \ Of(B)) = Cardinality(Of(A)) - Cardinality(Of(B))
  BY <1>3, <1>5, CountMinus
<1>. USE DEF Of
<1>. QED
  BY <1>2, <1>6 DEF Mass

LEMMA MassZero ==
  ASSUME NEW qs, IsFiniteSet(qs), NEW A \in SUBSET BranchesOf(qs)
  PROVE  Mass(qs, A) = 0 <=> A = {}
<1>. DEFINE Of == {q \in qs : BranchAt(q) \cap A # {}}
<1>1. Of \in SUBSET qs
  OBVIOUS
<1>2. IsFiniteSet(Of)
  BY <1>1, FS_Subset
<1>3. Of = {} <=> A = {}
  BY DEF BranchesOf
<1>4. Cardinality(Of) = 0 <=> Of = {}
  BY <1>2, CountZero
<1>. QED
  BY <1>3, <1>4 DEF Mass

--------------------------------------------------------------------------------
(* What is read off the constraints. *)

Holding(u) == {d \in DirectPairs(queries) : d[2] = u /\ d[1] \in alive}
Failing(u) == {q \in active : Owner(q) = u}

LEMMA TriplesFinite ==
  ASSUME NEW qs \in SUBSET (Vertices \X Vertices \X Vertices)
  PROVE  /\ IsFiniteSet(qs)
         /\ DirectPairs(qs) \in SUBSET (Vertices \X Vertices) /\ IsFiniteSet(DirectPairs(qs))
<1>1. IsFiniteSet(Vertices)
  BY VerticesAssumption
<1>2. IsFiniteSet(Vertices \X Vertices)
  BY <1>1, FS_Product
<1>3. IsFiniteSet(qs)
  <2>. DEFINE S == (Vertices \X Vertices) \X Vertices
              T == Vertices \X Vertices \X Vertices
              f == [p \in S |-> <<p[1][1], p[1][2], p[2]>>]
  <2>1. IsFiniteSet(S)
    BY <1>1, <1>2, FS_Product
  <2>2. f \in [S -> T]
    OBVIOUS
  <2>3. \A t \in T : \E p \in S : f[p] = t
    <3>1. ASSUME NEW t \in T PROVE \E p \in S : f[p] = t
      <4>1. <<<<t[1], t[2]>>, t[3]>> \in S
        OBVIOUS
      <4>2. f[<<<<t[1], t[2]>>, t[3]>>] = t
        BY <4>1
      <4>. QED
        BY <4>1, <4>2
    <3>. QED
      BY <3>1
  <2>. HIDE DEF S, T, f
  <2>4. f \in Surjection(S, T)
    BY <2>2, <2>3, Fun_IsSurj
  <2>5. IsFiniteSet(T)
    BY <2>1, <2>4, FS_Surjection
  <2>. QED
    BY <2>5, FS_Subset DEF T
<1>4. DirectPairs(qs) \in SUBSET (Vertices \X Vertices)
  BY DEF DirectPairs
<1>5. IsFiniteSet(DirectPairs(qs))
  BY <1>2, <1>4, FS_Subset
<1>. QED
  BY <1>3, <1>4, <1>5

LEMMA QueriesFinite ==
  ASSUME QueriesTyped
  PROVE  /\ IsFiniteSet(queries)
         /\ DirectPairs(queries) \in SUBSET (Vertices \X Vertices)
         /\ IsFiniteSet(DirectPairs(queries))
         /\ \A d \in DirectPairs(queries) : d = <<d[1], d[2]>> /\ d[1] # d[2]
<1>1. queries \in SUBSET (Vertices \X Vertices \X Vertices)
  BY DEF QueriesTyped
<1>2. /\ IsFiniteSet(queries) /\ DirectPairs(queries) \in SUBSET (Vertices \X Vertices)
      /\ IsFiniteSet(DirectPairs(queries))
  BY <1>1, TriplesFinite
<1>3. \A d \in DirectPairs(queries) : d = <<d[1], d[2]>> /\ d[1] # d[2]
  BY <1>2 DEF DirectPairs
<1>. QED
  BY <1>2, <1>3

--------------------------------------------------------------------------------
(* The canonical labels are vertices.  A label counts the vertices that     *)
(* come before, so all that is needed is that no vertex comes before        *)
(* itself: that the keys are numbers.                                       *)

LEMMA LeastNatural ==
  ASSUME NEW S, S \subseteq Nat, S # {}
  PROVE  \E n \in S : \A m \in S : n <= m
<1>1. PICK n \in S : \A m \in S : ~(<<m, n>> \in OpToRel(<, Nat))
  BY WFMin, NatLessThanWellFounded
<1>2. \A m \in S : ~(m < n)
  BY <1>1 DEF OpToRel
<1>. QED
  BY <1>2

LEMMA MaxIn ==
  ASSUME NEW k \in Nat, NEW S \in SUBSET (0 .. k), S # {}
  PROVE  Max(S) \in S
<1>. DEFINE Away == {k - x : x \in S}
<1>1. \A x \in S : x \in Nat /\ x <= k /\ k - x \in Nat
  BY SMT
<1>2. Away \subseteq Nat /\ Away # {}
  BY <1>1
<1>3. \A x \in S : k - x \in Away
  OBVIOUS
<1>4. \A d \in Away : \E x \in S : d = k - x
  OBVIOUS
<1>. HIDE DEF Away
<1>5. PICK d \in Away : \A m \in Away : d <= m
  BY <1>2, LeastNatural
<1>6. PICK x \in S : d = k - x
  BY <1>4
<1>7. \A y \in S : x >= y
  <2>1. ASSUME NEW y \in S PROVE x >= y
    <3>1. k - x <= k - y
      BY <1>3, <1>5, <1>6
    <3>. QED
      BY <1>1, <3>1
  <2>. QED
    BY <2>1
<1>. QED
  BY <1>7 DEF Max

Chained(qs, f, k) ==
  [v \in Vertices |-> Max({0} \cup {f[k - 1][p[1]] + 1 : p \in {d \in DirectPairs(qs) : d[2] = v}})]

LevelsTo(qs, f, n) ==
  \A k \in 0 .. n : f[k] = IF k = 0 THEN [v \in Vertices |-> 0] ELSE Chained(qs, f, k)

LEMMA ChainedTyped ==
  ASSUME NEW qs \in SUBSET (Vertices \X Vertices \X Vertices), NEW f, NEW k \in Nat \ {0},
         f[k - 1] \in [Vertices -> 0 .. k - 1]
  PROVE  Chained(qs, f, k) \in [Vertices -> 0 .. k]
<1>. SUFFICES ASSUME NEW v \in Vertices
              PROVE  Max({0} \cup {f[k - 1][p[1]] + 1 : p \in {d \in DirectPairs(qs) : d[2] = v}})
                       \in 0 .. k
  BY DEF Chained
<1>. DEFINE S == {0} \cup {f[k - 1][p[1]] + 1 : p \in {d \in DirectPairs(qs) : d[2] = v}}
<1>1. \A p \in DirectPairs(qs) : p[1] \in Vertices
  BY TriplesFinite
<1>2. S \in SUBSET (0 .. k)
  BY <1>1
<1>3. S # {}
  OBVIOUS
<1>. HIDE DEF S
<1>4. Max(S) \in S
  BY <1>2, <1>3, MaxIn
<1>5. Max(S) \in 0 .. k
  BY <1>2, <1>4
<1>. QED
  BY <1>5 DEF S

LEMMA LevelsToExist ==
  ASSUME NEW qs \in SUBSET (Vertices \X Vertices \X Vertices), NEW n \in Nat
  PROVE  \E f : /\ f = [k \in 0 .. n |-> f[k]] /\ LevelsTo(qs, f, n)
                /\ \A k \in 0 .. n : f[k] \in [Vertices -> 0 .. k]
<1>. DEFINE Good(m) == \E f : /\ f = [k \in 0 .. m |-> f[k]] /\ LevelsTo(qs, f, m)
                              /\ \A k \in 0 .. m : f[k] \in [Vertices -> 0 .. k]
            Bad == {m \in Nat : ~Good(m)}
<1>1. Good(0)
  <2>. DEFINE f == [k \in 0 .. 0 |-> [v \in Vertices |-> 0]]
  <2>1. f = [k \in 0 .. 0 |-> f[k]] /\ LevelsTo(qs, f, 0)
    BY DEF LevelsTo
  <2>2. \A k \in 0 .. 0 : f[k] \in [Vertices -> 0 .. k]
    OBVIOUS
  <2>. QED
    BY <2>1, <2>2
<1>2. ASSUME NEW m \in Nat, Good(m) PROVE Good(m + 1)
  <2>1. PICK f : /\ f = [k \in 0 .. m |-> f[k]] /\ LevelsTo(qs, f, m)
                 /\ \A k \in 0 .. m : f[k] \in [Vertices -> 0 .. k]
    BY <1>2
  <2>. DEFINE g == [k \in 0 .. m + 1 |-> IF k <= m THEN f[k] ELSE Chained(qs, f, k)]
  <2>2. \A k \in 0 .. m : g[k] = f[k]
    OBVIOUS
  <2>3. g[m + 1] = Chained(qs, f, m + 1) /\ g = [k \in 0 .. m + 1 |-> g[k]]
    OBVIOUS
  <2>. HIDE DEF g
  <2>4. \A k \in 1 .. m + 1 : Chained(qs, g, k) = Chained(qs, f, k)
    <3>1. \A k \in 1 .. m + 1 : k - 1 \in 0 .. m
      OBVIOUS
    <3>. QED
      BY <2>2, <3>1 DEF Chained
  <2>5. f[m + 1 - 1] \in [Vertices -> 0 .. m + 1 - 1] /\ m + 1 \in Nat \ {0}
    BY <2>1
  <2>6. Chained(qs, f, m + 1) \in [Vertices -> 0 .. m + 1]
    BY <2>5, ChainedTyped
  <2>7. ASSUME NEW k \in 0 .. m + 1
        PROVE  /\ g[k] \in [Vertices -> 0 .. k]
               /\ g[k] = IF k = 0 THEN [v \in Vertices |-> 0] ELSE Chained(qs, g, k)
    <3>1. CASE k \in 0 .. m
      <4>1. f[k] = IF k = 0 THEN [v \in Vertices |-> 0] ELSE Chained(qs, f, k)
        BY <2>1, <3>1 DEF LevelsTo
      <4>2. k # 0 => k \in 1 .. m + 1
        BY <3>1
      <4>. QED
        BY <2>1, <2>2, <2>4, <3>1, <4>1, <4>2
    <3>2. CASE k = m + 1
      <4>1. k # 0 /\ k \in 1 .. m + 1
        BY <3>2
      <4>. QED
        BY <2>3, <2>4, <2>6, <3>2, <4>1
    <3>. QED
      BY <3>1, <3>2
  <2>8. LevelsTo(qs, g, m + 1)
    BY <2>7 DEF LevelsTo
  <2>. QED
    BY <2>3, <2>7, <2>8
<1>. HIDE DEF Good
<1>3. ASSUME Bad # {} PROVE FALSE
  <2>1. PICK m \in Bad : \A j \in Bad : m <= j
    BY <1>3, LeastNatural
  <2>2. m # 0
    BY <1>1
  <2>3. m - 1 \in Nat /\ Good(m - 1)
    BY <2>1, <2>2
  <2>. QED
    BY <1>2, <2>1, <2>3
<1>4. Good(n)
  BY <1>3
<1>. QED
  BY <1>4 DEF Good

LEMMA DirectLevelsTyped ==
  ASSUME NEW qs \in SUBSET (Vertices \X Vertices \X Vertices)
  PROVE  DirectLevels(qs) \in [Vertices -> Nat]
<1>. DEFINE n == Cardinality(Vertices)
            level[k \in 0 .. n] ==
              IF k = 0 THEN [v \in Vertices |-> 0]
              ELSE LET before == level[k - 1] IN
                   [v \in Vertices |-> Max({0} \cup {before[p[1]] + 1 : p \in {d \in DirectPairs(qs) : d[2] = v}})]
            Is(f) == f = [k \in 0 .. n |-> IF k = 0 THEN [v \in Vertices |-> 0] ELSE Chained(qs, f, k)]
<1>1. n \in Nat
  BY VerticesAssumption, FS_CardinalityType
<1>2. PICK f : /\ f = [k \in 0 .. n |-> f[k]] /\ LevelsTo(qs, f, n)
               /\ \A k \in 0 .. n : f[k] \in [Vertices -> 0 .. k]
  BY <1>1, LevelsToExist
<1>3. Is(f)
  <2>1. \A k \in 0 .. n : f[k] = IF k = 0 THEN [v \in Vertices |-> 0] ELSE Chained(qs, f, k)
    BY <1>2 DEF LevelsTo
  <2>2. [k \in 0 .. n |-> f[k]] = [k \in 0 .. n |-> IF k = 0 THEN [v \in Vertices |-> 0] ELSE Chained(qs, f, k)]
    BY <2>1
  <2>. QED
    BY <1>2, <2>2
<1>4. level = CHOOSE g : Is(g)
  BY DEF Chained
<1>5. DirectLevels(qs) = level[n]
  BY DEF DirectLevels
<1>. HIDE DEF level, Is
<1>6. Is(level)
  BY <1>3, <1>4
<1>. USE DEF Is
<1>7. \A k \in 0 .. n : level[k] = IF k = 0 THEN [v \in Vertices |-> 0] ELSE Chained(qs, level, k)
  BY <1>6
<1>. HIDE DEF Is, n
<1>. DEFINE Bad == {k \in 0 .. n : level[k] \notin [Vertices -> 0 .. k]}
<1>8. ASSUME Bad # {} PROVE FALSE
  <2>1. Bad \subseteq Nat
    BY <1>1
  <2>2. PICK k \in Bad : \A j \in Bad : k <= j
    BY <1>8, <2>1, LeastNatural
  <2>3. k # 0
    <3>1. 0 \in 0 .. n
      BY <1>1
    <3>2. level[0] = [v \in Vertices |-> 0]
      BY <1>7, <3>1
    <3>. QED
      BY <2>2, <3>2
  <2>4. k - 1 \in 0 .. n /\ k - 1 \notin Bad /\ k \in Nat \ {0}
    BY <1>1, <2>2, <2>3
  <2>5. level[k - 1] \in [Vertices -> 0 .. k - 1]
    BY <2>4
  <2>6. Chained(qs, level, k) \in [Vertices -> 0 .. k]
    BY <2>4, <2>5, ChainedTyped
  <2>. QED
    BY <1>7, <2>2, <2>3, <2>6
<1>9. level[n] \in [Vertices -> 0 .. n]
  BY <1>1, <1>8
<1>10. level[n] \in [Vertices -> Nat]
  BY <1>1, <1>9
<1>. QED
  BY <1>5, <1>10

LEMMA MassTyped ==
  ASSUME NEW qs, IsFiniteSet(qs), NEW bs
  PROVE  Mass(qs, bs) \in Nat
<1>1. IsFiniteSet({q \in qs : BranchAt(q) \cap bs # {}})
  BY FS_Subset
<1>. QED
  BY <1>1, FS_CardinalityType DEF Mass

LEMMA LabelsAreVertices ==
  ASSUME NEW qs \in SUBSET (Vertices \X Vertices \X Vertices)
  PROVE  CanonicalLabels(qs) \in [Vertices -> Vertices]
<1>. DEFINE n == Cardinality(Vertices)
            level == DirectLevels(qs)
            key == [v \in Vertices |-> <<level[v], -OwnerMass(qs, v), -Cardinality(Below(qs, v)),
                                         -EndpointMass(qs, v), v>>]
            First(v) == {u \in Vertices \ {1} : Less(key[u], key[v])}
<1>1. IsFiniteSet(Vertices) /\ n \in Nat /\ Vertices = 1 .. n /\ 1 \in Vertices
  BY VerticesAssumption, InputsAssumption, FS_CardinalityType
<1>2. \A v \in Vertices : \A i \in 1 .. 5 : key[v][i] \in Int
  <2>1. level \in [Vertices -> Nat]
    BY DirectLevelsTyped
  <2>. HIDE DEF level
  <2>2. IsFiniteSet(qs)
    BY TriplesFinite
  <2>. SUFFICES ASSUME NEW v \in Vertices PROVE \A i \in 1 .. 5 : key[v][i] \in Int
    OBVIOUS
  <2>3. OwnerMass(qs, v) \in Nat /\ EndpointMass(qs, v) \in Nat
    BY <2>2, MassTyped DEF OwnerMass, EndpointMass
  <2>4. Cardinality(Below(qs, v)) \in Nat
    <3>1. IsFiniteSet(Below(qs, v))
      BY <1>1, FS_Subset DEF Below
    <3>. QED
      BY <3>1, FS_CardinalityType
  <2>5. v \in Int /\ level[v] \in Int
    BY <1>1, <2>1
  <2>. DEFINE a == level[v]
              b == -OwnerMass(qs, v)
              c == -Cardinality(Below(qs, v))
              d == -EndpointMass(qs, v)
  <2>6. a \in Int /\ b \in Int /\ c \in Int /\ d \in Int
    BY <2>3, <2>4, <2>5
  <2>7. key[v] = <<a, b, c, d, v>>
    OBVIOUS
  <2>. HIDE DEF a, b, c, d, key
  <2>. QED
    BY <2>5, <2>6, <2>7
<1>3. \A v \in Vertices : DOMAIN key[v] = 1 .. 5
  OBVIOUS
<1>. HIDE DEF key
<1>4. \A v \in Vertices : ~Less(key[v], key[v])
  BY <1>2, <1>3 DEF Less
<1>5. ASSUME NEW v \in Vertices \ {1} PROVE 2 + Cardinality(First(v)) \in Vertices
  <2>1. First(v) \in SUBSET ((Vertices \ {1}) \ {v})
    BY <1>4
  <2>. HIDE DEF First, n
  <2>2. Cardinality(Vertices \ {1}) = n - 1 /\ IsFiniteSet(Vertices \ {1})
    BY <1>1, FS_RemoveElement DEF n
  <2>3. Cardinality((Vertices \ {1}) \ {v}) = n - 1 - 1 /\ IsFiniteSet((Vertices \ {1}) \ {v})
    BY <2>2, FS_RemoveElement
  <2>4. Cardinality(First(v)) \in Nat /\ Cardinality(First(v)) <= n - 1 - 1
    BY <2>1, <2>3, FS_Subset, FS_CardinalityType
  <2>5. 2 + Cardinality(First(v)) \in 1 .. n
    BY <1>1, <2>4
  <2>. QED
    BY <1>1, <2>5
<1>6. CanonicalLabels(qs) = [v \in Vertices |-> IF v = 1 THEN 1 ELSE 2 + Cardinality(First(v))]
  BY DEF CanonicalLabels, key
<1>. HIDE DEF First
<1>. QED
  BY <1>1, <1>5, <1>6

--------------------------------------------------------------------------------
(****************************************************************************)
(* The inductive invariant.  A vertex in the tree is never held back again: *)
(* nothing above it was unplaced when it was placed, and its queries ended  *)
(* with it.  Only the root is placed without a look at its counters.        *)
(****************************************************************************)
Typed ==
  /\ QueriesTyped
  /\ alive \subseteq Vertices
  /\ active \subseteq BranchesOf(queries)
  /\ DOMAIN parent = Vertices

PlacedForGood ==
  /\ \A u \in alive : parent[u] = Unplaced
  /\ ~Started => alive = Vertices
  /\ Started => 1 \notin alive
  /\ \A u \in Vertices \ alive : Failing(u) = {} /\ (u # 1 => Holding(u) = {})

SolverInv == Typed /\ PlacedForGood /\ CountersExact /\ ReadyExact

LEMMA Counts ==
  ASSUME Typed, CountersExact, NEW u \in alive
  PROVE  /\ indeg[u] = Cardinality(Holding(u)) /\ bad[u] = Mass(queries, Failing(u))
         /\ indeg[u] = 0 <=> Holding(u) = {}
         /\ bad[u] = 0 <=> Failing(u) = {}
<1>1. indeg[u] = Cardinality(Holding(u)) /\ bad[u] = Mass(queries, Failing(u))
  BY DEF CountersExact, Holding, Failing
<1>2. IsFiniteSet(queries) /\ IsFiniteSet(DirectPairs(queries))
  BY QueriesFinite DEF Typed
<1>3. Holding(u) \in SUBSET DirectPairs(queries)
  BY DEF Holding
<1>4. IsFiniteSet(Holding(u))
  BY <1>2, <1>3, FS_Subset
<1>5. Failing(u) \in SUBSET BranchesOf(queries)
  BY DEF Failing, Typed
<1>. QED
  BY <1>1, <1>2, <1>4, <1>5, CountZero, MassZero

LEMMA CountsNext ==
  ASSUME Typed, Typed', UNCHANGED queries, CountersExact', NEW u \in alive'
  PROVE  /\ indeg'[u] = 0 <=> Holding(u)' = {}
         /\ bad'[u] = 0 <=> Failing(u)' = {}
<1>. DEFINE H == Holding(u)'
            F == Failing(u)'
<1>1. H = {d \in DirectPairs(queries) : d[2] = u /\ d[1] \in alive'}
  BY DEF Holding, DirectPairs
<1>2. F = {q \in active' : Owner(q) = u}
  BY DEF Failing, Owner
<1>3. indeg'[u] = Cardinality(H)
  BY <1>1 DEF CountersExact, DirectPairs
<1>4. bad'[u] = Mass(queries, F)
  BY <1>2 DEF CountersExact, Owner
<1>5. F \in SUBSET BranchesOf(queries)
  BY <1>2 DEF Typed, BranchesOf, BranchAt
<1>6. IsFiniteSet(queries) /\ IsFiniteSet(DirectPairs(queries))
  BY QueriesFinite DEF Typed
<1>7. H \in SUBSET DirectPairs(queries)
  BY <1>1
<1>. HIDE DEF H, F
<1>8. IsFiniteSet(H)
  BY <1>6, <1>7, FS_Subset
<1>9. Mass(queries, F) = 0 <=> F = {}
  BY <1>5, <1>6, MassZero
<1>10. Cardinality(H) = 0 <=> H = {}
  BY <1>8, CountZero
<1>11. (indeg'[u] = 0 <=> H = {}) /\ (bad'[u] = 0 <=> F = {})
  BY <1>3, <1>4, <1>9, <1>10
<1>. QED
  BY <1>11 DEF H, F

\* What the oracle does to the solver's view.
Erased(v) ==
  /\ v \in alive /\ alive' = alive \ {v}
  /\ active' \subseteq active
  /\ \A q \in active' : Owner(q) # v
  /\ UNCHANGED queries

LEMMA EraseFacts ==
  ASSUME NEW v, EraseVertex(v), UNCHANGED queries
  PROVE  Erased(v)
<1>1. DeleteVertexAndSplit(v, TopologyTouched(v)) /\ active' = active \ Resolved(v)
  BY DEF EraseVertex
<1>2. {q \in active : Owner(q) = v} \subseteq Resolved(v)
  BY DEF Resolved
<1>3. v \in alive /\ TakeOut(v)
  BY <1>1 DEF DeleteVertexAndSplit, TouchedSplit, PathOrderedDelete, LeafyDelete,
              ConnectedDelete, UntouchedSplit
<1>. QED
  BY <1>1, <1>2, <1>3 DEF Erased, TakeOut

LEMMA Fewer ==
  ASSUME Typed, NEW v, Erased(v), NEW u
  PROVE  /\ Failing(u)' \in SUBSET Failing(u)
         /\ Failing(u) \ Failing(u)' = {q \in active \ active' : Owner(q) = u}
         /\ Holding(u)' \in SUBSET Holding(u)
         /\ Holding(u) \ Holding(u)' = Holding(u) \cap {<<v, u>>}
         /\ <<v, u>> \in Holding(u) <=> <<v, u>> \in DirectPairs(queries)
<1>1. Failing(u)' = {q \in active' : Owner(q) = u}
  BY DEF Failing, Owner
<1>2. Holding(u)' = {d \in DirectPairs(queries) : d[2] = u /\ d[1] \in alive \ {v}}
  BY DEF Holding, Erased, DirectPairs
<1>3. Failing(u)' \in SUBSET Failing(u) /\ Holding(u)' \in SUBSET Holding(u)
  BY <1>1, <1>2 DEF Failing, Holding, Erased
<1>4. Failing(u) \ Failing(u)' = {q \in active \ active' : Owner(q) = u}
  BY <1>1 DEF Failing
<1>5. <<v, u>> \in Holding(u) <=> <<v, u>> \in DirectPairs(queries)
  BY DEF Holding, Erased
<1>6. \A d \in DirectPairs(queries) : d = <<d[1], d[2]>>
  BY QueriesFinite DEF Typed
<1>7. ASSUME NEW d \in Holding(u) PROVE d \notin Holding(u)' <=> d = <<v, u>>
  <2>1. d \in DirectPairs(queries) /\ d[2] = u /\ d[1] \in alive /\ d = <<d[1], u>>
    BY <1>6 DEF Holding
  <2>2. d \notin Holding(u)' <=> d[1] = v
    BY <1>2, <2>1
  <2>. QED
    BY <2>1, <2>2
<1>8. Holding(u) \ Holding(u)' = Holding(u) \cap {<<v, u>>}
  BY <1>7
<1>. QED
  BY <1>3, <1>4, <1>5, <1>8

\* The subtractions are exact, for placed vertices too.
Counted(u) == indeg[u] = Cardinality(Holding(u)) /\ bad[u] = Mass(queries, Failing(u))

LEMMA CountKept ==
  ASSUME Typed, NEW v, Erased(v), CountersAfter(v), NEW u \in Vertices, Counted(u)
  PROVE  /\ bad'[u] = Mass(queries, Failing(u)')
         /\ indeg'[u] = Cardinality(Holding(u)')
<1>2. IsFiniteSet(queries) /\ IsFiniteSet(DirectPairs(queries))
  BY QueriesFinite DEF Typed
<1>3. /\ indeg'[u] = IF u \in Below(queries, v) THEN indeg[u] - 1 ELSE indeg[u]
      /\ bad'[u] = bad[u] - Mass(queries, {q \in active \ active' : Owner(q) = u})
  BY DEF CountersAfter
<1>4. indeg[u] = Cardinality(Holding(u)) /\ bad[u] = Mass(queries, Failing(u))
  BY DEF Counted
<1>5. bad'[u] = Mass(queries, Failing(u)')
  <2>1. Failing(u) \ (Failing(u) \ Failing(u)') = Failing(u)'
    BY Fewer
  <2>. DEFINE F == Failing(u)
              G == Failing(u) \ Failing(u)'
  <2>2. G \in SUBSET F
    OBVIOUS
  <2>3. bad'[u] = Mass(queries, F) - Mass(queries, G)
    BY <1>3, <1>4, Fewer
  <2>4. F \ G = Failing(u)'
    BY <2>1
  <2>. HIDE DEF F, G
  <2>5. Mass(queries, F \ G) = Mass(queries, F) - Mass(queries, G)
    BY <1>2, <2>2, MassMinus
  <2>. QED
    BY <2>3, <2>4, <2>5
<1>6. indeg'[u] = Cardinality(Holding(u)')
  <2>1. Holding(u) \in SUBSET DirectPairs(queries)
    BY DEF Holding
  <2>2. IsFiniteSet(Holding(u))
    BY <1>2, <2>1, FS_Subset
  <2>3. u \in Below(queries, v) <=> <<v, u>> \in Holding(u)
    BY Fewer DEF Below
  <2>4. Holding(u)' = Holding(u) \ {<<v, u>>}
    <3>1. /\ Holding(u)' \in SUBSET Holding(u)
          /\ Holding(u) \ Holding(u)' = Holding(u) \cap {<<v, u>>}
      BY Fewer
    <3>. QED
      BY ONLY <3>1
  <2>. DEFINE H == Holding(u)
              x == <<v, u>>
  <2>5. indeg'[u] = IF x \in H THEN Cardinality(H) - 1 ELSE Cardinality(H)
    BY <1>3, <1>4, <2>3
  <2>. HIDE DEF H, x
  <2>6. Cardinality(H \ {x}) = IF x \in H THEN Cardinality(H) - 1 ELSE Cardinality(H)
    BY <2>2, FS_RemoveElement DEF H
  <2>. QED
    BY <2>4, <2>5, <2>6 DEF H, x
<1>. QED
  BY <1>5, <1>6

LEMMA CountersKeep ==
  ASSUME Typed, CountersExact, NEW v, Erased(v), CountersAfter(v)
  PROVE  CountersExact'
<1>. SUFFICES ASSUME NEW u \in alive'
              PROVE  /\ bad'[u] = Mass(queries, Failing(u)')
                     /\ indeg'[u] = Cardinality(Holding(u)')
  BY DEF CountersExact, Erased, Failing, Holding, Owner
<1>1. u \in alive /\ u \in Vertices
  BY DEF Erased, Typed
<1>2. Counted(u)
  BY <1>1, Counts DEF Counted
<1>. QED
  BY <1>1, <1>2, CountKept

LEMMA TypedKeeps ==
  ASSUME Typed, NEW v, Erased(v), DOMAIN parent' = DOMAIN parent
  PROVE  Typed'
<1>1. QueriesTyped' /\ BranchesOf(queries)' = BranchesOf(queries)
  BY DEF Typed, QueriesTyped, Erased, BranchesOf, BranchAt
<1>. QED
  BY <1>1 DEF Typed, Erased

--------------------------------------------------------------------------------
(* The steps. *)

LEMMA InitHolds == Init => SolverInv
<1>. SUFFICES ASSUME Init PROVE SolverInv
  OBVIOUS
<1>0. QueriesTyped
  <2>1. input \in SUBSET (Vertices \X Vertices \X Vertices)
    BY InputsAssumption DEF Init
  <2>2. labels \in [Vertices -> Vertices]
    BY <2>1, LabelsAreVertices DEF Init
  <2>. QED
    BY <2>1, <2>2 DEF Init, Relabelled, QueriesTyped
<1>1. alive = Vertices /\ branches = BranchesOf(queries)
  BY DEF Init, OracleInit, TopoInit
<1>2. active \subseteq BranchesOf(queries)
  BY <1>1 DEF Init, OracleInit
<1>3. /\ indeg = [v \in Vertices |-> Cardinality({d \in DirectPairs(queries) : d[2] = v})]
      /\ bad = [v \in Vertices |-> Mass(queries, {q \in active : Owner(q) = v})]
      /\ parent = [v \in Vertices |-> Unplaced]
  BY DEF Init
<1>4. \A v : {d \in DirectPairs(queries) : d[2] = v}
               = {d \in DirectPairs(queries) : d[2] = v /\ d[1] \in alive}
  BY <1>0, <1>1, QueriesFinite
<1>5. CountersExact
  BY <1>1, <1>3, <1>4 DEF CountersExact
<1>6. 1 \in Vertices /\ ~Started
  BY <1>3, InputsAssumption DEF Started
<1>7. PlacedForGood
  BY <1>1, <1>3, <1>6 DEF PlacedForGood
<1>8. Typed
  BY <1>0, <1>1, <1>2, <1>3 DEF Typed
<1>. QED
  BY <1>5, <1>6, <1>7, <1>8 DEF SolverInv, ReadyExact

LEMMA RootKeeps ==
  ASSUME SolverInv, PlaceRoot
  PROVE  SolverInv'
<1>1. /\ parent[1] = Unplaced /\ parent' = [parent EXCEPT ![1] = 0]
      /\ EraseVertex(1) /\ CountersAfter(1)
      /\ ready' = {u \in Vertices : MayBePushed(u)} /\ UNCHANGED queries
  BY DEF PlaceRoot
<1>2. Erased(1) /\ Typed /\ CountersExact
  BY <1>1, EraseFacts DEF SolverInv
<1>3. alive = Vertices /\ \A u \in Vertices : parent[u] = Unplaced
  BY <1>1 DEF SolverInv, PlacedForGood, Started
<1>4. 1 \in Vertices /\ DOMAIN parent = Vertices
  BY <1>2, InputsAssumption DEF Typed
<1>5. parent'[1] = 0 /\ \A u \in Vertices \ {1} : parent'[u] = Unplaced
  BY <1>1, <1>3, <1>4
<1>6. Typed'
  BY <1>1, <1>2, <1>4, TypedKeeps
<1>7. CountersExact'
  BY <1>1, <1>2, CountersKeep
<1>8. alive' = Vertices \ {1}
  BY <1>2, <1>3 DEF Erased
<1>9. Failing(1)' = {}
  BY <1>2 DEF Erased, Failing, Owner
<1>10. Started'
  BY <1>5 DEF Started, Unplaced
<1>11. PlacedForGood'
  BY <1>4, <1>5, <1>8, <1>9, <1>10 DEF PlacedForGood
<1>12. ReadyExact'
  BY <1>1, <1>5, <1>8 DEF ReadyExact, MayBePushed, Unplaced
<1>. QED
  BY <1>6, <1>7, <1>11, <1>12 DEF SolverInv

LEMMA PlaceKeeps ==
  ASSUME SolverInv, NEW v \in Vertices, Place(v)
  PROVE  SolverInv'
<1>1. /\ Started /\ v \in ready
      /\ parent' = [parent EXCEPT ![v] = compParent[compOf[v]]]
      /\ EraseVertex(v) /\ CountersAfter(v)
      /\ UNCHANGED queries
  BY DEF Place, Started
<1>2. ready' = (ready \ {v})
        \cup {u \in Below(queries, v) : MayBePushed(u) /\ bad[u] = 0}
        \cup {u \in Vertices : MayBePushed(u) /\ \E q \in active \ active' : Owner(q) = u}
  BY DEF Place
<1>3. Erased(v) /\ Typed /\ CountersExact /\ PlacedForGood
  BY <1>1, EraseFacts DEF SolverInv
<1>4. ready = {u \in alive : indeg[u] = 0 /\ bad[u] = 0}
  BY <1>1 DEF SolverInv, ReadyExact
<1>5. v \in alive /\ Holding(v) = {} /\ Failing(v) = {}
  BY <1>1, <1>3, <1>4, Counts
<1>6. 1 \notin alive /\ v # 1
  BY <1>1, <1>3, <1>5 DEF PlacedForGood
<1>7. \A u : u # v => parent'[u] = parent[u]
  BY <1>1
<1>8. Typed' /\ CountersExact' /\ Started'
  BY <1>1, <1>3, <1>6, <1>7, TypedKeeps, CountersKeep DEF Started
<1>9. alive' = alive \ {v} /\ alive \subseteq Vertices
  BY <1>3 DEF Erased, Typed
<1>10. PlacedForGood'
  <2>1. \A u \in alive' : parent'[u] = Unplaced
    BY <1>3, <1>7, <1>9 DEF PlacedForGood
  <2>2. ASSUME NEW u \in Vertices \ alive'
        PROVE  Failing(u)' = {} /\ (u # 1 => Holding(u)' = {})
    <3>1. Failing(u) = {} /\ (u # 1 => Holding(u) = {})
      BY <1>3, <1>5, <1>9 DEF PlacedForGood
    <3>2. Failing(u)' \in SUBSET Failing(u) /\ Holding(u)' \in SUBSET Holding(u)
      BY <1>3, Fewer
    <3>. QED
      BY <3>1, <3>2
  <2>3. 1 \notin alive'
    BY <1>6, <1>9
  <2>. QED
    BY <1>8, <2>1, <2>2, <2>3 DEF PlacedForGood
<1>11. ASSUME NEW u \in ready' PROVE u \in alive' /\ indeg'[u] = 0 /\ bad'[u] = 0
  <2>1. CASE u \in ready \ {v}
    <3>1. u \in alive /\ indeg[u] = 0 /\ bad[u] = 0 /\ u \in alive'
      BY <1>4, <1>9, <2>1
    <3>2. Holding(u) = {} /\ Failing(u) = {}
      BY <1>3, <3>1, Counts
    <3>3. Failing(u)' \in SUBSET Failing(u) /\ Holding(u)' \in SUBSET Holding(u)
      BY <1>3, Fewer
    <3>4. Holding(u)' = {} /\ Failing(u)' = {}
      BY <3>2, <3>3
    <3>. QED
      BY <1>1, <1>3, <1>8, <3>1, <3>4, CountsNext
  <2>2. CASE u \in Below(queries, v) /\ MayBePushed(u)
    <3>1. u \in Vertices /\ <<v, u>> \in DirectPairs(queries)
      BY <2>2 DEF Below
    <3>2. u # v
      BY <1>3, <3>1, QueriesFinite DEF Typed
    <3>3. <<v, u>> \in Holding(u)
      BY <1>3, <3>1, Fewer
    <3>4. u # 1
      BY <1>1, <1>6, <1>7, <2>2 DEF MayBePushed, Started
    <3>5. u \in alive
      BY <1>3, <3>1, <3>3, <3>4 DEF PlacedForGood
    <3>. QED
      BY <1>9, <2>2, <3>2, <3>5 DEF MayBePushed
  <2>3. CASE u \in Vertices /\ MayBePushed(u) /\ \E q \in active \ active' : Owner(q) = u
    <3>1. Failing(u) # {}
      BY <2>3 DEF Failing
    <3>2. u \in alive /\ u # v
      BY <1>3, <1>5, <2>3, <3>1 DEF PlacedForGood
    <3>. QED
      BY <1>9, <2>3, <3>2 DEF MayBePushed
  <2>. QED
    BY <1>2, <2>1, <2>2, <2>3
<1>12. ASSUME NEW u \in alive', indeg'[u] = 0, bad'[u] = 0 PROVE u \in ready'
  <2>1. u \in alive /\ u # v /\ u \in Vertices /\ parent'[u] = Unplaced
    BY <1>3, <1>7, <1>9 DEF PlacedForGood
  <2>2. MayBePushed(u)
    BY <1>12, <2>1 DEF MayBePushed
  <2>3. Holding(u)' = {} /\ Failing(u)' = {}
    BY <1>1, <1>3, <1>8, <1>12, CountsNext
  <2>4. CASE indeg[u] = 0 /\ bad[u] = 0
    BY <1>2, <1>4, <2>1, <2>4
  <2>5. CASE bad[u] # 0
    <3>1. Failing(u) # {}
      BY <1>3, <2>1, <2>5, Counts
    <3>2. Failing(u) \ Failing(u)' = {q \in active \ active' : Owner(q) = u}
      BY <1>3, Fewer
    <3>3. \E q \in active \ active' : Owner(q) = u
      BY <2>3, <3>1, <3>2
    <3>. QED
      BY <1>2, <2>1, <2>2, <3>3
  <2>6. CASE indeg[u] # 0 /\ bad[u] = 0
    <3>1. Holding(u) # {}
      BY <1>3, <2>1, <2>6, Counts
    <3>2. Holding(u) \ Holding(u)' = Holding(u) \cap {<<v, u>>}
      BY <1>3, Fewer
    <3>3. <<v, u>> \in Holding(u)
      BY <2>3, <3>1, <3>2
    <3>4. u \in Below(queries, v)
      BY <2>1, <3>3 DEF Holding, Below
    <3>. QED
      BY <1>2, <2>2, <2>6, <3>4
  <2>. QED
    BY <2>4, <2>5, <2>6
<1>13. ready' = {u \in alive' : indeg'[u] = 0 /\ bad'[u] = 0}
  BY <1>11, <1>12
<1>. QED
  BY <1>8, <1>10, <1>13 DEF SolverInv, ReadyExact

LEMMA SolverInvNext ==
  ASSUME SolverInv, [Next]_allVars
  PROVE  SolverInv'
<1>1. CASE PlaceRoot
  BY <1>1, RootKeeps
<1>2. ASSUME NEW v \in Vertices, Place(v) PROVE SolverInv'
  BY <1>2, PlaceKeeps
<1>3. CASE UNCHANGED allVars
  <2>1. /\ UNCHANGED <<alive, active>>
        /\ UNCHANGED <<queries, indeg, bad, parent, ready>>
    BY <1>3 DEF allVars, solverVars, oracleVars, nbVars
  <2>2. Typed'
    BY <2>1 DEF SolverInv, Typed, QueriesTyped, BranchesOf, BranchAt
  <2>3. \A u : Holding(u)' = Holding(u) /\ Failing(u)' = Failing(u)
    BY <2>1 DEF Holding, Failing, DirectPairs, Owner
  <2>4. PlacedForGood'
    BY <2>1, <2>3 DEF SolverInv, PlacedForGood, Started
  <2>5. CountersExact'
    <3>1. CountersExact
      BY DEF SolverInv
    <3>. QED
      BY <2>1, <3>1 DEF CountersExact, Mass, BranchAt, DirectPairs, Owner
  <2>6. ReadyExact'
    BY <2>1 DEF SolverInv, ReadyExact, Started
  <2>. QED
    BY <2>2, <2>4, <2>5, <2>6 DEF SolverInv
<1>. QED
  BY <1>1, <1>2, <1>3 DEF Next, Terminating

LEMMA SolverInvariant == Spec => []SolverInv
<1>1. Init => SolverInv
  BY InitHolds
<1>2. SolverInv /\ [Next]_allVars => SolverInv'
  BY SolverInvNext
<1>. QED
  BY <1>1, <1>2, PTL DEF Spec

(****************************************************************************)
(* For any input of constraints: the counters the main loop keeps by        *)
(* subtraction, over deletions that resolve many queries at once, stay      *)
(* equal to a fresh count, and the queue holds exactly the vertices that    *)
(* may be placed, although a vertex is pushed only at the moment its last   *)
(* direct constraint or its last query goes.                                *)
(****************************************************************************)
THEOREM SolverStaysExact == Spec => []SolverExact
<1>1. SolverInv => SolverExact
  BY DEF SolverInv, SolverExact
<1>. QED
  BY <1>1, SolverInvariant, PTL

--------------------------------------------------------------------------------
(* Counting up, and functions defined step by step. *)

\* What holds at 0 and passes from each number to the next holds up to n.
LEMMA Upward ==
  ASSUME NEW n \in Nat, NEW Good, 0 \in Good,
         \A k \in 1 .. n : k - 1 \in Good => k \in Good
  PROVE  \A k \in 0 .. n : k \in Good
<1>. DEFINE Bad == {k \in 0 .. n : k \notin Good}
<1>1. ASSUME Bad # {} PROVE FALSE
  <2>1. Bad \subseteq Nat
    OBVIOUS
  <2>2. PICK k \in Bad : \A m \in Bad : k <= m
    BY <1>1, <2>1, LeastNatural
  <2>3. k \in 1 .. n /\ k - 1 \in 0 .. n /\ k - 1 \notin Bad
    BY <2>2
  <2>. QED
    BY <2>2, <2>3
<1>. QED
  BY <1>1

\* Each step of a loop takes T[k - 1] into T[k]; f is what the loop computes.
Climbs(n, T, base, next) ==
  base \in T[0] /\ \A k \in 1 .. n : \A v \in T[k - 1] : next[k][v] \in T[k]

Iterate(f, n, T, base, next) ==
  /\ f = [k \in 0 .. n |-> IF k = 0 THEN base ELSE next[k][f[k - 1]]]
  /\ \A k \in 0 .. n : f[k] \in T[k]

LEMMA Iterates ==
  ASSUME NEW n \in Nat, NEW T, NEW base, NEW next, Climbs(n, T, base, next)
  PROVE  \E f : Iterate(f, n, T, base, next)
<1>0. base \in T[0] /\ \A k \in 1 .. n : \A v \in T[k - 1] : next[k][v] \in T[k]
  BY DEF Climbs
<1>. DEFINE Is(f, m) == /\ f = [k \in 0 .. m |-> IF k = 0 THEN base ELSE next[k][f[k - 1]]]
                        /\ \A k \in 0 .. m : f[k] \in T[k]
            Good == {m \in 0 .. n : \E f : Is(f, m)}
<1>1. 0 \in Good
  <2>. DEFINE f == [k \in 0 .. 0 |-> base]
  <2>1. f = [k \in 0 .. 0 |-> IF k = 0 THEN base ELSE next[k][f[k - 1]]]
    OBVIOUS
  <2>2. \A k \in 0 .. 0 : f[k] \in T[k]
    BY <1>0
  <2>3. Is(f, 0)
    BY <2>1, <2>2
  <2>. HIDE DEF f, Is
  <2>. QED
    BY <2>3
<1>2. ASSUME NEW m \in 1 .. n, m - 1 \in Good PROVE m \in Good
  <2>1. PICK f : Is(f, m - 1)
    BY <1>2
  <2>. DEFINE g == [k \in 0 .. m |-> IF k = m THEN next[m][f[m - 1]] ELSE f[k]]
  <2>2. \A k \in 0 .. m - 1 : g[k] = f[k]
    OBVIOUS
  <2>3. g[m] = next[m][f[m - 1]] /\ g = [k \in 0 .. m |-> g[k]]
    OBVIOUS
  <2>4. \A k \in 0 .. m - 1 : f[k] = IF k = 0 THEN base ELSE next[k][f[k - 1]]
    BY <2>1
  <2>. HIDE DEF g
  <2>5. ASSUME NEW k \in 0 .. m PROVE g[k] = IF k = 0 THEN base ELSE next[k][g[k - 1]]
    <3>1. k # 0 => g[k - 1] = f[k - 1]
      BY <2>2
    <3>2. CASE k = m
      BY <2>3, <3>1, <3>2
    <3>3. CASE k # m
      BY <2>2, <2>4, <3>1, <3>3
    <3>. QED
      BY <3>2, <3>3
  <2>6. ASSUME NEW k \in 0 .. m PROVE g[k] \in T[k]
    <3>1. f[m - 1] \in T[m - 1]
      BY <2>1
    <3>2. CASE k = m
      BY <1>0, <2>3, <3>1, <3>2
    <3>3. CASE k # m
      BY <2>1, <2>2, <3>3
    <3>. QED
      BY <3>2, <3>3
  <2>7. g = [k \in 0 .. m |-> IF k = 0 THEN base ELSE next[k][g[k - 1]]]
    <3>1. [k \in 0 .. m |-> g[k]] = [k \in 0 .. m |-> IF k = 0 THEN base ELSE next[k][g[k - 1]]]
      BY <2>5
    <3>. QED
      BY <2>3, <3>1
  <2>8. Is(g, m)
    BY <2>6, <2>7
  <2>. QED
    BY <2>8
<1>. HIDE DEF Is
<1>3. \A m \in 0 .. n : m \in Good
  <2>. HIDE DEF Good
  <2>. QED
    BY <1>1, <1>2, Upward
<1>4. \E f : Is(f, n)
  BY <1>3
<1>. QED
  BY <1>4 DEF Is, Iterate

--------------------------------------------------------------------------------
(* Lists: s holds the elements of S, each once. *)

Lists(s, S) == s \in Seq(S) /\ IsInjective(s) /\ Range(s) = S

LEMMA ListFacts ==
  ASSUME NEW S, NEW s, Lists(s, S)
  PROVE  /\ Len(s) \in Nat /\ DOMAIN s = 1 .. Len(s)
         /\ \A i \in 1 .. Len(s) : s[i] \in S
         /\ \A x \in S : \E i \in 1 .. Len(s) : s[i] = x
         /\ \A i, j \in 1 .. Len(s) : s[i] = s[j] => i = j
<1>1. s \in Seq(S) /\ IsInjective(s) /\ Range(s) = S
  BY DEF Lists
<1>2. Len(s) \in Nat /\ DOMAIN s = 1 .. Len(s) /\ \A i \in 1 .. Len(s) : s[i] \in S
  BY <1>1, ElementOfSeq
<1>. QED
  BY <1>1, <1>2 DEF IsInjective, Range

LEMMA SeqIsFunction ==
  ASSUME NEW S, NEW s \in Seq(S)
  PROVE  s = [i \in 1 .. Len(s) |-> s[i]] /\ Len(s) \in Nat /\ DOMAIN s = 1 .. Len(s)
OBVIOUS

LEMMA ListMade ==
  ASSUME NEW n \in Nat, NEW s, NEW S, s = [i \in 1 .. n |-> s[i]],
         \A i \in 1 .. n : s[i] \in S,
         \A x \in S : \E i \in 1 .. n : s[i] = x,
         \A i, j \in 1 .. n : s[i] = s[j] => i = j
  PROVE  Lists(s, S) /\ Len(s) = n /\ DOMAIN s = 1 .. n
<1>1. s \in Seq(S) /\ Len(s) = n /\ DOMAIN s = 1 .. n
  <2>1. s \in [1 .. n -> S]
    OBVIOUS
  <2>. QED
    BY <2>1
<1>2. IsInjective(s)
  BY <1>1 DEF IsInjective
<1>3. Range(s) = S
  BY <1>1 DEF Range
<1>. QED
  BY <1>1, <1>2, <1>3 DEF Lists

LEMMA ListEmpty == Lists(<<>>, {})
BY DEF Lists, IsInjective, Range

LEMMA ListIsEmpty ==
  ASSUME NEW S, NEW s, Lists(s, S)
  PROVE  s = <<>> <=> S = {}
<1>1. /\ Len(s) \in Nat /\ DOMAIN s = 1 .. Len(s) /\ \A i \in 1 .. Len(s) : s[i] \in S
      /\ \A x \in S : \E i \in 1 .. Len(s) : s[i] = x
  BY ListFacts
<1>2. s \in Seq(S)
  BY DEF Lists
<1>3. CASE s = <<>>
  BY <1>1, <1>3
<1>4. CASE s # <<>>
  <2>1. 1 \in 1 .. Len(s)
    BY <1>2, <1>4, EmptySeq
  <2>. QED
    BY <1>1, <1>4, <2>1
<1>. QED
  BY <1>3, <1>4

LEMMA ListAppend ==
  ASSUME NEW S, NEW s, Lists(s, S), NEW x, x \notin S
  PROVE  Lists(Append(s, x), S \cup {x})
<1>. DEFINE n == Len(s)
            t == Append(s, x)
<1>1. /\ n \in Nat /\ DOMAIN s = 1 .. n
      /\ \A i \in 1 .. n : s[i] \in S
      /\ \A y \in S : \E i \in 1 .. n : s[i] = y
      /\ \A i, j \in 1 .. n : s[i] = s[j] => i = j
  BY ListFacts
<1>2. s \in Seq(S \cup {x})
  BY DEF Lists
<1>3. /\ t = [i \in 1 .. n + 1 |-> t[i]] /\ \A i \in 1 .. n : t[i] = s[i]
      /\ t[n + 1] = x
  <2>1. /\ t \in Seq(S \cup {x}) /\ Len(t) = n + 1
        /\ \A i \in 1 .. n : t[i] = s[i]
        /\ t[n + 1] = x
    BY <1>1, <1>2, AppendProperties
  <2>. HIDE DEF t, n
  <2>2. t = [i \in 1 .. Len(t) |-> t[i]]
    BY <2>1, SeqIsFunction
  <2>. QED
    BY <2>1, <2>2
<1>. HIDE DEF n, t
<1>4. n + 1 \in Nat /\ \A i \in 1 .. n + 1 : i \in 1 .. n \/ i = n + 1
  BY <1>1
<1>5. 1 .. n \subseteq 1 .. n + 1 /\ n + 1 \in 1 .. n + 1
  BY <1>1
<1>6. \A i \in 1 .. n + 1 : t[i] \in S \cup {x}
  BY <1>1, <1>3, <1>4
<1>7. \A y \in S \cup {x} : \E i \in 1 .. n + 1 : t[i] = y
  BY <1>1, <1>3, <1>5
<1>8. \A i, j \in 1 .. n + 1 : t[i] = t[j] => i = j
  BY <1>1, <1>3, <1>4
<1>9. Lists(t, S \cup {x})
  BY <1>3, <1>4, <1>6, <1>7, <1>8, ListMade
<1>. QED
  BY <1>9 DEF t

LEMMA ListJoin ==
  ASSUME NEW S, NEW s, Lists(s, S), NEW T, NEW t, Lists(t, T), S \cap T = {}
  PROVE  Lists(s \o t, S \cup T)
<1>. DEFINE m == Len(s)
            n == Len(t)
            w == s \o t
<1>1. /\ m \in Nat /\ \A i \in 1 .. m : s[i] \in S
      /\ \A y \in S : \E i \in 1 .. m : s[i] = y
      /\ \A i, j \in 1 .. m : s[i] = s[j] => i = j
  BY ListFacts
<1>2. /\ n \in Nat /\ \A i \in 1 .. n : t[i] \in T
      /\ \A y \in T : \E i \in 1 .. n : t[i] = y
      /\ \A i, j \in 1 .. n : t[i] = t[j] => i = j
  BY ListFacts
<1>3. s \in Seq(S \cup T) /\ t \in Seq(S \cup T)
  BY DEF Lists
<1>4. /\ w = [i \in 1 .. m + n |-> w[i]]
      /\ \A i \in 1 .. m + n : w[i] = IF i <= m THEN s[i] ELSE t[i - m]
  <2>1. /\ s \o t \in Seq(S \cup T) /\ Len(s \o t) = Len(s) + Len(t)
        /\ \A i \in 1 .. Len(s) + Len(t) :
             (s \o t)[i] = IF i <= Len(s) THEN s[i] ELSE t[i - Len(s)]
    BY <1>3, ConcatProperties
  <2>2. s \o t = [i \in 1 .. Len(s \o t) |-> (s \o t)[i]]
    BY ONLY <2>1, SeqIsFunction
  <2>. QED
    BY <2>1, <2>2
<1>. HIDE DEF m, n, w
<1>5. \A i \in 1 .. m + n : IF i <= m THEN i \in 1 .. m ELSE i - m \in 1 .. n
  BY <1>1, <1>2
<1>6. \A i \in 1 .. m + n : w[i] \in S \cup T
  BY <1>1, <1>2, <1>4, <1>5
<1>7. ASSUME NEW y \in S \cup T PROVE \E i \in 1 .. m + n : w[i] = y
  <2>1. CASE y \in S
    <3>1. PICK i \in 1 .. m : s[i] = y
      BY <1>1, <2>1
    <3>2. i \in 1 .. m + n /\ i <= m
      BY <1>1, <1>2
    <3>. QED
      BY <1>4, <3>1, <3>2
  <2>2. CASE y \in T
    <3>1. PICK i \in 1 .. n : t[i] = y
      BY <1>2, <2>2
    <3>2. PICK k : k = i + m
      OBVIOUS
    <3>3. k \in 1 .. m + n /\ ~(k <= m) /\ k - m = i
      BY <1>1, <1>2, <3>2
    <3>4. w[k] = t[k - m]
      BY <1>4, <3>3
    <3>. QED
      BY <3>1, <3>3, <3>4
  <2>. QED
    BY <2>1, <2>2
<1>8. ASSUME NEW i \in 1 .. m + n, NEW j \in 1 .. m + n, w[i] = w[j] PROVE i = j
  <2>1. CASE i <= m /\ j <= m
    BY <1>1, <1>4, <1>5, <1>8, <2>1
  <2>2. CASE ~(i <= m) /\ ~(j <= m)
    <3>1. i - m \in 1 .. n /\ j - m \in 1 .. n /\ t[i - m] = t[j - m]
      BY <1>4, <1>5, <1>8, <2>2
    <3>2. i - m = j - m
      BY <1>2, <3>1, Zenon
    <3>. QED
      BY <1>1, <3>2
  <2>3. CASE (i <= m) # (j <= m)
    <3>1. w[i] \in S <=> i <= m
      BY <1>1, <1>2, <1>4, <1>5
    <3>2. w[j] \in S <=> j <= m
      BY <1>1, <1>2, <1>4, <1>5
    <3>. QED
      BY <1>8, <2>3, <3>1, <3>2
  <2>. QED
    BY <2>1, <2>2, <2>3
<1>9. m + n \in Nat
  BY <1>1, <1>2
<1>10. Lists(w, S \cup T)
  BY <1>4, <1>6, <1>7, <1>8, <1>9, ListMade
<1>. QED
  BY <1>10 DEF w

\* What Picked leaves of a list.
LEMMA PickedLists ==
  ASSUME NEW S, NEW s, Lists(s, S), NEW T
  PROVE  Lists(Picked(s, T), S \cap T)
<1>. DEFINE n == Len(s)
            Upto(k) == {s[i] : i \in 1 .. k}
            U == [k \in 0 .. n |-> {t \in Seq(S) : Lists(t, Upto(k) \cap T)}]
            Step(t, k) == IF s[k] \in T THEN Append(t, s[k]) ELSE t
            next == [k \in 1 .. n |-> [t \in U[k - 1] |-> Step(t, k)]]
            Is(f) == f = [k \in 0 .. n |-> IF k = 0 THEN <<>> ELSE Step(f[k - 1], k)]
            pick[i \in 0 .. n] == IF i = 0 THEN <<>>
                                  ELSE IF s[i] \in T THEN Append(pick[i - 1], s[i]) ELSE pick[i - 1]
<1>1. /\ n \in Nat /\ DOMAIN s = 1 .. n
      /\ \A i \in 1 .. n : s[i] \in S
      /\ \A x \in S : \E i \in 1 .. n : s[i] = x
      /\ \A i, j \in 1 .. n : s[i] = s[j] => i = j
  BY ListFacts
<1>2. <<>> \in U[0]
  <2>1. Upto(0) \cap T = {}
    OBVIOUS
  <2>2. 0 \in 0 .. n /\ <<>> \in Seq(S)
    BY <1>1
  <2>. QED
    BY <2>1, <2>2, ListEmpty
<1>3. ASSUME NEW k \in 1 .. n, NEW t \in U[k - 1] PROVE Step(t, k) \in U[k]
  <2>1. k - 1 \in 0 .. n /\ k \in 0 .. n
    BY <1>1
  <2>2. t \in Seq(S) /\ Lists(t, Upto(k - 1) \cap T)
    BY <1>3, <2>1
  <2>3. Upto(k) = Upto(k - 1) \cup {s[k]}
    <3>1. 1 .. k = (1 .. k - 1) \cup {k}
      BY <1>3
    <3>. QED
      BY <3>1
  <2>4. s[k] \notin Upto(k - 1) /\ s[k] \in S
    BY <1>1, <1>3
  <2>5. U[k] = {r \in Seq(S) : Lists(r, Upto(k) \cap T)}
    BY <2>1
  <2>. HIDE DEF Upto, U
  <2>6. CASE s[k] \in T
    <3>1. Lists(Append(t, s[k]), (Upto(k - 1) \cap T) \cup {s[k]})
      BY <2>2, <2>4, ListAppend
    <3>2. (Upto(k - 1) \cap T) \cup {s[k]} = Upto(k) \cap T
      BY <2>3, <2>6
    <3>3. Append(t, s[k]) \in Seq(S)
      BY <2>2, <2>4
    <3>. QED
      BY <2>5, <2>6, <3>1, <3>2, <3>3
  <2>7. CASE s[k] \notin T
    <3>1. Upto(k - 1) \cap T = Upto(k) \cap T
      BY <2>3, <2>7
    <3>. QED
      BY <2>2, <2>5, <2>7, <3>1
  <2>. QED
    BY <2>6, <2>7
<1>4. pick = CHOOSE f : Is(f)
  OBVIOUS
<1>5. Picked(s, T) = pick[n]
  BY DEF Picked
<1>. HIDE DEF U, Step, pick, n
<1>6. \E f : Is(f)
  <2>1. \A k \in 1 .. n : \A t \in U[k - 1] : next[k][t] = Step(t, k)
    OBVIOUS
  <2>. HIDE DEF next
  <2>2. \A k \in 1 .. n : \A t \in U[k - 1] : next[k][t] \in U[k]
    BY <1>3, <2>1
  <2>3. PICK f : /\ f = [k \in 0 .. n |-> IF k = 0 THEN <<>> ELSE next[k][f[k - 1]]]
                 /\ \A k \in 0 .. n : f[k] \in U[k]
    <3>1. Climbs(n, U, <<>>, next)
      BY <1>2, <2>2 DEF Climbs
    <3>2. PICK f : Iterate(f, n, U, <<>>, next)
      BY <1>1, <3>1, Iterates
    <3>. QED
      BY <3>2 DEF Iterate
  <2>4. \A k \in 0 .. n : k # 0 => next[k][f[k - 1]] = Step(f[k - 1], k)
    <3>1. \A k \in 0 .. n : k # 0 => k \in 1 .. n /\ k - 1 \in 0 .. n
      BY <1>1
    <3>. QED
      BY <2>1, <2>3, <3>1
  <2>5. f = [k \in 0 .. n |-> IF k = 0 THEN <<>> ELSE Step(f[k - 1], k)]
    BY <2>3, <2>4
  <2>. QED
    BY <2>5
<1>. HIDE DEF Is
<1>7. Is(pick)
  BY <1>4, <1>6
<1>. USE DEF Is
<1>8. pick[0] = <<>> /\ \A k \in 1 .. n : pick[k] = Step(pick[k - 1], k)
  BY <1>1, <1>7
<1>. HIDE DEF Is
<1>9. pick[n] \in U[n]
  <2>. DEFINE Good == {k \in 0 .. n : pick[k] \in U[k]}
  <2>1. 0 \in Good /\ \A k \in 1 .. n : k - 1 \in Good => k \in Good
    BY <1>1, <1>2, <1>3, <1>8
  <2>. HIDE DEF Good
  <2>2. \A k \in 0 .. n : k \in Good
    BY <1>1, <2>1, Upward
  <2>. QED
    BY <1>1, <2>2 DEF Good
<1>10. Lists(pick[n], Upto(n) \cap T)
  BY <1>1, <1>9 DEF U
<1>11. Upto(n) = S
  BY <1>1
<1>. QED
  BY <1>5, <1>10, <1>11

LEMMA SwapOutLists ==
  ASSUME NEW S, NEW s, Lists(s, S), NEW x
  PROVE  Lists(SwapOut(s, x), S \ {x})
<1>. DEFINE n == Len(s)
            t == [i \in DOMAIN s |-> IF s[i] = x THEN s[n] ELSE s[i]]
            r == Front(t)
<1>1. /\ n \in Nat /\ DOMAIN s = 1 .. n
      /\ \A i \in 1 .. n : s[i] \in S
      /\ \A y \in S : \E i \in 1 .. n : s[i] = y
      /\ \A i, j \in 1 .. n : s[i] = s[j] => i = j
  BY ListFacts
<1>2. Range(s) = S
  BY DEF Lists
<1>3. CASE x \notin S
  BY <1>2, <1>3 DEF SwapOut
<1>4. CASE x \in S
  <2>1. SwapOut(s, x) = r
    BY <1>2, <1>4 DEF SwapOut, Last
  <2>2. PICK p \in 1 .. n : s[p] = x
    BY <1>1, <1>4
  <2>3. t \in Seq(S) /\ Len(t) = n
    <3>1. n \in 1 .. n
      BY <1>1, <2>2
    <3>2. t \in [1 .. n -> S]
      BY <1>1, <3>1
    <3>. QED
      BY <1>1, <3>2
  <2>4. \A i \in 1 .. n : t[i] = IF i = p THEN s[n] ELSE s[i]
    BY <1>1, <2>2
  <2>5. r = SubSeq(t, 1, n - 1)
    BY <2>3 DEF Front
  <2>. HIDE DEF n, t, r
  <2>6. n - 1 \in Nat /\ n \in 1 .. n
    BY <1>1, <2>2
  <2>7. /\ r \in Seq(S) /\ Len(r) = n - 1
        /\ \A i \in 1 .. n - 1 : r[i] = t[i]
    <3>1. \A i \in 1 .. n - 1 : t[i] \in S
      BY <2>3, <2>6, ElementOfSeq
    <3>2. /\ SubSeq(t, 1, n - 1) \in Seq(S)
          /\ Len(SubSeq(t, 1, n - 1)) = IF 1 <= n - 1 THEN n - 1 - 1 + 1 ELSE 0
          /\ \A i \in 1 .. n - 1 - 1 + 1 : SubSeq(t, 1, n - 1)[i] = t[1 + i - 1]
      BY <2>6, <3>1, SubSeqProperties
    <3>3. n - 1 - 1 + 1 = n - 1 /\ \A i \in 1 .. n - 1 : 1 + i - 1 = i
      BY <2>6
    <3>. QED
      BY <2>5, <2>6, <3>2, <3>3
  <2>8. r = [i \in 1 .. n - 1 |-> r[i]]
    BY <2>7, SeqIsFunction
  <2>9. \A i \in 1 .. n - 1 : i \in 1 .. n /\ i # n /\ r[i] = IF i = p THEN s[n] ELSE s[i]
    BY <2>4, <2>6, <2>7
  <2>10. \A i \in 1 .. n - 1 : r[i] \in S \ {x}
    BY <1>1, <2>2, <2>6, <2>9
  <2>11. ASSUME NEW y \in S \ {x} PROVE \E i \in 1 .. n - 1 : r[i] = y
    <3>1. PICK i \in 1 .. n : s[i] = y
      BY <1>1
    <3>2. i # p
      BY <2>2, <3>1
    <3>3. CASE i = n
      <4>1. p \in 1 .. n - 1
        BY <2>2, <3>2, <3>3
      <4>. QED
        BY <2>9, <3>1, <3>3, <4>1
    <3>4. CASE i # n
      <4>1. i \in 1 .. n - 1
        BY <2>6, <3>4
      <4>. QED
        BY <2>9, <3>1, <3>2, <4>1
    <3>. QED
      BY <3>3, <3>4
  <2>12. \A i, j \in 1 .. n - 1 : r[i] = r[j] => i = j
    <3>1. ASSUME NEW i \in 1 .. n - 1, NEW j \in 1 .. n - 1, r[i] = r[j] PROVE i = j
      <4>1. i \in 1 .. n /\ j \in 1 .. n /\ i # n /\ j # n
        BY <2>9
      <4>2. CASE i = p
        BY <1>1, <2>6, <2>9, <3>1, <4>1, <4>2
      <4>3. CASE i # p
        BY <1>1, <2>6, <2>9, <3>1, <4>1, <4>3
      <4>. QED
        BY <4>2, <4>3
    <3>. QED
      BY <3>1
  <2>13. Lists(r, S \ {x})
    BY <2>6, <2>8, <2>10, <2>11, <2>12, ListMade
  <2>. QED
    BY <2>1, <2>13
<1>. QED
  BY <1>3, <1>4

LEMMA SwapOutAllLists ==
  ASSUME NEW S, NEW s, Lists(s, S), NEW gone, Len(gone) \in Nat, DOMAIN gone = 1 .. Len(gone)
  PROVE  Lists(SwapOutAll(s, gone), S \ Range(gone))
<1>. DEFINE n == Len(gone)
            Upto(k) == {gone[i] : i \in 1 .. k}
            U == [k \in 0 .. n |-> {t \in Seq(S) : Lists(t, S \ Upto(k))}]
            Step(t, k) == SwapOut(t, gone[k])
            next == [k \in 1 .. n |-> [t \in U[k - 1] |-> Step(t, k)]]
            Is(f) == f = [k \in 0 .. n |-> IF k = 0 THEN s ELSE Step(f[k - 1], k)]
            left[k \in 0 .. n] == IF k = 0 THEN s ELSE SwapOut(left[k - 1], gone[k])
<1>1. n \in Nat
  OBVIOUS
<1>2. s \in U[0]
  <2>1. S \ Upto(0) = S
    OBVIOUS
  <2>2. 0 \in 0 .. n /\ s \in Seq(S)
    BY <1>1 DEF Lists
  <2>. QED
    BY <2>1, <2>2
<1>3. ASSUME NEW k \in 1 .. n, NEW t \in U[k - 1] PROVE Step(t, k) \in U[k]
  <2>1. k - 1 \in 0 .. n /\ k \in 0 .. n
    BY <1>1
  <2>2. t \in Seq(S) /\ Lists(t, S \ Upto(k - 1))
    BY <1>3, <2>1
  <2>3. Upto(k) = Upto(k - 1) \cup {gone[k]}
    <3>1. 1 .. k = (1 .. k - 1) \cup {k}
      BY <1>3
    <3>. QED
      BY <3>1
  <2>4. U[k] = {r \in Seq(S) : Lists(r, S \ Upto(k))}
    BY <2>1
  <2>. HIDE DEF Upto, U
  <2>5. Lists(Step(t, k), (S \ Upto(k - 1)) \ {gone[k]})
    BY <2>2, SwapOutLists
  <2>6. (S \ Upto(k - 1)) \ {gone[k]} = S \ Upto(k)
    BY <2>3
  <2>7. Lists(Step(t, k), S \ Upto(k))
    BY <2>5, <2>6
  <2>. HIDE DEF Step
  <2>8. Step(t, k) \in Seq(S)
    <3>1. Step(t, k) \in Seq(S \ Upto(k))
      BY <2>7 DEF Lists
    <3>. QED
      BY <3>1
  <2>. QED
    BY <2>4, <2>7, <2>8
<1>4. left = CHOOSE f : Is(f)
  OBVIOUS
<1>5. SwapOutAll(s, gone) = left[n]
  BY DEF SwapOutAll
<1>. HIDE DEF U, Step, left, n
<1>6. \E f : Is(f)
  <2>1. \A k \in 1 .. n : \A t \in U[k - 1] : next[k][t] = Step(t, k)
    OBVIOUS
  <2>. HIDE DEF next
  <2>2. Climbs(n, U, s, next)
    BY <1>2, <1>3, <2>1 DEF Climbs
  <2>3. PICK f : Iterate(f, n, U, s, next)
    BY <1>1, <2>2, Iterates
  <2>4. \A k \in 0 .. n : k # 0 => next[k][f[k - 1]] = Step(f[k - 1], k)
    <3>1. \A k \in 0 .. n : k # 0 => k \in 1 .. n /\ k - 1 \in 0 .. n
      BY <1>1
    <3>. QED
      BY <2>1, <2>3, <3>1 DEF Iterate
  <2>5. f = [k \in 0 .. n |-> IF k = 0 THEN s ELSE Step(f[k - 1], k)]
    BY <2>3, <2>4 DEF Iterate
  <2>. QED
    BY <2>5
<1>. HIDE DEF Is
<1>7. Is(left)
  BY <1>4, <1>6
<1>. USE DEF Is
<1>8. left[0] = s /\ \A k \in 1 .. n : left[k] = Step(left[k - 1], k)
  BY <1>1, <1>7
<1>. HIDE DEF Is
<1>9. left[n] \in U[n]
  <2>. DEFINE Good == {k \in 0 .. n : left[k] \in U[k]}
  <2>1. 0 \in Good /\ \A k \in 1 .. n : k - 1 \in Good => k \in Good
    BY <1>1, <1>2, <1>3, <1>8
  <2>. HIDE DEF Good
  <2>2. \A k \in 0 .. n : k \in Good
    BY <1>1, <2>1, Upward
  <2>. QED
    BY <1>1, <2>2 DEF Good
<1>10. Lists(left[n], S \ Upto(n))
  BY <1>1, <1>9 DEF U
<1>11. Upto(n) = Range(gone)
  BY DEF Range, n
<1>. QED
  BY <1>5, <1>10, <1>11

\* A list written down by the place of each of its elements.
\* s has the elements of S at their places.
ByPlace(S, place, s) ==
  /\ IsFiniteSet(S) /\ \A v \in S : place[v] \in 1 .. Cardinality(S)
  /\ \A u, v \in S : place[u] = place[v] => u = v
  /\ s = [i \in 1 .. Cardinality(S) |-> CHOOSE v \in S : place[v] = i]

LEMMA ListByPlace ==
  ASSUME NEW S, NEW place, NEW s, ByPlace(S, place, s)
  PROVE  /\ Lists(s, S) /\ Len(s) = Cardinality(S)
         /\ \A i \in 1 .. Cardinality(S) : place[s[i]] = i
         /\ \A v \in S : s[place[v]] = v
<1>. SUFFICES ASSUME IsFiniteSet(S), \A v \in S : place[v] \in 1 .. Cardinality(S),
                     \A u, v \in S : place[u] = place[v] => u = v,
                     s = [i \in 1 .. Cardinality(S) |-> CHOOSE v \in S : place[v] = i]
              PROVE  /\ Lists(s, S) /\ Len(s) = Cardinality(S)
                     /\ \A i \in 1 .. Cardinality(S) : place[s[i]] = i
                     /\ \A v \in S : s[place[v]] = v
  BY DEF ByPlace
<1>. DEFINE n == Cardinality(S)
            f == [v \in S |-> place[v]]
<1>1. n \in Nat
  BY FS_CardinalityType
<1>2. f \in Injection(S, 1 .. n)
  BY DEF Injection, IsInjective
<1>3. IsFiniteSet(1 .. n) /\ Cardinality(1 .. n) = n
  <2>1. 1 \in Int /\ n \in Int /\ (IF 1 > n THEN 0 ELSE n - 1 + 1) = n
    BY <1>1
  <2>. HIDE DEF n
  <2>. QED
    BY <2>1, FS_Interval
<1>. HIDE DEF f
<1>4. f \in Surjection(S, 1 .. n)
  BY <1>2, <1>3, FS_Injection
<1>5. \A i \in 1 .. n : \E v \in S : f[v] = i
  BY <1>4 DEF Surjection
<1>6. \A i \in 1 .. n : \E v \in S : place[v] = i
  BY <1>5 DEF f
<1>. HIDE DEF n
<1>7. \A i \in 1 .. n : s[i] \in S /\ place[s[i]] = i
  <2>1. s = [i \in 1 .. n |-> CHOOSE v \in S : place[v] = i]
    BY DEF n
  <2>. SUFFICES ASSUME NEW i \in 1 .. n PROVE s[i] \in S /\ place[s[i]] = i
    OBVIOUS
  <2>2. s[i] = CHOOSE v \in S : place[v] = i
    BY <2>1
  <2>. QED
    BY <1>6, <2>2
<1>8. s = [i \in 1 .. n |-> s[i]]
  BY DEF n
<1>9. \A v \in S : place[v] \in 1 .. n /\ s[place[v]] = v
  <2>1. \A v \in S : place[v] \in 1 .. n
    BY DEF n
  <2>. QED
    BY <1>7, <2>1
<1>10. \A v \in S : \E i \in 1 .. n : s[i] = v
  BY <1>9
<1>11. ASSUME NEW i \in 1 .. n, NEW j \in 1 .. n, s[i] = s[j] PROVE i = j
  <2>1. place[s[i]] = i /\ place[s[j]] = j
    BY ONLY <1>7, <1>11
  <2>. QED
    BY ONLY <1>11, <2>1
<1>12. Lists(s, S) /\ Len(s) = n
  <2>1. \A i \in 1 .. n : s[i] \in S
    BY <1>7
  <2>. QED
    BY ONLY <1>1, <1>8, <1>10, <1>11, <2>1, ListMade
<1>. QED
  BY <1>7, <1>9, <1>12 DEF n

LEMMA AscendingLists ==
  ASSUME NEW S \in SUBSET Nat, IsFiniteSet(S)
  PROVE  /\ Lists(Ascending(S), S) /\ Len(Ascending(S)) = Cardinality(S)
         /\ DOMAIN Ascending(S) = 1 .. Cardinality(S)
<1>. DEFINE Under(v) == {u \in S : u < v}
            place == [v \in S |-> Cardinality(Under(v)) + 1]
            n == Cardinality(S)
<1>1. \A v \in S : IsFiniteSet(Under(v)) /\ Cardinality(Under(v)) \in Nat
  BY FS_Subset, FS_CardinalityType
<1>2. n \in Nat
  BY FS_CardinalityType
<1>3. ASSUME NEW u \in S, NEW v \in S, u < v PROVE place[u] < place[v]
  <2>0. \A x \in S : (x < u => x < v) /\ ~(u < u)
    BY <1>3
  <2>1. Under(u) \cup {u} \in SUBSET Under(v) /\ u \notin Under(u)
    BY <1>3, <2>0
  <2>. HIDE DEF Under
  <2>2. Cardinality(Under(u) \cup {u}) = Cardinality(Under(u)) + 1
    BY <1>1, <2>1, FS_AddElement
  <2>3. Cardinality(Under(u) \cup {u}) <= Cardinality(Under(v))
    BY <1>1, <2>1, FS_Subset
  <2>. QED
    BY <1>1, <2>2, <2>3
<1>4. ASSUME NEW v \in S PROVE place[v] \in 1 .. n
  <2>1. Under(v) \cup {v} \in SUBSET S /\ v \notin Under(v)
    OBVIOUS
  <2>. HIDE DEF Under
  <2>2. Cardinality(Under(v) \cup {v}) = Cardinality(Under(v)) + 1
    BY <1>1, <2>1, FS_AddElement
  <2>3. Cardinality(Under(v) \cup {v}) <= n
    BY <2>1, FS_Subset
  <2>. QED
    BY <1>1, <1>2, <2>2, <2>3
<1>5. \A u, v \in S : place[u] = place[v] => u = v
  <2>. SUFFICES ASSUME NEW u \in S, NEW v \in S, place[u] = place[v], u # v PROVE FALSE
    OBVIOUS
  <2>1. u < v \/ v < u
    OBVIOUS
  <2>2. place[u] \in Int /\ place[v] \in Int
    BY <1>2, <1>4
  <2>. HIDE DEF place
  <2>. QED
    BY <1>3, <2>1, <2>2
<1>6. Ascending(S) = [i \in 1 .. n |-> CHOOSE v \in S : place[v] = i]
  <2>1. \A i \in 1 .. n : \A v \in S : Cardinality(Under(v)) = i - 1 <=> place[v] = i
    BY <1>1, <1>2
  <2>2. \A i \in 1 .. n : (CHOOSE v \in S : Cardinality(Under(v)) = i - 1)
                            = (CHOOSE v \in S : place[v] = i)
    BY <2>1
  <2>3. Ascending(S) = [i \in 1 .. n |-> CHOOSE v \in S : Cardinality(Under(v)) = i - 1]
    BY DEF Ascending
  <2>. QED
    BY <2>2, <2>3
<1>. HIDE DEF place, n
<1>7. Lists(Ascending(S), S) /\ Len(Ascending(S)) = Cardinality(S)
  <2>1. PICK f, a : f = place /\ a = Ascending(S)
    OBVIOUS
  <2>2. \A v \in S : f[v] \in 1 .. Cardinality(S)
    BY <1>4, <2>1 DEF n
  <2>3. \A u, v \in S : f[u] = f[v] => u = v
    BY <1>5, <2>1
  <2>4. a = [i \in 1 .. Cardinality(S) |-> CHOOSE v \in S : f[v] = i]
    BY <1>6, <2>1 DEF n
  <2>5. Lists(a, S) /\ Len(a) = Cardinality(S)
    <3>1. ByPlace(S, f, a)
      BY <2>2, <2>3, <2>4 DEF ByPlace
    <3>. QED
      BY ONLY <3>1, ListByPlace
  <2>. QED
    BY <2>1, <2>5
<1>. QED
  BY <1>6, <1>7 DEF n

--------------------------------------------------------------------------------
(****************************************************************************)
(* Handles.  Every handle lists the vertices that have it, if any has, and  *)
(* a path-ordered one has at most one: only the leaves a deletion cuts off  *)
(* get such a handle.  While the vertices of X are given new handles, the   *)
(* handles they have list whatever they list.                               *)
(****************************************************************************)
CompRecord == [verts : Seq(Vertices), open : BOOLEAN, ordered : BOOLEAN]
HandleRecord == [of : [Vertices -> Nat], comps : Seq(CompRecord), created : Seq(Nat)]

Members(h, c) == {v \in Vertices : h.of[v] = c}

OneAtMost(S) == \A u, v \in S : u = v

Filed(h, c, X) ==
  \/ Members(h, c) \subseteq X
  \/ Members(h, c) \cap X = {} /\ Lists(h.comps[c].verts, Members(h, c))

HeldBut(h, X) ==
  /\ h \in HandleRecord
  /\ \A v \in Vertices : h.of[v] \in 0 .. Len(h.comps)
  /\ \A c \in 1 .. Len(h.comps) :
       /\ Filed(h, c, X)
       /\ h.comps[c].ordered => \A u, v \in Members(h, c) : u = v
  /\ \A i \in 1 .. Len(h.created) : h.created[i] \in 1 .. Len(h.comps)

Held(h) == HeldBut(h, {})

GetsHandle(h, X, G, verts, ordered, r) ==
  /\ HeldBut(h, X) /\ G \in SUBSET Vertices /\ G \subseteq X /\ Lists(verts, G)
  /\ ordered \in BOOLEAN /\ (ordered => OneAtMost(G))
  /\ r = AssignMembers(h, verts, ordered)

HasHandle(h, X, G, r) ==
  /\ HeldBut(r, X \ G) /\ Len(r.comps) = Len(h.comps) + 1
  /\ r.of = [v \in Vertices |-> IF v \in G THEN Len(h.comps) + 1 ELSE h.of[v]]

LEMMA AssignOne ==
  ASSUME NEW h, NEW X, NEW G, NEW verts, NEW ordered, NEW r,
         GetsHandle(h, X, G, verts, ordered, r)
  PROVE  HasHandle(h, X, G, r)
<1>. SUFFICES /\ HeldBut(r, X \ G) /\ Len(r.comps) = Len(h.comps) + 1
              /\ r.of = [v \in Vertices |-> IF v \in G THEN Len(h.comps) + 1 ELSE h.of[v]]
  BY DEF HasHandle
<1>0. /\ HeldBut(h, X) /\ G \in SUBSET Vertices /\ G \subseteq X /\ Lists(verts, G)
      /\ ordered \in BOOLEAN /\ (ordered => OneAtMost(G))
      /\ r = AssignMembers(h, verts, ordered)
  BY DEF GetsHandle
<1>. DEFINE n == Len(h.comps)
            m == Len(h.created)
            one == [verts |-> verts, open |-> TRUE, ordered |-> ordered]
<1>1. /\ h \in HandleRecord /\ \A v \in Vertices : h.of[v] \in 0 .. n
      /\ \A c \in 1 .. n : /\ Filed(h, c, X)
                           /\ h.comps[c].ordered => \A u, v \in Members(h, c) : u = v
      /\ \A i \in 1 .. m : h.created[i] \in 1 .. n
  BY <1>0 DEF HeldBut
<1>2. /\ h.of \in [Vertices -> Nat] /\ h.comps \in Seq(CompRecord) /\ h.created \in Seq(Nat)
      /\ n \in Nat /\ m \in Nat
  BY <1>1 DEF HandleRecord
<1>3. Range(verts) = G /\ one \in CompRecord
  BY <1>0 DEF Lists, CompRecord
<1>4. /\ r.of = [v \in Vertices |-> IF v \in G THEN n + 1 ELSE h.of[v]]
      /\ r.comps = Append(h.comps, one) /\ r.created = Append(h.created, n + 1)
      /\ r = [of |-> r.of, comps |-> r.comps, created |-> r.created]
  BY <1>0, <1>3 DEF AssignMembers
<1>. HIDE DEF n, m, one
<1>5. /\ r.comps \in Seq(CompRecord) /\ Len(r.comps) = n + 1
      /\ \A c \in 1 .. n : r.comps[c] = h.comps[c]
      /\ r.comps[n + 1] = one
  BY <1>2, <1>3, <1>4, AppendProperties DEF n
<1>6. /\ r.created \in Seq(Nat) /\ Len(r.created) = m + 1
      /\ \A i \in 1 .. m : r.created[i] = h.created[i]
      /\ r.created[m + 1] = n + 1
  BY <1>2, <1>4, AppendProperties DEF m
<1>7. \A v \in Vertices : r.of[v] \in 0 .. n + 1
  BY <1>1, <1>2, <1>4
<1>8. r \in HandleRecord
  <2>1. \A v \in Vertices : (IF v \in G THEN n + 1 ELSE h.of[v]) \in Nat
    BY <1>2
  <2>2. r.of \in [Vertices -> Nat]
    BY <1>4, <2>1
  <2>. QED
    BY <1>4, <1>5, <1>6, <2>2 DEF HandleRecord
<1>9. Members(r, n + 1) = G
  BY <1>0, <1>1, <1>2, <1>4 DEF Members
<1>10. \A c \in 1 .. n : Members(r, c) = Members(h, c) \ G
  BY <1>2, <1>4 DEF Members
<1>11. ASSUME NEW c \in 1 .. n + 1
       PROVE  /\ Filed(r, c, X \ G)
              /\ r.comps[c].ordered => \A u, v \in Members(r, c) : u = v
  <2>1. CASE c = n + 1
    BY <1>0, <1>5, <1>9, <2>1 DEF one, Filed, OneAtMost
  <2>2. CASE c # n + 1
    <3>1. c \in 1 .. n
      BY <1>2, <2>2
    <3>2. /\ Filed(h, c, X) /\ r.comps[c] = h.comps[c] /\ Members(r, c) = Members(h, c) \ G
          /\ h.comps[c].ordered => \A u, v \in Members(h, c) : u = v
      BY <1>1, <1>5, <1>10, <3>1
    <3>3. CASE Members(h, c) \subseteq X
      BY <3>2, <3>3 DEF Filed
    <3>4. CASE Members(h, c) \cap X = {} /\ Lists(h.comps[c].verts, Members(h, c))
      <4>1. Members(r, c) = Members(h, c)
        BY <1>0, <3>2, <3>4
      <4>. QED
        BY <3>2, <3>4, <4>1 DEF Filed
    <3>. QED
      BY <3>2, <3>3, <3>4 DEF Filed
  <2>. QED
    BY <2>1, <2>2
<1>12. ASSUME NEW i \in 1 .. m + 1 PROVE r.created[i] \in 1 .. n + 1
  <2>1. CASE i = m + 1
    BY <1>2, <1>6, <2>1
  <2>2. CASE i # m + 1
    <3>1. i \in 1 .. m
      BY <1>2, <2>2
    <3>2. h.created[i] \in 1 .. n /\ r.created[i] = h.created[i]
      BY <1>1, <1>6, <3>1
    <3>. QED
      BY <1>2, <3>2
  <2>. QED
    BY <2>1, <2>2
<1>13. HeldBut(r, X \ G)
  BY <1>5, <1>6, <1>7, <1>8, <1>11, <1>12 DEF HeldBut
<1>. QED
  BY <1>4, <1>5, <1>13 DEF n

Disjoint(groups) ==
  \A j, k \in 1 .. Len(groups) : Range(groups[j]) \cap Range(groups[k]) # {} => j = k

\* A new handle for each group, in order.
AllGetHandles(h, X, groups, ordered, r) ==
  /\ HeldBut(h, X) /\ Len(groups) \in Nat /\ ordered \in BOOLEAN /\ Disjoint(groups)
  /\ \A k \in 1 .. Len(groups) :
       /\ Lists(groups[k], Range(groups[k])) /\ Range(groups[k]) \subseteq Vertices
       /\ Range(groups[k]) \subseteq X
       /\ ordered => OneAtMost(Range(groups[k]))
  /\ r = AssignEach(h, groups, ordered)

AllHaveHandles(h, X, groups, r) ==
  /\ HeldBut(r, X \ UNION {Range(groups[k]) : k \in 1 .. Len(groups)})
  /\ Len(r.comps) = Len(h.comps) + Len(groups)
  /\ \A k \in 1 .. Len(groups) : \A v \in Range(groups[k]) : r.of[v] = Len(h.comps) + k
  /\ \A v \in Vertices : (\A k \in 1 .. Len(groups) : v \notin Range(groups[k]))
                           => r.of[v] = h.of[v]

LEMMA AssignAll ==
  ASSUME NEW h, NEW X, NEW groups, NEW ordered, NEW r,
         AllGetHandles(h, X, groups, ordered, r)
  PROVE  AllHaveHandles(h, X, groups, r)
<1>. DEFINE n == Len(groups)
            L == Len(h.comps)
            G(k) == Range(groups[k])
            After(p, k) ==
              /\ HeldBut(p, X \ UNION {G(j) : j \in 1 .. k}) /\ Len(p.comps) = L + k
              /\ \A j \in 1 .. k : \A v \in G(j) : p.of[v] = L + j
              /\ \A v \in Vertices : (\A j \in 1 .. k : v \notin G(j)) => p.of[v] = h.of[v]
            U == [k \in 0 .. n |-> {p \in HandleRecord : After(p, k)}]
            Step(p, k) == AssignMembers(p, groups[k], ordered)
            next == [k \in 1 .. n |-> [p \in U[k - 1] |-> Step(p, k)]]
            Is(f) == f = [k \in 0 .. n |-> IF k = 0 THEN h ELSE Step(f[k - 1], k)]
            given[k \in 0 .. n] ==
              IF k = 0 THEN h ELSE AssignMembers(given[k - 1], groups[k], ordered)
<1>1. /\ n \in Nat /\ h \in HandleRecord /\ L \in Nat
      /\ \A k \in 1 .. n : /\ Lists(groups[k], G(k)) /\ G(k) \subseteq Vertices
                           /\ G(k) \subseteq X
                           /\ ordered => OneAtMost(G(k))
      /\ \A j, k \in 1 .. n : G(j) \cap G(k) # {} => j = k
      /\ HeldBut(h, X) /\ ordered \in BOOLEAN /\ r = AssignEach(h, groups, ordered)
  <2>1. h \in HandleRecord /\ n \in Nat
    BY DEF HeldBut, AllGetHandles
  <2>2. L \in Nat
    BY <2>1 DEF HandleRecord
  <2>3. \A j, k \in 1 .. n : G(j) \cap G(k) # {} => j = k
    BY DEF Disjoint, AllGetHandles
  <2>. QED
    BY <2>1, <2>2, <2>3 DEF AllGetHandles
<1>2. h \in U[0]
  <2>1. X \ UNION {G(j) : j \in 1 .. 0} = X
    OBVIOUS
  <2>3. HeldBut(h, X \ UNION {G(j) : j \in 1 .. 0})
    BY <1>1, <2>1
  <2>. HIDE DEF G
  <2>2. After(h, 0)
    BY <1>1, <2>3
  <2>. QED
    BY <1>1, <2>2
<1>. HIDE DEF G
<1>3. ASSUME NEW k \in 1 .. n, NEW p \in U[k - 1] PROVE Step(p, k) \in U[k]
  <2>1. k - 1 \in 0 .. n /\ k \in 0 .. n
    BY <1>1
  <2>2. /\ HeldBut(p, X \ UNION {G(j) : j \in 1 .. k - 1}) /\ Len(p.comps) = L + (k - 1)
        /\ \A j \in 1 .. k - 1 : \A v \in G(j) : p.of[v] = L + j
        /\ \A v \in Vertices : (\A j \in 1 .. k - 1 : v \notin G(j)) => p.of[v] = h.of[v]
    BY <1>3, <2>1
  <2>3. U[k] = {q \in HandleRecord : After(q, k)}
    BY <2>1
  <2>. HIDE DEF U
  <2>4. \A j \in 1 .. k - 1 : j \in 1 .. n /\ G(j) \cap G(k) = {}
    BY <1>1
  <2>5. G(k) \subseteq X \ UNION {G(j) : j \in 1 .. k - 1}
    BY <1>1, <2>4
  <2>6. PICK q : q = Step(p, k)
    OBVIOUS
  <2>7. /\ HeldBut(q, (X \ UNION {G(j) : j \in 1 .. k - 1}) \ G(k)) /\ Len(q.comps) = Len(p.comps) + 1
        /\ q.of = [v \in Vertices |-> IF v \in G(k) THEN Len(p.comps) + 1 ELSE p.of[v]]
    <3>3. q = AssignMembers(p, groups[k], ordered)
      BY <2>6
    <3>4. G(k) \in SUBSET Vertices /\ Lists(groups[k], G(k))
      BY <1>1
    <3>5. (ordered => OneAtMost(G(k))) /\ ordered \in BOOLEAN
      BY <1>1
    <3>. DEFINE Y == X \ UNION {G(j) : j \in 1 .. k - 1}
    <3>6. HeldBut(p, Y) /\ G(k) \subseteq Y
      BY <2>2, <2>5
    <3>. HIDE DEF Y
    <3>7. PICK Z, g, t : Z = Y /\ g = G(k) /\ t = groups[k]
      OBVIOUS
    <3>8. HeldBut(p, Z)
      BY ONLY <3>6, <3>7
    <3>9. q = AssignMembers(p, t, ordered)
      BY ONLY <3>3, <3>7
    <3>10. g \in SUBSET Vertices
      BY ONLY <3>4, <3>7
    <3>11. Lists(t, g)
      BY ONLY <3>4, <3>7
    <3>12. g \subseteq Z
      BY ONLY <3>6, <3>7
    <3>13. ordered => OneAtMost(g)
      BY ONLY <3>5, <3>7
    <3>15. GetsHandle(p, Z, g, t, ordered, q)
      BY ONLY <3>5, <3>8, <3>9, <3>10, <3>11, <3>12, <3>13 DEF GetsHandle
    <3>14. /\ HeldBut(q, Z \ g) /\ Len(q.comps) = Len(p.comps) + 1
           /\ q.of = [v \in Vertices |-> IF v \in g THEN Len(p.comps) + 1 ELSE p.of[v]]
      <4>1. HasHandle(p, Z, g, q)
        BY ONLY <3>15, AssignOne
      <4>. QED
        BY ONLY <4>1 DEF HasHandle
    <3>. QED
      BY ONLY <3>7, <3>14 DEF Y
  <2>8. Len(q.comps) = L + k /\ \A v \in G(k) : q.of[v] = L + k
    BY <1>1, <2>2, <2>7
  <2>9. \A j \in 1 .. k - 1 : \A v \in G(j) : v \in Vertices /\ v \notin G(k)
    BY <1>1, <2>4
  <2>10. ASSUME NEW j \in 1 .. k, NEW v \in G(j) PROVE q.of[v] = L + j
    <3>1. CASE j = k
      BY <2>8, <3>1
    <3>2. CASE j # k
      <4>1. j \in 1 .. k - 1
        BY <3>2
      <4>. QED
        BY <2>2, <2>7, <2>9, <4>1
    <3>. QED
      BY <3>1, <3>2
  <2>11. ASSUME NEW v \in Vertices, \A j \in 1 .. k : v \notin G(j) PROVE q.of[v] = h.of[v]
    <3>1. v \notin G(k) /\ \A j \in 1 .. k - 1 : v \notin G(j)
      BY <2>11
    <3>. QED
      BY <2>2, <2>7, <3>1
  <2>12. q \in HandleRecord
    BY <2>7 DEF HeldBut
  <2>13. After(q, k)
    <3>1. (X \ UNION {G(j) : j \in 1 .. k - 1}) \ G(k) = X \ UNION {G(j) : j \in 1 .. k}
      <4>1. \A j \in 1 .. k : j = k \/ j \in 1 .. k - 1
        OBVIOUS
      <4>2. k \in 1 .. k /\ \A j \in 1 .. k - 1 : j \in 1 .. k
        OBVIOUS
      <4>. QED
        BY <4>1, <4>2
    <3>2. HeldBut(q, X \ UNION {G(j) : j \in 1 .. k})
      BY <2>7, <3>1
    <3>. QED
      BY <2>8, <2>10, <2>11, <3>2
  <2>. QED
    BY <2>3, <2>6, <2>12, <2>13
<1>4. given = CHOOSE f : Is(f)
  OBVIOUS
<1>5. AssignEach(h, groups, ordered) = given[n]
  BY DEF AssignEach
<1>. HIDE DEF U, Step, given, n
<1>6. \E f : Is(f)
  <2>1. \A k \in 1 .. n : \A p \in U[k - 1] : next[k][p] = Step(p, k)
    OBVIOUS
  <2>. HIDE DEF next
  <2>2. Climbs(n, U, h, next)
    BY <1>2, <1>3, <2>1 DEF Climbs
  <2>3. PICK f : Iterate(f, n, U, h, next)
    BY <1>1, <2>2, Iterates
  <2>4. \A k \in 0 .. n : k # 0 => next[k][f[k - 1]] = Step(f[k - 1], k)
    <3>1. \A k \in 0 .. n : k # 0 => k \in 1 .. n /\ k - 1 \in 0 .. n
      BY <1>1
    <3>. QED
      BY <2>1, <2>3, <3>1 DEF Iterate
  <2>5. f = [k \in 0 .. n |-> IF k = 0 THEN h ELSE Step(f[k - 1], k)]
    BY <2>3, <2>4 DEF Iterate
  <2>. QED
    BY <2>5
<1>. HIDE DEF Is
<1>7. Is(given)
  BY <1>4, <1>6
<1>. USE DEF Is
<1>8. given[0] = h /\ \A k \in 1 .. n : given[k] = Step(given[k - 1], k)
  BY <1>1, <1>7
<1>. HIDE DEF Is
<1>9. given[n] \in U[n]
  <2>. DEFINE Good == {k \in 0 .. n : given[k] \in U[k]}
  <2>1. 0 \in Good /\ \A k \in 1 .. n : k - 1 \in Good => k \in Good
    BY <1>1, <1>2, <1>3, <1>8
  <2>. HIDE DEF Good
  <2>2. \A k \in 0 .. n : k \in Good
    BY <1>1, <2>1, Upward
  <2>. QED
    BY <1>1, <2>2 DEF Good
<1>11. n \in 0 .. n
  BY <1>1
<1>. HIDE DEF After
<1>12. After(given[n], n)
  BY <1>9, <1>11 DEF U
<1>. USE DEF After
<1>10. r = given[n] /\ After(given[n], n)
  BY <1>1, <1>5, <1>12
<1>. HIDE DEF given
<1>. QED
  BY <1>10 DEF G, n, AllHaveHandles

\* Members leave their handle.
LEMMA MembersLeave ==
  ASSUME NEW h, Held(h), NEW c \in 1 .. Len(h.comps), Members(h, c) # {}, NEW gone,
         Len(gone) \in Nat, DOMAIN gone = 1 .. Len(gone), Range(gone) \subseteq Members(h, c),
         NEW r, r = WithoutMembers(h, c, gone)
  PROVE  /\ Held(r) /\ Len(r.comps) = Len(h.comps) /\ r.created = h.created
         /\ r.of = [v \in Vertices |-> IF v \in Range(gone) THEN 0 ELSE h.of[v]]
         /\ \A b \in 1 .. Len(h.comps) : r.comps[b].ordered = h.comps[b].ordered
                                         /\ r.comps[b].open = h.comps[b].open
<1>. DEFINE n == Len(h.comps)
            left == SwapOutAll(h.comps[c].verts, gone)
<1>1. /\ h \in HandleRecord /\ \A v \in Vertices : h.of[v] \in 0 .. n
      /\ \A b \in 1 .. n : /\ Filed(h, b, {})
                           /\ h.comps[b].ordered => \A u, v \in Members(h, b) : u = v
      /\ \A i \in 1 .. Len(h.created) : h.created[i] \in 1 .. n
  BY DEF Held, HeldBut
<1>2. /\ h.of \in [Vertices -> Nat] /\ h.comps \in Seq(CompRecord) /\ h.created \in Seq(Nat)
      /\ h = [of |-> h.of, comps |-> h.comps, created |-> h.created]
  BY <1>1 DEF HandleRecord
<1>3. n \in Nat /\ DOMAIN h.comps = 1 .. n /\ \A b \in 1 .. n : h.comps[b] \in CompRecord
  BY <1>2, ElementOfSeq
<1>4. Lists(left, Members(h, c) \ Range(gone))
  <2>1. Filed(h, c, {})
    BY <1>1
  <2>2. Lists(h.comps[c].verts, Members(h, c))
    BY <2>1 DEF Filed
  <2>. QED
    BY <2>2, SwapOutAllLists
<1>. HIDE DEF left
<1>5. /\ r.of = [v \in Vertices |-> IF v \in Range(gone) THEN 0 ELSE h.of[v]]
      /\ r.comps = [h.comps EXCEPT ![c].verts = left]
      /\ r.created = h.created
      /\ r = [of |-> r.of, comps |-> r.comps, created |-> r.created]
  BY <1>2 DEF WithoutMembers, left
<1>. HIDE DEF n
<1>6. \A b \in 1 .. n : r.comps[b] = IF b = c THEN [verts |-> left, open |-> h.comps[c].open,
                                                    ordered |-> h.comps[c].ordered]
                                     ELSE h.comps[b]
  BY <1>3, <1>5 DEF CompRecord, n
<1>7. left \in Seq(Vertices)
  <2>1. left \in Seq(Members(h, c) \ Range(gone)) /\ Members(h, c) \subseteq Vertices
    BY <1>4 DEF Lists, Members
  <2>. QED
    BY <2>1
<1>8. \A b \in 1 .. n : r.comps[b] \in CompRecord
  <2>1. h.comps[c].open \in BOOLEAN /\ h.comps[c].ordered \in BOOLEAN
    BY <1>3 DEF CompRecord, n
  <2>2. [verts |-> left, open |-> h.comps[c].open, ordered |-> h.comps[c].ordered] \in CompRecord
    BY <1>7, <2>1 DEF CompRecord
  <2>. QED
    BY <1>3, <1>6, <2>2
<1>9. r.comps \in Seq(CompRecord) /\ Len(r.comps) = n
  <2>1. DOMAIN r.comps = 1 .. n /\ r.comps = [b \in 1 .. n |-> r.comps[b]]
    BY <1>3, <1>5
  <2>2. r.comps \in [1 .. n -> CompRecord]
    BY <1>8, <2>1
  <2>. QED
    BY <1>3, <2>2
<1>10. r \in HandleRecord
  <2>1. r.of \in [Vertices -> Nat]
    BY <1>2, <1>5
  <2>. QED
    BY <1>2, <1>5, <1>9, <2>1 DEF HandleRecord
<1>11. \A v \in Vertices : r.of[v] \in 0 .. n
  BY <1>1, <1>3, <1>5
<1>12. Members(r, c) = Members(h, c) \ Range(gone)
  <2>1. c # 0
    BY DEF n
  <2>. QED
    BY <1>5, <2>1 DEF Members
<1>13. ASSUME NEW b \in 1 .. n, b # c PROVE Members(r, b) = Members(h, b)
  <2>1. b # 0 /\ \A v \in Range(gone) : h.of[v] = c
    BY DEF Members
  <2>. QED
    BY <1>5, <1>13, <2>1 DEF Members
<1>14. ASSUME NEW b \in 1 .. n
       PROVE  /\ Filed(r, b, {})
              /\ r.comps[b].ordered => \A u, v \in Members(r, b) : u = v
              /\ r.comps[b].ordered = h.comps[b].ordered /\ r.comps[b].open = h.comps[b].open
  <2>1. CASE b = c
    <3>1. /\ r.comps[b].verts = left /\ r.comps[b].open = h.comps[b].open
          /\ r.comps[b].ordered = h.comps[b].ordered
      BY <1>6, <2>1
    <3>2. h.comps[c].ordered => \A u, v \in Members(h, c) : u = v
      BY <1>1, <2>1
    <3>. QED
      BY <1>4, <1>12, <2>1, <3>1, <3>2 DEF Filed
  <2>2. CASE b # c
    BY <1>1, <1>6, <1>13, <2>2 DEF Filed
  <2>. QED
    BY <2>1, <2>2
<1>15. Held(r)
  BY <1>1, <1>5, <1>9, <1>10, <1>11, <1>14 DEF Held, HeldBut
<1>. QED
  BY <1>5, <1>9, <1>14, <1>15 DEF n

\* A handle is closed or stays open, and may be reported.
Closing(h, c, b, new, r) ==
  /\ Held(h) /\ c \in 1 .. Len(h.comps) /\ b \in BOOLEAN /\ new \in {<<>>, <<c>>}
  /\ r = [h EXCEPT !.comps[c].open = b, !.created = new]

LEMMA HandleShut ==
  ASSUME NEW h, NEW c, NEW b, NEW new, NEW r, Closing(h, c, b, new, r)
  PROVE  Held(r) /\ Len(r.comps) = Len(h.comps) /\ r.of = h.of
<1>. SUFFICES ASSUME Held(h), c \in 1 .. Len(h.comps), b \in BOOLEAN, new \in {<<>>, <<c>>},
                     r = [h EXCEPT !.comps[c].open = b, !.created = new]
              PROVE  Held(r) /\ Len(r.comps) = Len(h.comps) /\ r.of = h.of
  BY DEF Closing
<1>. DEFINE n == Len(h.comps)
<1>1. /\ h \in HandleRecord /\ \A v \in Vertices : h.of[v] \in 0 .. n
      /\ \A d \in 1 .. n : /\ Filed(h, d, {})
                           /\ h.comps[d].ordered => \A u, v \in Members(h, d) : u = v
  BY DEF Held, HeldBut
<1>2. /\ h.of \in [Vertices -> Nat] /\ h.comps \in Seq(CompRecord)
      /\ h = [of |-> h.of, comps |-> h.comps, created |-> h.created]
  BY <1>1 DEF HandleRecord
<1>3. n \in Nat /\ DOMAIN h.comps = 1 .. n /\ \A d \in 1 .. n : h.comps[d] \in CompRecord
  BY <1>2, ElementOfSeq
<1>4. /\ r.of = h.of /\ r.comps = [h.comps EXCEPT ![c].open = b] /\ r.created = new
      /\ r = [of |-> r.of, comps |-> r.comps, created |-> r.created]
  BY <1>2
<1>. HIDE DEF n
<1>5. c \in 1 .. n
  BY DEF n
<1>6. \A d \in 1 .. n : /\ r.comps[d] \in CompRecord
                        /\ r.comps[d].verts = h.comps[d].verts
                        /\ r.comps[d].ordered = h.comps[d].ordered
  <2>1. PICK f, g : f = h.comps /\ g = r.comps
    OBVIOUS
  <2>2. g = [f EXCEPT ![c].open = b] /\ DOMAIN f = 1 .. n /\ \A d \in 1 .. n : f[d] \in CompRecord
    BY <1>3, <1>4, <2>1
  <2>3. ASSUME NEW d \in 1 .. n
        PROVE  g[d] \in CompRecord /\ g[d].verts = f[d].verts /\ g[d].ordered = f[d].ordered
    <3>1. CASE d # c
      <4>1. g[d] = f[d]
        BY ONLY <2>2, <2>3, <3>1
      <4>. QED
        BY <2>2, <4>1
    <3>2. CASE d = c
      <4>1. PICK k : k = f[d]
        OBVIOUS
      <4>2. g[d] = [k EXCEPT !.open = b] /\ k \in CompRecord
        BY ONLY <2>2, <2>3, <3>2, <4>1
      <4>3. b \in BOOLEAN
        OBVIOUS
      <4>. QED
        BY ONLY <4>1, <4>2, <4>3 DEF CompRecord
    <3>. QED
      BY <3>1, <3>2
  <2>. QED
    BY <2>1, <2>3
<1>7. r.comps \in Seq(CompRecord) /\ Len(r.comps) = n
  <2>1. r.comps = [d \in 1 .. n |-> r.comps[d]]
    BY <1>3, <1>4
  <2>2. r.comps \in [1 .. n -> CompRecord]
    BY <1>6, <2>1
  <2>. QED
    BY <1>3, <2>2
<1>8. new \in Seq(Nat) /\ \A i \in 1 .. Len(new) : new[i] \in 1 .. n
  <2>1. CASE new = <<>>
    BY <2>1
  <2>2. CASE new = <<c>>
    BY <1>3, <1>5, <2>2
  <2>. QED
    BY <2>1, <2>2
<1>9. r \in HandleRecord
  BY <1>2, <1>4, <1>7, <1>8 DEF HandleRecord
<1>10. \A d : Members(r, d) = Members(h, d)
  BY <1>4 DEF Members
<1>11. Held(r)
  BY <1>1, <1>4, <1>6, <1>7, <1>8, <1>9, <1>10 DEF Held, HeldBut, Filed
<1>. QED
  BY <1>4, <1>7, <1>11 DEF n

LEMMA HandlesReported ==
  ASSUME NEW h, Held(h), NEW r, r = [of |-> h.of, comps |-> h.comps, created |-> <<>>]
  PROVE  Held(r)
<1>1. h \in HandleRecord
  BY DEF Held, HeldBut
<1>2. r.of = h.of /\ r.comps = h.comps /\ r.created = <<>>
  OBVIOUS
<1>3. r \in HandleRecord
  BY <1>1 DEF HandleRecord
<1>4. \A d : Members(r, d) = Members(h, d)
  BY <1>2 DEF Members
<1>5. Len(r.created) = 0
  BY <1>2
<1>. QED
  BY <1>2, <1>3, <1>4, <1>5 DEF Held, HeldBut, Filed

--------------------------------------------------------------------------------
(* Components, and the walks that find them. *)

LEMMA ComponentClosed ==
  ASSUME NEW E \in SUBSET AllEdges, NEW v \in Vertices
  PROVE  /\ Component(E, v) \subseteq Vertices
         /\ v \in Component(E, v)
         /\ Closed(Component(E, v), E)
<1>1. Component(E, v) \subseteq Vertices /\ v \in Component(E, v)
  BY DEF Component
<1>2. ASSUME NEW e \in E PROVE e[1] \in Component(E, v) <=> e[2] \in Component(E, v)
  BY DEF Component, Closed, AllEdges
<1>. QED
  BY <1>1, <1>2 DEF Closed

LEMMA ComponentSmallest ==
  ASSUME NEW E, NEW v, NEW S \in SUBSET Vertices, v \in S, Closed(S, E)
  PROVE  Component(E, v) \subseteq S
BY DEF Component

LEMMA ComponentSame ==
  ASSUME NEW E \in SUBSET AllEdges, NEW v \in Vertices, NEW u \in Component(E, v)
  PROVE  Component(E, u) = Component(E, v)
<1>1. u \in Vertices
  BY ComponentClosed
<1>2. Component(E, u) \subseteq Component(E, v)
  BY <1>1, ComponentClosed, ComponentSmallest
<1>3. v \in Component(E, u)
  <2>1. SUFFICES ASSUME v \notin Component(E, u) PROVE FALSE
    OBVIOUS
  <2>. DEFINE S == Vertices \ Component(E, u)
  <2>2. Closed(S, E)
    BY <1>1, ComponentClosed DEF Closed, AllEdges
  <2>3. v \in S /\ u \notin S
    BY <1>1, <2>1, ComponentClosed
  <2>. HIDE DEF S
  <2>4. S \in SUBSET Vertices
    BY DEF S
  <2>5. Component(E, v) \subseteq S
    BY <2>2, <2>3, <2>4, ComponentSmallest
  <2>. QED
    BY <2>3, <2>5
<1>4. Component(E, v) \subseteq Component(E, u)
  BY <1>1, <1>3, ComponentClosed, ComponentSmallest
<1>. QED
  BY <1>2, <1>4

LEMMA NeighboursFacts ==
  ASSUME NEW E \in SUBSET AllEdges
  PROVE  /\ \A u, v \in Vertices : u \in Neighbours(E, v) <=> v \in Neighbours(E, u)
         /\ \A v \in Vertices : Neighbours(E, v) \subseteq Vertices /\ v \notin Neighbours(E, v)
         /\ \A S \in SUBSET Vertices : Closed(S, E) <=> \A v \in S : Neighbours(E, v) \subseteq S
<1>1. \A e \in E : e[1] \in Vertices /\ e[2] \in Vertices /\ e = <<e[1], e[2]>> /\ e[1] < e[2]
  BY DEF AllEdges
<1>2. ASSUME NEW S \in SUBSET Vertices
      PROVE  Closed(S, E) <=> \A v \in S : Neighbours(E, v) \subseteq S
  <2>1. ASSUME Closed(S, E), NEW v \in S, NEW u \in Neighbours(E, v) PROVE u \in S
    BY <2>1 DEF Neighbours, Closed
  <2>2. ASSUME \A v \in S : Neighbours(E, v) \subseteq S, NEW e \in E
        PROVE  e[1] \in S <=> e[2] \in S
    <3>1. e[2] \in Neighbours(E, e[1]) /\ e[1] \in Neighbours(E, e[2])
      BY <1>1 DEF Neighbours
    <3>. QED
      BY <2>2, <3>1
  <2>. QED
    BY <2>1, <2>2 DEF Closed
<1>3. \A v \in Vertices : v \notin Neighbours(E, v)
  <2>. SUFFICES ASSUME NEW v \in Vertices, <<v, v>> \in E PROVE FALSE
    BY DEF Neighbours
  <2>1. v < v /\ v \in Nat
    BY <1>1, VerticesAssumption
  <2>. QED
    BY <2>1
<1>. QED
  BY <1>2, <1>3 DEF Neighbours

LEMMA ListLength ==
  ASSUME NEW S, NEW s, Lists(s, S)
  PROVE  IsFiniteSet(S) /\ Cardinality(S) = Len(s)
<1>1. /\ Len(s) \in Nat /\ DOMAIN s = 1 .. Len(s)
      /\ \A x \in S : \E i \in 1 .. Len(s) : s[i] = x
  BY ListFacts
<1>2. s \in [1 .. Len(s) -> S] /\ IsInjective(s)
  BY <1>1 DEF Lists
<1>3. s \in Bijection(1 .. Len(s), S)
  BY <1>1, <1>2 DEF Bijection, Injection, Surjection
<1>4. ExistsBijection(1 .. Len(s), S)
  BY <1>3 DEF ExistsBijection
<1>5. Cardinality(S) = Len(s)
  BY <1>1, <1>4, FS_CountingElements
<1>6. IsFiniteSet(S)
  BY <1>1, <1>4, FS_NatBijection
<1>. QED
  BY <1>5, <1>6

\* The walk reaches the component and nothing else, every vertex once.
LEMMA BreadthFirstLists ==
  ASSUME NEW E \in SUBSET AllEdges, NEW s \in Vertices
  PROVE  Lists(BreadthFirst(E, s), Component(E, s))
<1>. DEFINE n == Cardinality(Vertices)
            C == Component(E, s)
            After(q, k) ==
              /\ Lists(q, Range(q)) /\ Range(q) \subseteq C /\ s \in Range(q)
              /\ \A i \in 1 .. k : i <= Len(q) => Neighbours(E, q[i]) \subseteq Range(q)
            U == [k \in 0 .. n |-> {q \in Seq(Vertices) : After(q, k)}]
            Step(q, k) == IF k > Len(q) THEN q ELSE q \o Ascending(Neighbours(E, q[k]) \ Range(q))
            next == [k \in 1 .. n |-> [q \in U[k - 1] |-> Step(q, k)]]
            Is(f) == f = [k \in 0 .. n |-> IF k = 0 THEN <<s>> ELSE Step(f[k - 1], k)]
            queue[k \in 0 .. n] ==
              IF k = 0 THEN <<s>>
              ELSE LET q == queue[k - 1] IN
                   IF k > Len(q) THEN q ELSE q \o Ascending(Neighbours(E, q[k]) \ Range(q))
<1>1. n \in Nat /\ IsFiniteSet(Vertices)
  BY VerticesAssumption, FS_CardinalityType
<1>2. C \subseteq Vertices /\ s \in C /\ Closed(C, E)
  BY ComponentClosed
<1>. HIDE DEF C
<1>3. <<s>> \in U[0]
  <2>1. <<s>> = [i \in 1 .. 1 |-> s] /\ <<s>> \in Seq(Vertices) /\ Len(<<s>>) = 1
    OBVIOUS
  <2>2. IsInjective(<<s>>) /\ Range(<<s>>) = {s}
    BY DEF IsInjective, Range
  <2>3. Lists(<<s>>, {s})
    BY <2>1, <2>2 DEF Lists
  <2>4. After(<<s>>, 0)
    BY <1>2, <2>2, <2>3
  <2>5. 0 \in 0 .. n
    BY <1>1
  <2>. HIDE DEF After
  <2>. QED
    BY <2>1, <2>4, <2>5
<1>4. ASSUME NEW k \in 1 .. n, NEW q \in U[k - 1] PROVE Step(q, k) \in U[k]
  <2>1. k - 1 \in 0 .. n /\ k \in 0 .. n /\ k \in Nat
    BY <1>1
  <2>2. /\ q \in Seq(Vertices)
        /\ Lists(q, Range(q)) /\ Range(q) \subseteq C /\ s \in Range(q)
        /\ \A i \in 1 .. k - 1 : i <= Len(q) => Neighbours(E, q[i]) \subseteq Range(q)
    BY <1>4, <2>1
  <2>3. U[k] = {p \in Seq(Vertices) : After(p, k)}
    BY <2>1
  <2>. HIDE DEF U
  <2>4. Len(q) \in Nat
    BY <2>2
  <2>5. CASE k > Len(q)
    <3>1. \A i \in 1 .. k : i <= Len(q) => i \in 1 .. k - 1
      BY <2>4, <2>5
    <3>2. After(q, k)
      BY <2>2, <3>1
    <3>. QED
      BY <2>2, <2>3, <2>5, <3>2
  <2>6. CASE ~(k > Len(q))
    <3>. DEFINE N == Neighbours(E, q[k]) \ Range(q)
                t == Ascending(N)
                r == q \o t
    <3>1. k \in 1 .. Len(q)
      BY <2>1, <2>4, <2>6
    <3>2. q[k] \in Range(q) /\ q[k] \in Vertices
      BY <2>2, <3>1 DEF Range
    <3>3. Neighbours(E, q[k]) \subseteq C
      BY <1>2, <2>2, <3>2, NeighboursFacts
    <3>4. N \in SUBSET Vertices
      BY <1>2, <3>3
    <3>5. N \in SUBSET Nat /\ IsFiniteSet(N)
      BY <1>1, <3>4, VerticesAssumption, FS_Subset
    <3>6. Lists(t, N)
      BY <3>5, AscendingLists
    <3>7. N \cap Range(q) = {} /\ Neighbours(E, q[k]) \subseteq Range(q) \cup N
      OBVIOUS
    <3>8. Step(q, k) = r
      BY <2>6
    <3>. HIDE DEF N, t
    <3>9. Lists(r, Range(q) \cup N)
      BY <2>2, <3>6, <3>7, ListJoin
    <3>10. t \in Seq(Vertices)
      BY <3>4, <3>6 DEF Lists
    <3>11. r \in Seq(Vertices) /\ \A i \in 1 .. Len(q) : r[i] = q[i]
      <4>1. \A i \in 1 .. Len(q) : i \in 1 .. Len(q) + Len(t) /\ i <= Len(q)
        BY <2>4, <3>10
      <4>. QED
        BY <2>2, <3>10, <4>1, ConcatProperties
    <3>. HIDE DEF r, Step
    <3>12. Range(r) = Range(q) \cup N
      BY <3>9 DEF Lists
    <3>13. Range(r) \subseteq C /\ s \in Range(r)
      BY <2>2, <3>3, <3>12 DEF N
    <3>14. ASSUME NEW i \in 1 .. k PROVE Neighbours(E, r[i]) \subseteq Range(r)
      <4>1. i \in 1 .. Len(q)
        BY <2>1, <2>4, <3>1
      <4>2. r[i] = q[i]
        BY <3>11, <4>1
      <4>3. CASE i = k
        BY <3>7, <3>12, <4>2, <4>3
      <4>4. CASE i # k
        <5>1. i \in 1 .. k - 1 /\ i <= Len(q)
          BY <2>1, <4>1, <4>4
        <5>. QED
          BY <2>2, <3>12, <4>2, <5>1
      <4>. QED
        BY <4>3, <4>4
    <3>15. After(r, k)
      BY <3>9, <3>12, <3>13, <3>14
    <3>. QED
      BY <2>3, <3>8, <3>11, <3>15
  <2>. QED
    BY <2>5, <2>6
<1>5. queue = CHOOSE f : Is(f)
  OBVIOUS
<1>6. BreadthFirst(E, s) = queue[n]
  BY DEF BreadthFirst
<1>. HIDE DEF U, Step, queue, n
<1>7. \E f : Is(f)
  <2>1. \A k \in 1 .. n : \A q \in U[k - 1] : next[k][q] = Step(q, k)
    OBVIOUS
  <2>. HIDE DEF next
  <2>2. Climbs(n, U, <<s>>, next)
    BY <1>3, <1>4, <2>1 DEF Climbs
  <2>3. PICK f : Iterate(f, n, U, <<s>>, next)
    BY <1>1, <2>2, Iterates
  <2>4. \A k \in 0 .. n : k # 0 => next[k][f[k - 1]] = Step(f[k - 1], k)
    <3>1. \A k \in 0 .. n : k # 0 => k \in 1 .. n /\ k - 1 \in 0 .. n
      BY <1>1
    <3>. QED
      BY <2>1, <2>3, <3>1 DEF Iterate
  <2>5. f = [k \in 0 .. n |-> IF k = 0 THEN <<s>> ELSE Step(f[k - 1], k)]
    BY <2>3, <2>4 DEF Iterate
  <2>. QED
    BY <2>5
<1>. HIDE DEF Is
<1>8. Is(queue)
  BY <1>5, <1>7
<1>. USE DEF Is
<1>9. queue[0] = <<s>> /\ \A k \in 1 .. n : queue[k] = Step(queue[k - 1], k)
  BY <1>1, <1>8
<1>. HIDE DEF Is
<1>10. queue[n] \in U[n]
  <2>. DEFINE Good == {k \in 0 .. n : queue[k] \in U[k]}
  <2>1. 0 \in Good /\ \A k \in 1 .. n : k - 1 \in Good => k \in Good
    BY <1>1, <1>3, <1>4, <1>9
  <2>. HIDE DEF Good
  <2>2. \A k \in 0 .. n : k \in Good
    BY <1>1, <2>1, Upward
  <2>. QED
    BY <1>1, <2>2 DEF Good
<1>11. PICK q : q = queue[n]
  OBVIOUS
<1>12. /\ Lists(q, Range(q)) /\ Range(q) \subseteq C /\ s \in Range(q)
       /\ \A i \in 1 .. n : i <= Len(q) => Neighbours(E, q[i]) \subseteq Range(q)
  BY <1>1, <1>10, <1>11 DEF U
<1>13. Len(q) <= n /\ Len(q) \in Nat /\ DOMAIN q = 1 .. Len(q)
  <2>1. Range(q) \in SUBSET Vertices
    BY <1>2, <1>12
  <2>2. Cardinality(Range(q)) <= n
    BY <1>1, <2>1, FS_Subset DEF n
  <2>3. Cardinality(Range(q)) = Len(q)
    BY <1>12, ListLength
  <2>. QED
    BY <1>12, <2>2, <2>3, ListFacts
<1>14. ASSUME NEW v \in Range(q) PROVE Neighbours(E, v) \subseteq Range(q)
  <2>1. PICK i \in 1 .. Len(q) : v = q[i]
    BY <1>13 DEF Range
  <2>2. i \in 1 .. n /\ i <= Len(q)
    BY <1>1, <1>13
  <2>. QED
    BY <1>12, <2>1, <2>2
<1>15. Range(q) \in SUBSET Vertices
  BY <1>2, <1>12
<1>16. Closed(Range(q), E)
  BY <1>14, <1>15, NeighboursFacts
<1>17. C \subseteq Range(q)
  BY <1>12, <1>15, <1>16, ComponentSmallest DEF C
<1>18. Lists(q, C)
  <2>1. Range(q) = C
    BY <1>12, <1>17
  <2>. QED
    BY <1>12, <2>1
<1>. QED
  BY <1>6, <1>11, <1>18 DEF C

--------------------------------------------------------------------------------
(****************************************************************************)
(* Groups: the vertices of S sorted into groups no edge leaves.             *)
(****************************************************************************)
Groups(groups, S, E) ==
  /\ Len(groups) \in Nat
  /\ \A k \in 1 .. Len(groups) : /\ Lists(groups[k], Range(groups[k]))
                                 /\ Range(groups[k]) \subseteq S
                                 /\ Closed(Range(groups[k]), E)
  /\ \A v \in S : \E k \in 1 .. Len(groups) : v \in Range(groups[k])
  /\ Disjoint(groups)

\* A walk from the least vertex of every component.
LEMMA AllComponentsGroup ==
  ASSUME NEW E \in SUBSET AllEdges
  PROVE  Groups(AllComponents(E), Vertices, E)
<1>. DEFINE first == {v \in Vertices : \A u \in Component(E, v) : v <= u}
            m == Cardinality(first)
            s == Ascending(first)
            g == AllComponents(E)
<1>1. IsFiniteSet(first) /\ first \in SUBSET Nat /\ first \in SUBSET Vertices
  BY VerticesAssumption, FS_Subset
<1>2. Lists(s, first) /\ Len(s) = m /\ m \in Nat
  BY <1>1, AscendingLists, FS_CardinalityType
<1>3. g = [i \in 1 .. m |-> BreadthFirst(E, s[i])]
  BY DEF AllComponents
<1>4. \A v \in first : v \in Vertices /\ v \in Nat /\ \A u \in Component(E, v) : v <= u
  BY <1>1
<1>. HIDE DEF first, m, s, g
<1>5. /\ \A i \in 1 .. m : s[i] \in first
      /\ \A x \in first : \E i \in 1 .. m : s[i] = x
      /\ \A i, j \in 1 .. m : s[i] = s[j] => i = j
  BY <1>2, ListFacts
<1>6. Len(g) = m
  BY <1>2, <1>3
<1>7. ASSUME NEW i \in 1 .. m
      PROVE  /\ Lists(g[i], Component(E, s[i])) /\ Range(g[i]) = Component(E, s[i])
             /\ s[i] \in Vertices /\ s[i] \in first
  <2>1. s[i] \in Vertices
    BY <1>4, <1>5
  <2>2. Lists(g[i], Component(E, s[i]))
    BY <1>3, <2>1, BreadthFirstLists
  <2>. QED
    BY <1>5, <2>1, <2>2 DEF Lists
<1>8. ASSUME NEW v \in Vertices PROVE \E k \in 1 .. m : v \in Range(g[k])
  <2>1. Component(E, v) \subseteq Nat /\ v \in Component(E, v)
    BY ComponentClosed, VerticesAssumption
  <2>2. PICK u \in Component(E, v) : \A w \in Component(E, v) : u <= w
    BY <2>1, LeastNatural
  <2>3. Component(E, u) = Component(E, v) /\ u \in Vertices
    BY <2>2, ComponentSame, ComponentClosed
  <2>4. u \in first
    BY <2>2, <2>3 DEF first
  <2>5. PICK k \in 1 .. m : s[k] = u
    BY <1>5, <2>4
  <2>. QED
    BY <1>7, <2>1, <2>3, <2>5
<1>9. ASSUME NEW j \in 1 .. m, NEW k \in 1 .. m, Range(g[j]) \cap Range(g[k]) # {} PROVE j = k
  <2>1. PICK v : v \in Component(E, s[j]) /\ v \in Component(E, s[k])
    BY <1>7, <1>9
  <2>2. Component(E, s[j]) = Component(E, s[k])
    BY <1>7, <2>1, ComponentSame
  <2>3. s[j] \in Component(E, s[j]) /\ s[k] \in Component(E, s[k])
    BY <1>7, ComponentClosed
  <2>4. s[j] <= s[k] /\ s[k] <= s[j] /\ s[j] \in Nat /\ s[k] \in Nat
    BY <1>4, <1>7, <2>2, <2>3
  <2>5. s[j] = s[k]
    BY <2>4
  <2>. QED
    BY <1>5, <2>5
<1>10. Disjoint(g)
  BY <1>6, <1>9 DEF Disjoint
<1>11. \A k \in 1 .. m : /\ Lists(g[k], Range(g[k])) /\ Range(g[k]) \subseteq Vertices
                         /\ Closed(Range(g[k]), E)
  BY <1>7, ComponentClosed
<1>12. Groups(g, Vertices, E)
  BY <1>2, <1>6, <1>8, <1>10, <1>11 DEF Groups
<1>. QED
  BY <1>12 DEF g

\* Handles for the groups: the ends of an edge get the same one.
GroupsGetHandles(h, S, E, groups, ordered, r) ==
  /\ HeldBut(h, S) /\ S \in SUBSET Vertices /\ E \in SUBSET AllEdges
  /\ Groups(groups, S, E)
  /\ ordered \in BOOLEAN /\ (ordered => \A k \in 1 .. Len(groups) : OneAtMost(Range(groups[k])))
  /\ \A e \in E : e[1] \notin S /\ e[2] \notin S => h.of[e[1]] = h.of[e[2]]
  /\ r = AssignEach(h, groups, ordered)

LEMMA GroupsAssigned ==
  ASSUME NEW h, NEW S, NEW E, NEW groups, NEW ordered, NEW r,
         GroupsGetHandles(h, S, E, groups, ordered, r)
  PROVE  /\ Held(r)
         /\ \A v \in S : r.of[v] # 0
         /\ \A v \in Vertices \ S : r.of[v] = h.of[v]
         /\ \A e \in E : r.of[e[1]] = r.of[e[2]]
<1>. DEFINE n == Len(groups)
            L == Len(h.comps)
            G(k) == Range(groups[k])
<1>1. /\ HeldBut(h, S) /\ S \in SUBSET Vertices /\ E \in SUBSET AllEdges
      /\ ordered \in BOOLEAN
      /\ \A e \in E : e[1] \notin S /\ e[2] \notin S => h.of[e[1]] = h.of[e[2]]
      /\ r = AssignEach(h, groups, ordered)
  BY DEF GroupsGetHandles
<1>2. /\ n \in Nat /\ Disjoint(groups)
      /\ \A k \in 1 .. n : Lists(groups[k], G(k)) /\ G(k) \subseteq S /\ Closed(G(k), E)
      /\ \A v \in S : \E k \in 1 .. n : v \in G(k)
  BY DEF GroupsGetHandles, Groups
<1>3. ordered => \A k \in 1 .. n : OneAtMost(G(k))
  BY DEF GroupsGetHandles
<1>4. \A k \in 1 .. n :
        /\ Lists(groups[k], G(k)) /\ G(k) \subseteq Vertices /\ G(k) \subseteq S
        /\ ordered => OneAtMost(G(k))
  BY <1>1, <1>2, <1>3
<1>5. /\ HeldBut(r, S \ UNION {G(k) : k \in 1 .. n})
      /\ Len(r.comps) = L + n
      /\ \A k \in 1 .. n : \A v \in G(k) : r.of[v] = L + k
      /\ \A v \in Vertices : (\A k \in 1 .. n : v \notin G(k)) => r.of[v] = h.of[v]
  <2>1. AllGetHandles(h, S, groups, ordered, r)
    BY ONLY <1>1, <1>2, <1>4 DEF AllGetHandles
  <2>2. AllHaveHandles(h, S, groups, r)
    BY ONLY <2>1, AssignAll
  <2>. QED
    BY ONLY <2>2 DEF AllHaveHandles
<1>6. L \in Nat
  BY <1>1 DEF HeldBut, HandleRecord
<1>. HIDE DEF G, n, L
<1>7. S \ UNION {G(k) : k \in 1 .. n} = {}
  BY <1>2
<1>8. Held(r)
  BY <1>5, <1>7 DEF Held
<1>9. \A v \in S : r.of[v] # 0
  <2>1. ASSUME NEW v \in S PROVE r.of[v] # 0
    <3>1. PICK k \in 1 .. n : v \in G(k)
      BY <1>2
    <3>2. r.of[v] = L + k
      BY <1>5, <3>1
    <3>. QED
      BY <1>2, <1>6, <3>2
  <2>. QED
    BY <2>1
<1>10. \A v \in Vertices \ S : r.of[v] = h.of[v]
  BY <1>2, <1>5
<1>11. ASSUME NEW e \in E PROVE r.of[e[1]] = r.of[e[2]]
  <2>1. e[1] \in Vertices /\ e[2] \in Vertices
    BY <1>1 DEF AllEdges
  <2>2. \A k \in 1 .. n : e[1] \in G(k) <=> e[2] \in G(k)
    BY <1>2 DEF Closed
  <2>3. CASE \E k \in 1 .. n : e[1] \in G(k)
    <3>1. PICK k \in 1 .. n : e[1] \in G(k)
      BY <2>3
    <3>2. e[2] \in G(k)
      BY <2>2, <3>1
    <3>. QED
      BY <1>5, <3>1, <3>2
  <2>4. CASE \A k \in 1 .. n : e[1] \notin G(k)
    <3>1. \A k \in 1 .. n : e[2] \notin G(k)
      BY <2>2, <2>4
    <3>2. e[1] \notin S /\ e[2] \notin S
      BY <1>2, <2>4, <3>1
    <3>3. r.of[e[1]] = h.of[e[1]] /\ r.of[e[2]] = h.of[e[2]]
      BY <1>5, <2>1, <2>4, <3>1
    <3>. QED
      BY <1>1, <3>2, <3>3
  <2>. QED
    BY <2>3, <2>4
<1>. QED
  BY <1>8, <1>9, <1>10, <1>11

--------------------------------------------------------------------------------
(* The search. *)

LEMMA MinFacts ==
  ASSUME NEW S, S \subseteq Nat, S # {}
  PROVE  Min(S) \in S /\ \A y \in S : Min(S) <= y
<1>1. PICK n \in S : \A m \in S : n <= m
  BY LeastNatural
<1>. QED
  BY <1>1 DEF Min

LEMMA FrontList ==
  ASSUME NEW S, NEW s, Lists(s, S), s # <<>>
  PROVE  /\ Lists(Front(s), S \ {Last(s)}) /\ Len(Front(s)) = Len(s) - 1 /\ Len(s) \in Nat \ {0}
         /\ Last(s) \in S
         /\ \A i \in 1 .. Len(s) - 1 : Front(s)[i] = s[i]
<1>. DEFINE n == Len(s)
            r == Front(s)
<1>1. /\ n \in Nat /\ DOMAIN s = 1 .. n
      /\ \A i \in 1 .. n : s[i] \in S
      /\ \A y \in S : \E i \in 1 .. n : s[i] = y
      /\ \A i, j \in 1 .. n : s[i] = s[j] => i = j
  BY ListFacts
<1>2. s \in Seq(S)
  BY DEF Lists
<1>3. n # 0
  BY <1>2
<1>4. r = SubSeq(s, 1, n - 1) /\ Last(s) = s[n]
  BY DEF Front, Last
<1>. HIDE DEF n, r
<1>5. n - 1 \in Nat /\ n \in 1 .. n
  BY <1>1, <1>3
<1>6. /\ r \in Seq(S) /\ Len(r) = n - 1
      /\ \A i \in 1 .. n - 1 : r[i] = s[i]
  <2>1. \A i \in 1 .. n - 1 : s[i] \in S
    BY <1>1, <1>5
  <2>2. /\ SubSeq(s, 1, n - 1) \in Seq(S)
        /\ Len(SubSeq(s, 1, n - 1)) = IF 1 <= n - 1 THEN n - 1 - 1 + 1 ELSE 0
        /\ \A i \in 1 .. n - 1 - 1 + 1 : SubSeq(s, 1, n - 1)[i] = s[1 + i - 1]
    BY <1>5, <2>1, SubSeqProperties
  <2>3. n - 1 - 1 + 1 = n - 1 /\ \A i \in 1 .. n - 1 : 1 + i - 1 = i
    BY <1>5
  <2>. QED
    BY <1>4, <1>5, <2>2, <2>3
<1>7. r = [i \in 1 .. n - 1 |-> r[i]]
  BY <1>6, SeqIsFunction
<1>8. \A i \in 1 .. n - 1 : i \in 1 .. n /\ i # n /\ r[i] = s[i]
  BY <1>5, <1>6
<1>9. \A i \in 1 .. n - 1 : r[i] \in S \ {s[n]}
  BY <1>1, <1>5, <1>8
<1>10. \A y \in S \ {s[n]} : \E i \in 1 .. n - 1 : r[i] = y
  <2>1. ASSUME NEW y \in S \ {s[n]} PROVE \E i \in 1 .. n - 1 : r[i] = y
    <3>1. PICK i \in 1 .. n : s[i] = y
      BY <1>1
    <3>2. i # n
      BY <3>1
    <3>3. i \in 1 .. n - 1
      BY <1>1, <3>2
    <3>. QED
      BY <1>6, <3>1, <3>3
  <2>. QED
    BY <2>1
<1>11. \A i, j \in 1 .. n - 1 : r[i] = r[j] => i = j
  BY <1>1, <1>8
<1>12. Lists(r, S \ {s[n]})
  BY <1>5, <1>7, <1>9, <1>10, <1>11, ListMade
<1>. QED
  BY <1>1, <1>3, <1>4, <1>5, <1>6, <1>12 DEF n, r

(****************************************************************************)
(* The walk.  What is over at a vertex is over in the stretch of times      *)
(* between its entry and its exit, and every vertex hangs from the nearest  *)
(* one whose stretch its entry falls in.                                    *)
(****************************************************************************)
Graph(V, adj) ==
  /\ V \subseteq Nat /\ IsFiniteSet(V)
  /\ adj \in [V -> SUBSET V]
  /\ \A u, v \in V : u \in adj[v] <=> v \in adj[u]
  /\ \A v \in V : v \notin adj[v]

Met(w) == DOMAIN w.tin
Gone(w) == DOMAIN w.tout

\* v was entered after u and before u was left.
Under(w, u, v) == w.tin[u] <= w.tin[v] /\ (u \in Gone(w) => w.tin[v] <= w.tout[u])

WalkTyped(w, V) ==
  /\ w = [path |-> w.path, tin |-> w.tin, tout |-> w.tout, par |-> w.par, root |-> w.root]
  /\ Met(w) \subseteq V /\ Gone(w) \subseteq Met(w)
  /\ w.tin \in [Met(w) -> 1 .. Cardinality(Met(w))]
  /\ w.tout \in [Gone(w) -> 1 .. Cardinality(Met(w))]
  /\ w.par \in [Met(w) -> Met(w)] /\ w.root \in [Met(w) -> Met(w)]

OnPath(w) ==
  /\ Lists(w.path, Met(w) \ Gone(w))
  /\ \A i, j \in 1 .. Len(w.path) : i < j => w.tin[w.path[i]] < w.tin[w.path[j]]

OneTime(w) == \A u, v \in Met(w) : w.tin[u] = w.tin[v] => u = v

Nested(w) ==
  /\ \A u \in Gone(w) : w.tin[u] <= w.tout[u]
  /\ \A u \in Gone(w) : \A v \in Met(w) :
       w.tin[u] <= w.tin[v] /\ w.tin[v] <= w.tout[u] => v \in Gone(w) /\ w.tout[v] <= w.tout[u]

Looked(w, adj) == \A u \in Gone(w) : \A y \in adj[u] : y \in Met(w) /\ w.tin[y] <= w.tout[u]

Hangs(w) ==
  \A u, v \in Met(w) :
    Under(w, u, v) => w.root[u] = w.root[v] /\ (u # v => w.par[v] # v /\ Under(w, u, w.par[v]))

Rooted(w, adj) ==
  /\ \A v \in Met(w) : w.par[v] # v =>
       w.par[v] \in adj[v] /\ w.tin[w.par[v]] < w.tin[v] /\ Under(w, w.par[v], v)
  /\ \A v \in Met(w) : w.par[w.root[v]] = w.root[v] /\ Under(w, w.root[v], v)

Walk(w, V, adj) ==
  /\ WalkTyped(w, V) /\ OnPath(w) /\ OneTime(w) /\ Nested(w)
  /\ Looked(w, adj) /\ Hangs(w) /\ Rooted(w, adj)

LEMMA MetCount ==
  ASSUME NEW V, IsFiniteSet(V), NEW w, WalkTyped(w, V)
  PROVE  /\ IsFiniteSet(Met(w)) /\ Cardinality(Met(w)) \in Nat
         /\ Cardinality(Met(w)) <= Cardinality(V)
         /\ IsFiniteSet(Gone(w)) /\ Cardinality(Gone(w)) \in Nat
         /\ Cardinality(Gone(w)) <= Cardinality(Met(w))
         /\ \A u \in Met(w) : w.tin[u] \in Nat /\ w.tin[u] <= Cardinality(Met(w)) /\ w.tin[u] >= 1
         /\ \A u \in Gone(w) : u \in Met(w) /\ w.tout[u] \in Nat
                               /\ w.tout[u] <= Cardinality(Met(w))
<1>1. Met(w) \in SUBSET V /\ Gone(w) \in SUBSET Met(w)
  BY DEF WalkTyped
<1>2. IsFiniteSet(Met(w)) /\ Cardinality(Met(w)) <= Cardinality(V)
  BY <1>1, FS_Subset
<1>3. IsFiniteSet(Gone(w)) /\ Cardinality(Gone(w)) <= Cardinality(Met(w))
  BY <1>1, <1>2, FS_Subset
<1>4. Cardinality(Met(w)) \in Nat /\ Cardinality(Gone(w)) \in Nat
  BY <1>2, <1>3, FS_CardinalityType
<1>5. \A u \in Met(w) : w.tin[u] \in 1 .. Cardinality(Met(w))
  BY DEF WalkTyped
<1>6. \A u \in Gone(w) : w.tout[u] \in 1 .. Cardinality(Met(w))
  BY DEF WalkTyped
<1>. QED
  BY <1>1, <1>2, <1>3, <1>4, <1>5, <1>6

\* Below the last vertex of the path is everything that is not over.
LEMMA PathTop ==
  ASSUME NEW w, NEW V, IsFiniteSet(V), WalkTyped(w, V), OnPath(w), OneTime(w), w.path # <<>>
  PROVE  /\ Last(w.path) \in Met(w) \ Gone(w)
         /\ \A a \in Met(w) \ Gone(w) : w.tin[a] <= w.tin[Last(w.path)]
<1>. DEFINE p == w.path
            n == Len(p)
<1>1. /\ n \in Nat
      /\ \A i \in 1 .. n : p[i] \in Met(w) \ Gone(w)
      /\ \A x \in Met(w) \ Gone(w) : \E i \in 1 .. n : p[i] = x
  BY ListFacts DEF OnPath
<1>2. Lists(p, Met(w) \ Gone(w))
  BY DEF OnPath
<1>3. n # 0 /\ Last(p) = p[n]
  <2>1. p \in Seq(Met(w) \ Gone(w))
    BY <1>2 DEF Lists
  <2>. QED
    BY <2>1 DEF Last
<1>4. \A i, j \in 1 .. n : i < j => w.tin[p[i]] < w.tin[p[j]]
  BY DEF OnPath
<1>5. \A u \in Met(w) : w.tin[u] \in Nat
  BY MetCount
<1>. HIDE DEF p, n
<1>6. n \in 1 .. n
  BY <1>1, <1>3
<1>7. ASSUME NEW a \in Met(w) \ Gone(w) PROVE w.tin[a] <= w.tin[p[n]]
  <2>1. PICK i \in 1 .. n : p[i] = a
    BY <1>1
  <2>2. p[n] \in Met(w)
    BY <1>1, <1>6
  <2>3. i = n \/ i < n
    BY <1>1
  <2>4. i < n => w.tin[a] < w.tin[p[n]]
    BY <1>4, <1>6, <2>1
  <2>. QED
    BY <1>5, <2>1, <2>2, <2>3, <2>4
<1>. QED
  BY <1>1, <1>3, <1>6, <1>7 DEF p

LEMMA EnterFacts ==
  ASSUME NEW V, IsFiniteSet(V), NEW w, WalkTyped(w, V), NEW v \in V \ Met(w),
         NEW p, NEW q, NEW r, r = Enter(w, v, p, q)
  PROVE  /\ r = [path |-> r.path, tin |-> r.tin, tout |-> r.tout, par |-> r.par, root |-> r.root]
         /\ r.path = Append(w.path, v)
         /\ Met(r) = Met(w) \cup {v} /\ r.tout = w.tout /\ Gone(r) = Gone(w)
         /\ IsFiniteSet(Met(r)) /\ Cardinality(Met(r)) = Cardinality(Met(w)) + 1
         /\ r.tin[v] = Cardinality(Met(w)) + 1 /\ r.par[v] = p /\ r.root[v] = q
         /\ \A u \in Met(w) : /\ u # v /\ r.tin[u] = w.tin[u]
                              /\ r.par[u] = w.par[u] /\ r.root[u] = w.root[u]
         /\ r.tin = [u \in Met(r) |-> r.tin[u]] /\ r.par = [u \in Met(r) |-> r.par[u]]
         /\ r.root = [u \in Met(r) |-> r.root[u]]
<1>1. /\ w = [path |-> w.path, tin |-> w.tin, tout |-> w.tout, par |-> w.par, root |-> w.root]
      /\ DOMAIN w.tin = Met(w) /\ DOMAIN w.par = Met(w) /\ DOMAIN w.root = Met(w)
  BY DEF WalkTyped, Met
<1>2. IsFiniteSet(Met(w)) /\ Cardinality(Met(w)) \in Nat
  BY MetCount
<1>3. /\ r.path = Append(w.path, v)
      /\ r.tin = With(w.tin, v, Cardinality(Met(w)) + 1)
      /\ r.par = With(w.par, v, p) /\ r.root = With(w.root, v, q)
      /\ r.tout = w.tout
      /\ r = [path |-> r.path, tin |-> r.tin, tout |-> r.tout, par |-> r.par, root |-> r.root]
  BY <1>1 DEF Enter, Met
<1>4. /\ r.tin = [u \in Met(w) \cup {v} |-> IF u = v THEN Cardinality(Met(w)) + 1 ELSE w.tin[u]]
      /\ r.par = [u \in Met(w) \cup {v} |-> IF u = v THEN p ELSE w.par[u]]
      /\ r.root = [u \in Met(w) \cup {v} |-> IF u = v THEN q ELSE w.root[u]]
  BY <1>1, <1>3 DEF With
<1>5. Met(r) = Met(w) \cup {v} /\ Gone(r) = Gone(w)
  BY <1>3, <1>4 DEF Met, Gone
<1>6. IsFiniteSet(Met(w) \cup {v}) /\ Cardinality(Met(w) \cup {v}) = Cardinality(Met(w)) + 1
  BY <1>2, FS_AddElement
<1>. HIDE DEF Met, Gone
<1>. QED
  BY <1>3, <1>4, <1>5, <1>6

\* Entering v, either as a tree's root with nothing on the path, or below the last vertex.
EnteredAt(w, v, p, q, V, adj) ==
  /\ v \in V \ Met(w)
  /\ \/ w.path = <<>> /\ p = v /\ q = v
     \/ w.path # <<>> /\ p = Last(w.path) /\ v \in adj[p] /\ q = w.root[p]

LEMMA EnterKeeps ==
  ASSUME NEW V, NEW adj, Graph(V, adj), NEW w, Walk(w, V, adj), NEW v, NEW p, NEW q,
         EnteredAt(w, v, p, q, V, adj), NEW r, r = Enter(w, v, p, q)
  PROVE  /\ Walk(r, V, adj)
         /\ Cardinality(Met(r)) = Cardinality(Met(w)) + 1 /\ Gone(r) = Gone(w)
<1>. DEFINE s == Cardinality(Met(w))
<1>1. /\ IsFiniteSet(V) /\ WalkTyped(w, V) /\ v \in V /\ v \notin Met(w)
      /\ OnPath(w) /\ OneTime(w)
  BY DEF Walk, EnteredAt, Graph
<1>2. /\ s \in Nat /\ \A u \in Met(w) : w.tin[u] \in Nat /\ w.tin[u] <= s /\ w.tin[u] >= 1
      /\ \A u \in Gone(w) : u \in Met(w) /\ w.tout[u] \in Nat /\ w.tout[u] <= s
  BY <1>1, MetCount
<1>3. /\ r = [path |-> r.path, tin |-> r.tin, tout |-> r.tout, par |-> r.par, root |-> r.root]
      /\ r.path = Append(w.path, v)
      /\ Met(r) = Met(w) \cup {v} /\ r.tout = w.tout /\ Gone(r) = Gone(w)
      /\ Cardinality(Met(r)) = s + 1
      /\ r.tin[v] = s + 1 /\ r.par[v] = p /\ r.root[v] = q
      /\ \A u \in Met(w) : /\ u # v /\ r.tin[u] = w.tin[u]
                           /\ r.par[u] = w.par[u] /\ r.root[u] = w.root[u]
      /\ r.tin = [u \in Met(r) |-> r.tin[u]] /\ r.par = [u \in Met(r) |-> r.par[u]]
      /\ r.root = [u \in Met(r) |-> r.root[u]]
  BY <1>1, EnterFacts
<1>. HIDE DEF s
<1>4. /\ Met(w) \subseteq V /\ Gone(w) \subseteq Met(w)
      /\ \A u \in Met(w) : w.tin[u] \in 1 .. s /\ w.par[u] \in Met(w) /\ w.root[u] \in Met(w)
      /\ w.tout \in [Gone(w) -> 1 .. s]
  BY <1>1 DEF WalkTyped, s
<1>5. p \in Met(r) /\ q \in Met(r)
  <2>1. CASE w.path = <<>>
    BY <1>3, <2>1 DEF EnteredAt
  <2>2. CASE w.path # <<>>
    <3>1. p \in Met(w) /\ q = w.root[p]
      BY <1>1, <2>2, PathTop DEF EnteredAt
    <3>. QED
      BY <1>3, <1>4, <3>1
  <2>. QED
    BY <2>1, <2>2
<1>6. WalkTyped(r, V)
  <2>1. Met(r) \subseteq V /\ Gone(r) \subseteq Met(r)
    BY <1>1, <1>3, <1>4
  <2>2. \A u \in Met(r) : r.tin[u] \in 1 .. s + 1
    BY <1>2, <1>3, <1>4
  <2>3. \A u \in Met(r) : r.par[u] \in Met(r) /\ r.root[u] \in Met(r)
    BY <1>3, <1>4, <1>5
  <2>4. r.tout \in [Gone(r) -> 1 .. s + 1]
    <3>1. \A k \in 1 .. s : k \in 1 .. s + 1
      BY <1>2
    <3>. QED
      BY <1>3, <1>4, <3>1
  <2>5. r.tin \in [Met(r) -> 1 .. s + 1] /\ r.par \in [Met(r) -> Met(r)] /\ r.root \in [Met(r) -> Met(r)]
    <3>1. PICK M, D : M = Met(r) /\ D = 1 .. s + 1
      OBVIOUS
    <3>2. /\ r.tin = [u \in M |-> r.tin[u]] /\ r.par = [u \in M |-> r.par[u]]
          /\ r.root = [u \in M |-> r.root[u]]
      BY <1>3, <3>1
    <3>3. \A u \in M : r.tin[u] \in D /\ r.par[u] \in M /\ r.root[u] \in M
      BY <2>2, <2>3, <3>1
    <3>4. r.tin \in [M -> D]
      BY ONLY <3>2, <3>3
    <3>5. r.par \in [M -> M]
      BY ONLY <3>2, <3>3
    <3>6. r.root \in [M -> M]
      BY ONLY <3>2, <3>3
    <3>. QED
      BY ONLY <3>1, <3>4, <3>5, <3>6
  <2>. QED
    BY <1>3, <2>1, <2>4, <2>5 DEF WalkTyped
<1>7. OnPath(r)
  <2>. DEFINE a == w.path
              n == Len(a)
              b == r.path
  <2>1. Lists(a, Met(w) \ Gone(w))
    BY <1>1 DEF OnPath
  <2>2. Lists(b, (Met(w) \ Gone(w)) \cup {v})
    BY <1>1, <1>3, <2>1, ListAppend
  <2>3. (Met(w) \ Gone(w)) \cup {v} = Met(r) \ Gone(r)
    BY <1>1, <1>3, <1>4
  <2>4. n \in Nat /\ \A i \in 1 .. n : a[i] \in Met(w)
    BY <2>1, ListFacts
  <2>5. Len(b) = n + 1 /\ b[n + 1] = v /\ \A i \in 1 .. n : b[i] = a[i]
    BY <1>3, <2>1, AppendProperties DEF Lists
  <2>6. \A i, j \in 1 .. n : i < j => w.tin[a[i]] < w.tin[a[j]]
    BY <1>1 DEF OnPath
  <2>. HIDE DEF a, n, b
  <2>7. ASSUME NEW i \in 1 .. n + 1, NEW j \in 1 .. n + 1, i < j
        PROVE  r.tin[b[i]] < r.tin[b[j]]
    <3>1. i \in 1 .. n
      BY <2>4, <2>7
    <3>2. b[i] = a[i] /\ a[i] \in Met(w) /\ r.tin[b[i]] = w.tin[a[i]]
      BY <1>3, <2>4, <2>5, <3>1
    <3>3. CASE j = n + 1
      <4>1. r.tin[b[j]] = s + 1
        BY <1>3, <2>5, <3>3
      <4>. QED
        BY <1>2, <3>2, <4>1
    <3>4. CASE j # n + 1
      <4>1. j \in 1 .. n
        BY <2>4, <3>4
      <4>2. r.tin[b[j]] = w.tin[a[j]]
        BY <1>3, <2>4, <2>5, <4>1
      <4>. QED
        BY <2>6, <2>7, <3>1, <3>2, <4>1, <4>2
    <3>. QED
      BY <3>3, <3>4
  <2>8. Lists(b, Met(r) \ Gone(r))
    BY <2>2, <2>3
  <2>. QED
    BY <2>5, <2>7, <2>8 DEF OnPath, b
<1>8. OneTime(r)
  <2>1. \A u \in Met(w) : r.tin[u] # r.tin[v]
    BY <1>2, <1>3
  <2>. QED
    BY <1>1, <1>3, <2>1 DEF OneTime
<1>9. \A u \in Gone(w) : u \in Met(w) /\ r.tout[u] = w.tout[u] /\ r.tin[u] = w.tin[u]
                         /\ ~(r.tin[v] <= r.tout[u])
  BY <1>2, <1>3
<1>10. Nested(r)
  <2>1. Nested(w)
    BY DEF Walk
  <2>2. ASSUME NEW u \in Gone(r) PROVE r.tin[u] <= r.tout[u]
    <3>1. u \in Gone(w) /\ w.tin[u] <= w.tout[u]
      BY <1>3, <2>1 DEF Nested
    <3>. QED
      BY <1>9, <3>1
  <2>3. ASSUME NEW u \in Gone(r), NEW y \in Met(r), r.tin[u] <= r.tin[y], r.tin[y] <= r.tout[u]
        PROVE  y \in Gone(r) /\ r.tout[y] <= r.tout[u]
    <3>1. u \in Gone(w) /\ r.tout[u] = w.tout[u] /\ r.tin[u] = w.tin[u] /\ ~(r.tin[v] <= r.tout[u])
      BY <1>3, <1>9
    <3>2. y # v /\ y \in Met(w)
      BY <1>3, <2>3, <3>1
    <3>3. r.tin[y] = w.tin[y]
      BY <1>3, <3>2
    <3>4. w.tin[u] <= w.tin[y] /\ w.tin[y] <= w.tout[u]
      BY ONLY <2>3, <3>1, <3>3
    <3>5. y \in Gone(w) /\ w.tout[y] <= w.tout[u]
      BY <2>1, <3>1, <3>2, <3>4 DEF Nested
    <3>. QED
      BY <1>3, <3>1, <3>5
  <2>. QED
    BY <2>2, <2>3 DEF Nested
<1>11. Looked(r, adj)
  <2>1. Looked(w, adj)
    BY DEF Walk
  <2>. QED
    BY <1>3, <1>9, <2>1 DEF Looked
<1>12. ASSUME NEW u \in Met(w), NEW x \in Met(w) PROVE Under(r, u, x) <=> Under(w, u, x)
  BY <1>3 DEF Under
<1>13. ASSUME NEW u \in Met(w) PROVE ~Under(r, v, u)
  BY <1>2, <1>3 DEF Under
<1>14. ASSUME NEW u \in Met(w), Under(r, u, v) PROVE u \notin Gone(w)
  BY <1>3, <1>9, <1>14 DEF Under
<1>15. Hangs(w) /\ Rooted(w, adj)
  BY DEF Walk
<1>16. ASSUME NEW u \in Met(w), Under(r, u, v)
       PROVE  r.root[u] = r.root[v] /\ r.par[v] # v /\ Under(r, u, r.par[v])
  <2>1. u \in Met(w) \ Gone(w)
    BY <1>14, <1>16
  <2>2. w.path # <<>>
    <3>1. Lists(w.path, Met(w) \ Gone(w))
      BY <1>1 DEF OnPath
    <3>. QED
      BY <2>1, <3>1, ListIsEmpty
  <2>3. p = Last(w.path) /\ p \in Met(w) \ Gone(w) /\ w.tin[u] <= w.tin[p] /\ q = w.root[p]
    BY <1>1, <2>1, <2>2, PathTop DEF EnteredAt
  <2>4. Under(w, u, p)
    BY <2>1, <2>3 DEF Under
  <2>5. w.root[u] = w.root[p]
    BY <1>15, <2>1, <2>3, <2>4 DEF Hangs
  <2>6. p # v
    BY <1>1, <2>3
  <2>7. Under(r, u, p)
    BY <1>12, <2>3, <2>4
  <2>8. r.root[u] = r.root[v]
    BY <1>3, <2>3, <2>5
  <2>9. r.par[v] = p
    BY <1>3
  <2>. QED
    BY <2>6, <2>7, <2>8, <2>9
<1>17. Hangs(r)
  <2>1. ASSUME NEW u \in Met(r), NEW x \in Met(r), Under(r, u, x)
        PROVE  r.root[u] = r.root[x] /\ (u # x => r.par[x] # x /\ Under(r, u, r.par[x]))
    <3>1. CASE u = v /\ x = v
      BY <3>1
    <3>2. CASE u \in Met(w) /\ x = v
      BY <1>16, <2>1, <3>2
    <3>3. CASE u = v /\ x \in Met(w)
      BY <1>13, <2>1, <3>3
    <3>4. CASE u \in Met(w) /\ x \in Met(w)
      <4>1. Under(w, u, x) /\ w.par[x] \in Met(w)
        BY <1>4, <1>12, <2>1, <3>4
      <4>2. w.root[u] = w.root[x] /\ (u # x => w.par[x] # x /\ Under(w, u, w.par[x]))
        BY <1>15, <3>4, <4>1 DEF Hangs
      <4>. QED
        BY <1>3, <1>12, <3>4, <4>1, <4>2
    <3>. QED
      BY <1>3, <3>1, <3>2, <3>3, <3>4
  <2>. QED
    BY <2>1 DEF Hangs
<1>18. ASSUME NEW u \in Met(w) \ Gone(w) PROVE Under(r, u, v) /\ r.tin[u] < r.tin[v]
  BY <1>2, <1>3 DEF Under
<1>19. v \notin Gone(r) /\ Under(r, v, v)
  <2>1. v \notin Gone(r)
    BY <1>1, <1>3, <1>4
  <2>. QED
    BY <1>2, <1>3, <2>1 DEF Under
<1>20. ASSUME r.par[v] # v
       PROVE  r.par[v] \in adj[v] /\ r.tin[r.par[v]] < r.tin[v] /\ Under(r, r.par[v], v)
  <2>1. w.path # <<>> /\ p = Last(w.path) /\ v \in adj[p] /\ p # v
    BY <1>3, <1>20 DEF EnteredAt
  <2>2. p \in Met(w) \ Gone(w)
    BY <1>1, <2>1, PathTop
  <2>3. p \in adj[v]
    BY <1>1, <1>4, <2>1, <2>2 DEF Graph
  <2>. QED
    BY <1>3, <1>18, <2>2, <2>3
<1>21. r.par[r.root[v]] = r.root[v] /\ Under(r, r.root[v], v)
  <2>1. CASE w.path = <<>>
    <3>1. p = v /\ q = v
      BY <2>1 DEF EnteredAt
    <3>. QED
      BY <1>3, <1>19, <3>1
  <2>2. CASE w.path # <<>>
    <3>1. p = Last(w.path) /\ q = w.root[p] /\ p \in Met(w) \ Gone(w)
      BY <1>1, <2>2, PathTop DEF EnteredAt
    <3>2. q \in Met(w) /\ w.par[q] = q /\ Under(w, q, p)
      BY <1>4, <1>15, <3>1 DEF Rooted
    <3>3. q \notin Gone(w)
      <4>1. Nested(w)
        BY DEF Walk
      <4>. QED
        BY <3>1, <3>2, <4>1 DEF Nested, Under
    <3>. QED
      BY <1>3, <1>18, <3>2, <3>3
  <2>. QED
    BY <2>1, <2>2
<1>22. Rooted(r, adj)
  <2>1. ASSUME NEW x \in Met(w)
        PROVE  /\ r.par[x] # x =>
                    r.par[x] \in adj[x] /\ r.tin[r.par[x]] < r.tin[x] /\ Under(r, r.par[x], x)
               /\ r.par[r.root[x]] = r.root[x] /\ Under(r, r.root[x], x)
    <3>1. w.par[x] \in Met(w) /\ w.root[x] \in Met(w)
      BY <1>4
    <3>2. /\ w.par[x] # x =>
               w.par[x] \in adj[x] /\ w.tin[w.par[x]] < w.tin[x] /\ Under(w, w.par[x], x)
          /\ w.par[w.root[x]] = w.root[x] /\ Under(w, w.root[x], x)
      BY <1>15 DEF Rooted
    <3>. QED
      BY <1>3, <1>12, <3>1, <3>2
  <2>. QED
    BY <1>3, <1>20, <1>21, <2>1 DEF Rooted
<1>. QED
  BY <1>3, <1>6, <1>7, <1>8, <1>10, <1>11, <1>17, <1>22 DEF Walk, s

\* Leaving the last vertex of the path, whose neighbours are all met.
LeavesAt(w, x, adj, r) ==
  /\ w.path # <<>> /\ x = Last(w.path) /\ adj[x] \subseteq Met(w)
  /\ r = [w EXCEPT !.path = Front(@), !.tout = With(@, x, Cardinality(DOMAIN w.tin))]

LEMMA LeaveKeeps ==
  ASSUME NEW V, NEW adj, Graph(V, adj), NEW w, Walk(w, V, adj),
         NEW x, NEW r, LeavesAt(w, x, adj, r)
  PROVE  /\ Walk(r, V, adj)
         /\ Met(r) = Met(w) /\ Cardinality(Gone(r)) = Cardinality(Gone(w)) + 1
<1>0. /\ w.path # <<>> /\ x = Last(w.path) /\ adj[x] \subseteq Met(w)
      /\ r = [w EXCEPT !.path = Front(@), !.tout = With(@, x, Cardinality(DOMAIN w.tin))]
  BY DEF LeavesAt
<1>. DEFINE s == Cardinality(Met(w))
<1>1. /\ IsFiniteSet(V) /\ WalkTyped(w, V)
      /\ OnPath(w) /\ OneTime(w) /\ Nested(w) /\ Looked(w, adj) /\ Hangs(w) /\ Rooted(w, adj)
  BY DEF Walk, Graph
<1>2. /\ s \in Nat /\ \A u \in Met(w) : w.tin[u] \in Nat /\ w.tin[u] <= s /\ w.tin[u] >= 1
      /\ \A u \in Gone(w) : u \in Met(w) /\ w.tout[u] \in Nat /\ w.tout[u] <= s
      /\ IsFiniteSet(Gone(w))
  BY <1>1, MetCount
<1>3. /\ x \in Met(w) /\ x \notin Gone(w)
      /\ \A a \in Met(w) \ Gone(w) : w.tin[a] <= w.tin[x]
  BY <1>0, <1>1, PathTop
<1>4. w = [path |-> w.path, tin |-> w.tin, tout |-> w.tout, par |-> w.par, root |-> w.root]
  BY <1>1 DEF WalkTyped
<1>5. /\ r.path = Front(w.path) /\ r.tin = w.tin /\ r.par = w.par /\ r.root = w.root
      /\ r.tout = With(w.tout, x, s)
      /\ r = [path |-> r.path, tin |-> r.tin, tout |-> r.tout, par |-> r.par, root |-> r.root]
  BY <1>0, <1>4 DEF Met
<1>6. r.tout = [u \in Gone(w) \cup {x} |-> IF u = x THEN s ELSE w.tout[u]]
  BY <1>5 DEF With, Gone
<1>7. Met(r) = Met(w) /\ Gone(r) = Gone(w) \cup {x}
  BY <1>5, <1>6 DEF Met, Gone
<1>8. Cardinality(Gone(r)) = Cardinality(Gone(w)) + 1
  BY <1>2, <1>3, <1>7, FS_AddElement
<1>. HIDE DEF s
<1>9. r.tout[x] = s /\ \A u \in Gone(w) : u # x /\ r.tout[u] = w.tout[u]
  BY <1>3, <1>6
<1>10. WalkTyped(r, V)
  <2>1. /\ Met(w) \subseteq V /\ Gone(w) \subseteq Met(w)
        /\ w.tin \in [Met(w) -> 1 .. s] /\ w.tout \in [Gone(w) -> 1 .. s]
        /\ w.par \in [Met(w) -> Met(w)] /\ w.root \in [Met(w) -> Met(w)]
    BY <1>1 DEF WalkTyped, s
  <2>2. s \in 1 .. s
    BY <1>2, <1>3
  <2>3. r.tout \in [Gone(r) -> 1 .. s]
    <3>1. \A u \in Gone(w) : w.tout[u] \in 1 .. s
      BY <2>1
    <3>2. \A u \in Gone(r) : (IF u = x THEN s ELSE w.tout[u]) \in 1 .. s
      BY <1>7, <2>2, <3>1
    <3>3. r.tout = [u \in Gone(r) |-> IF u = x THEN s ELSE w.tout[u]]
      BY <1>6, <1>7
    <3>. QED
      BY <3>2, <3>3
  <2>4. Gone(r) \subseteq Met(r) /\ Cardinality(Met(r)) = s
    BY <1>3, <1>7, <2>1 DEF s
  <2>5. Met(r) \subseteq V /\ r.tin \in [Met(r) -> 1 .. s]
    BY <1>5, <1>7, <2>1
  <2>6. r.par \in [Met(r) -> Met(r)] /\ r.root \in [Met(r) -> Met(r)]
    BY <1>5, <1>7, <2>1
  <2>. QED
    BY <1>5, <2>3, <2>4, <2>5, <2>6 DEF WalkTyped
<1>11. OnPath(r)
  <2>. DEFINE a == w.path
              n == Len(a)
              b == r.path
  <2>1. Lists(a, Met(w) \ Gone(w))
    BY <1>1 DEF OnPath
  <2>2. /\ Lists(b, (Met(w) \ Gone(w)) \ {x}) /\ Len(b) = n - 1 /\ n \in Nat \ {0}
        /\ \A i \in 1 .. n - 1 : b[i] = a[i]
    <3>1. a # <<>> /\ b = Front(a) /\ x = Last(a)
      BY <1>0, <1>5
    <3>. HIDE DEF a, b
    <3>2. /\ Lists(Front(a), (Met(w) \ Gone(w)) \ {Last(a)}) /\ Len(Front(a)) = Len(a) - 1
          /\ Len(a) \in Nat \ {0} /\ \A i \in 1 .. Len(a) - 1 : Front(a)[i] = a[i]
      BY ONLY <2>1, <3>1, FrontList
    <3>. QED
      BY <3>1, <3>2
  <2>3. (Met(w) \ Gone(w)) \ {x} = Met(r) \ Gone(r)
    BY <1>7
  <2>4. \A i, j \in 1 .. n : i < j => w.tin[a[i]] < w.tin[a[j]]
    BY <1>1 DEF OnPath
  <2>. HIDE DEF a, n, b
  <2>5. \A i \in 1 .. n - 1 : i \in 1 .. n
    BY <2>2
  <2>6. \A i, j \in 1 .. n - 1 : i < j => r.tin[b[i]] < r.tin[b[j]]
    BY <1>5, <2>2, <2>4, <2>5
  <2>7. Lists(b, Met(r) \ Gone(r))
    BY <2>2, <2>3
  <2>. QED
    BY <2>2, <2>6, <2>7 DEF OnPath, b
<1>12. OneTime(r)
  BY <1>1, <1>5, <1>7 DEF OneTime
<1>13. ASSUME NEW v \in Met(w), w.tin[x] <= w.tin[v]
       PROVE  v = x \/ v \in Gone(w)
  BY <1>1, <1>2, <1>3, <1>13 DEF OneTime
<1>14. Nested(r)
  <2>1. ASSUME NEW u \in Gone(r) PROVE r.tin[u] <= r.tout[u]
    <3>1. CASE u = x
      BY <1>2, <1>3, <1>5, <1>9, <3>1
    <3>2. CASE u \in Gone(w)
      BY <1>1, <1>5, <1>9, <3>2 DEF Nested
    <3>. QED
      BY <1>7, <3>1, <3>2
  <2>2. ASSUME NEW u \in Gone(r), NEW v \in Met(r), r.tin[u] <= r.tin[v], r.tin[v] <= r.tout[u]
        PROVE  v \in Gone(r) /\ r.tout[v] <= r.tout[u]
    <3>1. w.tin[u] <= w.tin[v] /\ v \in Met(w)
      BY <1>5, <1>7, <2>2
    <3>2. CASE u = x
      <4>1. v = x \/ v \in Gone(w)
        BY <1>13, <3>1, <3>2
      <4>. QED
        BY <1>2, <1>7, <1>9, <3>2, <4>1
    <3>3. CASE u \in Gone(w)
      <4>1. w.tin[v] <= w.tout[u]
        BY <1>5, <1>9, <2>2, <3>3
      <4>2. v \in Gone(w) /\ w.tout[v] <= w.tout[u]
        BY <1>1, <3>1, <3>3, <4>1 DEF Nested
      <4>. QED
        BY <1>7, <1>9, <3>3, <4>2
    <3>. QED
      BY <1>7, <3>2, <3>3
  <2>. QED
    BY <2>1, <2>2 DEF Nested
<1>15. Looked(r, adj)
  <2>1. ASSUME NEW u \in Gone(r), NEW y \in adj[u] PROVE y \in Met(r) /\ r.tin[y] <= r.tout[u]
    <3>1. CASE u = x
      <4>1. y \in Met(w)
        BY <1>0, <3>1
      <4>. QED
        BY <1>2, <1>5, <1>7, <1>9, <3>1, <4>1
    <3>2. CASE u \in Gone(w)
      BY <1>1, <1>5, <1>7, <1>9, <3>2 DEF Looked
    <3>. QED
      BY <1>7, <3>1, <3>2
  <2>. QED
    BY <2>1 DEF Looked
<1>16. ASSUME NEW u \in Met(w), NEW v \in Met(w) PROVE Under(r, u, v) <=> Under(w, u, v)
  <2>1. CASE u = x
    BY <1>2, <1>3, <1>5, <1>7, <1>9, <2>1 DEF Under
  <2>2. CASE u # x
    <3>1. u \in Gone(r) <=> u \in Gone(w)
      BY <1>7, <2>2
    <3>. QED
      BY <1>5, <1>9, <3>1 DEF Under
  <2>. QED
    BY <2>1, <2>2
<1>17. \A v \in Met(w) : w.par[v] \in Met(w) /\ w.root[v] \in Met(w)
  BY <1>1 DEF WalkTyped
<1>18. Hangs(r)
  BY <1>1, <1>5, <1>7, <1>16, <1>17 DEF Hangs
<1>19. Rooted(r, adj)
  BY <1>1, <1>5, <1>7, <1>16, <1>17 DEF Rooted
<1>. QED
  BY <1>7, <1>8, <1>10, <1>11, <1>12, <1>14, <1>15, <1>18, <1>19 DEF Walk

LEMMA StepKeeps ==
  ASSUME NEW V, NEW adj, Graph(V, adj), NEW order, Lists(order, V),
         NEW w, Walk(w, V, adj),
         Cardinality(Met(w)) + Cardinality(Gone(w)) < 2 * Len(order),
         NEW r, r = SearchStep(w, order, adj)
  PROVE  /\ Walk(r, V, adj)
         /\ Cardinality(Met(r)) + Cardinality(Gone(r)) = Cardinality(Met(w)) + Cardinality(Gone(w)) + 1
<1>1. /\ IsFiniteSet(V) /\ V \subseteq Nat /\ WalkTyped(w, V) /\ OnPath(w) /\ OneTime(w)
  BY DEF Walk, Graph
<1>2. /\ Cardinality(Met(w)) \in Nat /\ Cardinality(Gone(w)) \in Nat
  BY <1>1, MetCount
<1>3. /\ Len(order) \in Nat /\ DOMAIN order = 1 .. Len(order)
      /\ \A i \in 1 .. Len(order) : order[i] \in V
      /\ \A v \in V : \E i \in 1 .. Len(order) : order[i] = v
      /\ Cardinality(V) = Len(order)
  BY ListFacts, ListLength
<1>4. CASE w.path = <<>>
  <2>. DEFINE I == {i \in DOMAIN order : order[i] \notin DOMAIN w.tin}
              v == order[Min(I)]
  <2>1. Met(w) = Gone(w)
    <3>1. Lists(w.path, Met(w) \ Gone(w))
      BY <1>1 DEF OnPath
    <3>2. Met(w) \ Gone(w) = {}
      BY <1>4, <3>1, ListIsEmpty
    <3>3. Gone(w) \subseteq Met(w)
      BY <1>1 DEF WalkTyped
    <3>. QED
      BY <3>2, <3>3
  <2>2. Cardinality(Met(w)) # Len(order)
    BY <1>2, <1>3, <2>1
  <2>3. Met(w) # V
    BY <1>3, <2>2
  <2>4. PICK y \in V : y \notin Met(w)
    BY <1>1, <2>3 DEF WalkTyped
  <2>5. I \subseteq Nat /\ I # {}
    BY <1>3, <2>4 DEF Met
  <2>6. Min(I) \in I
    BY <2>5, MinFacts
  <2>7. v \in V \ Met(w)
    BY <1>3, <2>6 DEF Met
  <2>8. r = Enter(w, v, v, v)
    BY <1>4 DEF SearchStep
  <2>. HIDE DEF v
  <2>9. EnteredAt(w, v, v, v, V, adj)
    BY <1>4, <2>7 DEF EnteredAt
  <2>10. /\ Walk(r, V, adj)
         /\ Cardinality(Met(r)) = Cardinality(Met(w)) + 1 /\ Gone(r) = Gone(w)
    BY <2>8, <2>9, EnterKeeps
  <2>. QED
    BY <1>2, <2>10
<1>5. CASE w.path # <<>>
  <2>. DEFINE u == Last(w.path)
              fresh == adj[u] \ DOMAIN w.tin
  <2>1. u \in Met(w) /\ Met(w) \subseteq V
    BY <1>1, <1>5, PathTop DEF WalkTyped
  <2>2. adj[u] \subseteq V
    BY <2>1 DEF Graph
  <2>3. CASE fresh # {}
    <3>. DEFINE v == Min(fresh)
                q == w.root[u]
    <3>1. fresh \subseteq Nat
      BY <1>1, <2>2
    <3>2. v \in fresh
      BY <2>3, <3>1, MinFacts
    <3>3. r = Enter(w, v, u, q)
      BY <1>5, <2>3 DEF SearchStep
    <3>4. v \in V \ Met(w) /\ v \in adj[u]
      BY <2>2, <3>2 DEF Met
    <3>5. EnteredAt(w, v, u, q, V, adj)
      BY <1>5, <3>4 DEF EnteredAt
    <3>. HIDE DEF v, q, u
    <3>6. /\ Walk(r, V, adj)
          /\ Cardinality(Met(r)) = Cardinality(Met(w)) + 1 /\ Gone(r) = Gone(w)
      BY <3>3, <3>5, EnterKeeps
    <3>. QED
      BY <1>2, <3>6
  <2>4. CASE fresh = {}
    <3>1. r = [w EXCEPT !.path = Front(@), !.tout = With(@, u, Cardinality(DOMAIN w.tin))]
      BY <1>5, <2>4 DEF SearchStep
    <3>2. adj[u] \subseteq Met(w)
      BY <2>4 DEF Met
    <3>3. LeavesAt(w, u, adj, r)
      BY <1>5, <3>1, <3>2 DEF LeavesAt
    <3>. HIDE DEF u
    <3>4. /\ Walk(r, V, adj)
          /\ Met(r) = Met(w) /\ Cardinality(Gone(r)) = Cardinality(Gone(w)) + 1
      BY <3>3, LeaveKeeps
    <3>. QED
      BY <1>2, <3>4
  <2>. QED
    BY <2>3, <2>4
<1>. QED
  BY <1>4, <1>5

NothingMet == [path |-> <<>>, tin |-> <<>>, tout |-> <<>>, par |-> <<>>, root |-> <<>>]

LEMMA NothingMetWalks ==
  ASSUME NEW V, NEW adj
  PROVE  /\ Walk(NothingMet, V, adj)
         /\ Cardinality(Met(NothingMet)) = 0 /\ Cardinality(Gone(NothingMet)) = 0
<1>1. Met(NothingMet) = {} /\ Gone(NothingMet) = {}
  BY DEF Met, Gone, NothingMet
<1>2. <<>> \in [{} -> 1 .. Cardinality({})] /\ <<>> \in [{} -> {}]
  BY DOMAIN <<>> = {}
<1>3. WalkTyped(NothingMet, V)
  BY <1>1, <1>2 DEF WalkTyped, NothingMet
<1>4. OnPath(NothingMet)
  <2>1. NothingMet.path = <<>> /\ Len(<<>>) = 0
    BY DEF NothingMet
  <2>2. Lists(NothingMet.path, Met(NothingMet) \ Gone(NothingMet))
    BY <1>1, <2>1, ListEmpty
  <2>3. \A i \in 1 .. Len(NothingMet.path) : FALSE
    BY <2>1
  <2>. QED
    BY <2>2, <2>3 DEF OnPath
<1>5. Cardinality({}) = 0
  BY FS_EmptySet
<1>. QED
  BY <1>1, <1>3, <1>4, <1>5 DEF Walk, OneTime, Nested, Looked, Hangs, Rooted

AdjIn(V, E) == [v \in V |-> {u \in V : <<u, v>> \in E \/ <<v, u>> \in E}]

\* The times low chooses from.
Times(tin, par, adj, S) == UNION {{tin[w]} \cup {tin[y] : y \in adj[w] \ {par[w]}} : w \in S}

\* a is what a search of V that is over says.
Searched(a, V, adj) ==
  /\ a = [tin |-> a.tin, tout |-> a.tout, par |-> a.par, root |-> a.root, low |-> a.low]
  /\ \E w : /\ Walk(w, V, adj) /\ Met(w) = V /\ Gone(w) = V
            /\ a.tin = w.tin /\ a.tout = w.tout /\ a.par = w.par /\ a.root = w.root
  /\ a.low = LowTimes(a, adj)

LEMMA AdjInFacts ==
  ASSUME NEW V \in SUBSET Vertices, NEW E \in SUBSET AllEdges
  PROVE  /\ Graph(V, AdjIn(V, E))
         /\ \A v \in V : AdjIn(V, E)[v] = Neighbours(E, v) \cap V
<1>1. V \subseteq Nat /\ IsFiniteSet(V)
  BY VerticesAssumption, FS_Subset
<1>2. AdjIn(V, E) \in [V -> SUBSET V]
  BY DEF AdjIn
<1>3. \A v \in V : AdjIn(V, E)[v] = Neighbours(E, v) \cap V
  BY DEF AdjIn, Neighbours
<1>4. /\ \A u, v \in Vertices : u \in Neighbours(E, v) <=> v \in Neighbours(E, u)
      /\ \A v \in Vertices : v \notin Neighbours(E, v)
  BY NeighboursFacts
<1>. HIDE DEF AdjIn
<1>. QED
  BY <1>1, <1>2, <1>3, <1>4 DEF Graph

LEMMA ArtifactSearched ==
  ASSUME NEW V \in SUBSET Vertices, NEW E \in SUBSET AllEdges, NEW order, Lists(order, V)
  PROVE  Searched(Artifact(order, E), V, AdjIn(V, E))
<1>. DEFINE n == 2 * Len(order)
            A == AdjIn(V, E)
            adj == [v \in Range(order) |-> {u \in Range(order) : <<u, v>> \in E \/ <<v, u>> \in E}]
            After(w, k) == Walk(w, V, A) /\ Cardinality(Met(w)) + Cardinality(Gone(w)) = k
            Recs == [path : Seq(V), tin : UNION {[S -> Nat] : S \in SUBSET V},
                     tout : UNION {[S -> Nat] : S \in SUBSET V},
                     par : UNION {[S -> V] : S \in SUBSET V}, root : UNION {[S -> V] : S \in SUBSET V}]
            U == [k \in 0 .. n |-> {w \in Recs : After(w, k)}]
            Step(w, k) == SearchStep(w, order, A)
            next == [k \in 1 .. n |-> [w \in U[k - 1] |-> Step(w, k)]]
            Is(f) == f = [k \in 0 .. n |-> IF k = 0 THEN NothingMet ELSE Step(f[k - 1], k)]
            walk[k \in 0 .. n] ==
              IF k = 0 THEN [path |-> <<>>, tin |-> <<>>, tout |-> <<>>, par |-> <<>>, root |-> <<>>]
              ELSE LET before == walk[k - 1] IN SearchStep(before, order, adj)
            done == walk[n]
            tree == [tin |-> done.tin, tout |-> done.tout, par |-> done.par, root |-> done.root,
                     low |-> <<>>]
<1>1. /\ Graph(V, A) /\ IsFiniteSet(V)
  BY AdjInFacts DEF Graph
<1>2. Range(order) = V /\ adj = A
  BY DEF Lists, AdjIn
<1>3. Len(order) \in Nat /\ Cardinality(V) = Len(order) /\ n \in Nat
  BY ListFacts, ListLength
<1>4. ASSUME NEW w, Walk(w, V, A) PROVE w \in Recs
  <2>1. /\ w = [path |-> w.path, tin |-> w.tin, tout |-> w.tout, par |-> w.par, root |-> w.root]
        /\ Met(w) \subseteq V /\ Gone(w) \subseteq Met(w)
        /\ w.tin \in [Met(w) -> 1 .. Cardinality(Met(w))]
        /\ w.tout \in [Gone(w) -> 1 .. Cardinality(Met(w))]
        /\ w.par \in [Met(w) -> Met(w)] /\ w.root \in [Met(w) -> Met(w)]
        /\ Lists(w.path, Met(w) \ Gone(w))
    BY <1>4 DEF Walk, WalkTyped, OnPath
  <2>2. w.path \in Seq(V)
    BY <2>1 DEF Lists
  <2>3. w.tin \in [Met(w) -> Nat] /\ w.tout \in [Gone(w) -> Nat]
    <3>1. 1 .. Cardinality(Met(w)) \subseteq Nat
      OBVIOUS
    <3>. QED
      BY <2>1, <3>1
  <2>4. w.par \in [Met(w) -> V] /\ w.root \in [Met(w) -> V]
    BY <2>1
  <2>5. Met(w) \in SUBSET V /\ Gone(w) \in SUBSET V
    BY <2>1
  <2>. QED
    BY <2>1, <2>2, <2>3, <2>4, <2>5
<1>. HIDE DEF Recs, A, adj
<1>5. NothingMet \in U[0]
  BY <1>3, <1>4, NothingMetWalks
<1>6. ASSUME NEW k \in 1 .. n, NEW w \in U[k - 1] PROVE Step(w, k) \in U[k]
  <2>1. k - 1 \in 0 .. n /\ k \in 0 .. n /\ k - 1 < n /\ k - 1 + 1 = k
    BY <1>3
  <2>2. Walk(w, V, A) /\ Cardinality(Met(w)) + Cardinality(Gone(w)) = k - 1
    BY <1>6, <2>1
  <2>3. PICK r : r = SearchStep(w, order, A)
    OBVIOUS
  <2>4. Cardinality(Met(w)) + Cardinality(Gone(w)) < 2 * Len(order)
    BY <2>1, <2>2
  <2>5. /\ Walk(r, V, A)
        /\ Cardinality(Met(r)) + Cardinality(Gone(r))
             = Cardinality(Met(w)) + Cardinality(Gone(w)) + 1
    BY ONLY <1>1, <2>2, <2>3, <2>4, Lists(order, V), StepKeeps
  <2>6. After(r, k)
    BY <2>1, <2>2, <2>5
  <2>. QED
    BY <1>4, <2>1, <2>3, <2>5, <2>6
<1>7. walk = CHOOSE f : Is(f)
  BY <1>2 DEF NothingMet
<1>. HIDE DEF U, Step, walk, n
<1>8. \E f : Is(f)
  <2>1. \A k \in 1 .. n : \A w \in U[k - 1] : next[k][w] = Step(w, k)
    OBVIOUS
  <2>. HIDE DEF next
  <2>2. Climbs(n, U, NothingMet, next)
    BY <1>5, <1>6, <2>1 DEF Climbs
  <2>3. PICK f : Iterate(f, n, U, NothingMet, next)
    BY <1>3, <2>2, Iterates
  <2>4. \A k \in 0 .. n : k # 0 => next[k][f[k - 1]] = Step(f[k - 1], k)
    <3>1. \A k \in 0 .. n : k # 0 => k \in 1 .. n /\ k - 1 \in 0 .. n
      BY <1>3
    <3>. QED
      BY <2>1, <2>3, <3>1 DEF Iterate
  <2>5. f = [k \in 0 .. n |-> IF k = 0 THEN NothingMet ELSE Step(f[k - 1], k)]
    BY <2>3, <2>4 DEF Iterate
  <2>. QED
    BY <2>5
<1>. HIDE DEF Is
<1>9. Is(walk)
  BY <1>7, <1>8
<1>. USE DEF Is
<1>10. walk[0] = NothingMet /\ \A k \in 1 .. n : walk[k] = Step(walk[k - 1], k)
  BY <1>3, <1>9
<1>. HIDE DEF Is
<1>11. walk[n] \in U[n]
  <2>. DEFINE Good == {k \in 0 .. n : walk[k] \in U[k]}
  <2>1. 0 \in Good /\ \A k \in 1 .. n : k - 1 \in Good => k \in Good
    BY <1>3, <1>5, <1>6, <1>10
  <2>. HIDE DEF Good
  <2>2. \A k \in 0 .. n : k \in Good
    BY <1>3, <2>1, Upward
  <2>. QED
    BY <1>3, <2>2 DEF Good
<1>12. PICK w : w = walk[n]
  OBVIOUS
<1>13. Walk(w, V, A) /\ Cardinality(Met(w)) + Cardinality(Gone(w)) = n
  BY <1>3, <1>11, <1>12 DEF U
<1>14. Met(w) = V /\ Gone(w) = V
  <2>1. /\ Cardinality(Met(w)) \in Nat /\ Cardinality(Gone(w)) \in Nat
        /\ Cardinality(Met(w)) <= Cardinality(V) /\ Cardinality(Gone(w)) <= Cardinality(Met(w))
        /\ Met(w) \subseteq V /\ Gone(w) \subseteq Met(w)
    BY <1>1, <1>13, MetCount DEF Walk, WalkTyped
  <2>2. Cardinality(Met(w)) = Cardinality(V) /\ Cardinality(Gone(w)) = Cardinality(V)
    BY <1>3, <1>13, <2>1 DEF n
  <2>3. Met(w) \in SUBSET V /\ Gone(w) \in SUBSET V
    BY <2>1
  <2>4. Met(w) = V
    BY <1>1, <2>2, <2>3, FS_Subset
  <2>5. Gone(w) = V
    BY <1>1, <2>2, <2>3, FS_Subset
  <2>. QED
    BY <2>4, <2>5
<1>15. PICK a : a = Artifact(order, E)
  OBVIOUS
<1>16. a = [tree EXCEPT !.low = LowTimes(tree, adj)]
  BY <1>15 DEF Artifact, walk, n, adj
<1>. HIDE DEF tree
<1>17. /\ tree.tin = w.tin /\ tree.tout = w.tout /\ tree.par = w.par /\ tree.root = w.root
       /\ tree = [tin |-> w.tin, tout |-> w.tout, par |-> w.par, root |-> w.root, low |-> <<>>]
  BY <1>12 DEF tree
<1>18. /\ a = [tin |-> w.tin, tout |-> w.tout, par |-> w.par, root |-> w.root,
               low |-> LowTimes(tree, A)]
  BY <1>2, <1>16, <1>17
<1>19. /\ a.tin = w.tin /\ a.tout = w.tout /\ a.par = w.par /\ a.root = w.root
       /\ a.low = LowTimes(tree, A)
       /\ a = [tin |-> a.tin, tout |-> a.tout, par |-> a.par, root |-> a.root, low |-> a.low]
  BY <1>18
<1>20. LowTimes(tree, A) = LowTimes(a, A)
  <2>1. tree.tin = a.tin /\ tree.tout = a.tout /\ tree.par = a.par
    BY <1>17, <1>19
  <2>2. Seen(tree) = Seen(a) /\ \A u : Subtree(tree, u) = Subtree(a, u)
    BY <2>1 DEF Seen, Subtree
  <2>3. \A b : LowTimes(b, A) = [u \in Seen(b) |-> Min(Times(b.tin, b.par, A, Subtree(b, u)))]
    BY DEF LowTimes, Times
  <2>4. \A u \in Seen(a) : Min(Times(tree.tin, tree.par, A, Subtree(tree, u)))
                             = Min(Times(a.tin, a.par, A, Subtree(a, u)))
    BY <2>1, <2>2
  <2>. QED
    BY <2>2, <2>3, <2>4
<1>21. Searched(a, V, A)
  BY <1>13, <1>14, <1>19, <1>20 DEF Searched
<1>. QED
  BY <1>15, <1>21 DEF A

--------------------------------------------------------------------------------
(****************************************************************************)
(* What an artifact keeps while vertices are deleted under it.  Subtrees    *)
(* are disjoint or nested, no edge joins two disjoint ones, and a child     *)
(* the bucket test takes for cut off still is: whatever leaves its subtree  *)
(* goes to the parent.  The entry and exit times and low are as old as the  *)
(* search; only the vertices seen, the edges, some parents and roots change.*)
(****************************************************************************)
ArtTyped(a) ==
  /\ a = [tin |-> a.tin, tout |-> a.tout, par |-> a.par, root |-> a.root, low |-> a.low]
  /\ Seen(a) \subseteq Vertices
  /\ a.tin \in [Seen(a) -> Nat] /\ a.tout \in [Seen(a) -> Nat] /\ a.low \in [Seen(a) -> Nat]
  /\ a.par \in [Seen(a) -> Vertices] /\ a.root \in [Seen(a) -> Vertices]

Stretches(a) ==
  /\ \A v \in Seen(a) : a.tin[v] <= a.tout[v]
  /\ \A u, v \in Seen(a) : a.tin[u] = a.tin[v] => u = v
  /\ \A v \in Seen(a) : \A u \in Subtree(a, v) : a.tout[u] <= a.tout[v]

Parents(a) ==
  /\ \A c \in Seen(a) : a.par[c] \in Seen(a) =>
       /\ c \in Subtree(a, a.par[c])
       /\ \A w \in Seen(a) : c \in Subtree(a, w) /\ c # w /\ c # a.par[c] => a.par[c] \in Subtree(a, w)
  /\ \A v \in Seen(a) : a.root[v] \in Seen(a) => a.par[a.root[v]] = a.root[v]

Whole(a, E) == \A v \in Seen(a) : \A u \in Neighbours(E, v) : u \in Seen(a) /\ a.root[u] = a.root[v]

NoCross(a, E) == \A v \in Seen(a) : \A u \in Neighbours(E, v) : u \in Subtree(a, v) \/ v \in Subtree(a, u)

TakenForCut(a, v, c) == a.par[c] = v /\ c # v /\ (a.par[v] = v \/ a.low[c] >= a.tin[v])

CutsOff(a, E) ==
  \A v, c \in Seen(a) : TakenForCut(a, v, c) =>
    \A w \in Subtree(a, c) : \A y \in Neighbours(E, w) : y = v \/ y \in Subtree(a, c)

Coarse(a, E) ==
  ArtTyped(a) /\ Stretches(a) /\ Parents(a) /\ Whole(a, E) /\ NoCross(a, E) /\ CutsOff(a, E)

LEMMA SubtreeFacts ==
  ASSUME NEW a, ArtTyped(a), Stretches(a)
  PROVE  /\ \A v \in Seen(a) : v \in Subtree(a, v) /\ Subtree(a, v) \subseteq Seen(a)
         /\ \A v \in Seen(a) : \A u \in Subtree(a, v) : Subtree(a, u) \subseteq Subtree(a, v)
         /\ \A u, v \in Seen(a) : \A w \in Subtree(a, u) : w \in Subtree(a, v) =>
              u \in Subtree(a, v) \/ v \in Subtree(a, u)
         /\ \A u, v \in Seen(a) : u \in Subtree(a, v) /\ v \in Subtree(a, u) => u = v
<1>1. \A u \in Seen(a) : a.tin[u] \in Nat /\ a.tout[u] \in Nat
  BY DEF ArtTyped
<1>2. \A v \in Seen(a) : v \in Subtree(a, v) /\ Subtree(a, v) \subseteq Seen(a)
  BY <1>1 DEF Stretches, Subtree
<1>3. ASSUME NEW v \in Seen(a), NEW u \in Subtree(a, v), NEW w \in Subtree(a, u)
      PROVE  w \in Subtree(a, v)
  <2>1. a.tout[u] <= a.tout[v] /\ a.tin[v] <= a.tin[u] /\ a.tin[u] <= a.tin[w] /\ a.tin[w] <= a.tout[u]
    BY DEF Stretches, Subtree
  <2>2. u \in Seen(a) /\ w \in Seen(a)
    BY DEF Subtree
  <2>3. a.tin[v] <= a.tin[w] /\ a.tin[w] <= a.tout[v]
    BY <1>1, <2>1, <2>2
  <2>. QED
    BY <2>2, <2>3 DEF Subtree
<1>4. ASSUME NEW u \in Seen(a), NEW v \in Seen(a), NEW w \in Subtree(a, u), w \in Subtree(a, v)
      PROVE  u \in Subtree(a, v) \/ v \in Subtree(a, u)
  <2>1. /\ a.tin[u] <= a.tin[w] /\ a.tin[w] <= a.tout[u] /\ w \in Seen(a)
        /\ a.tin[v] <= a.tin[w] /\ a.tin[w] <= a.tout[v]
    BY <1>4 DEF Subtree
  <2>2. a.tin[v] <= a.tin[u] => a.tin[u] <= a.tout[v]
    BY <1>1, <2>1
  <2>3. a.tin[u] <= a.tin[v] => a.tin[v] <= a.tout[u]
    BY <1>1, <2>1
  <2>4. a.tin[v] <= a.tin[u] \/ a.tin[u] <= a.tin[v]
    BY <1>1
  <2>. QED
    BY <2>2, <2>3, <2>4 DEF Subtree
<1>5. ASSUME NEW u \in Seen(a), NEW v \in Seen(a), u \in Subtree(a, v), v \in Subtree(a, u)
      PROVE  u = v
  <2>1. a.tin[v] <= a.tin[u] /\ a.tin[u] <= a.tin[v]
    BY <1>5 DEF Subtree
  <2>2. a.tin[u] = a.tin[v]
    BY <1>1, <2>1
  <2>. QED
    BY <2>2 DEF Stretches
<1>. QED
  BY <1>2, <1>3, <1>4, <1>5

--------------------------------------------------------------------------------
(* A fresh artifact. *)

LEMMA SearchedFacts ==
  ASSUME NEW V \in SUBSET Vertices, NEW adj, Graph(V, adj), NEW a, Searched(a, V, adj)
  PROVE  /\ Seen(a) = V /\ ArtTyped(a) /\ Stretches(a)
         /\ \A u \in V : \A y \in adj[u] : y \in V /\ (y \in Subtree(a, u) \/ u \in Subtree(a, y))
         /\ \A v \in V : a.par[v] \in V /\ a.root[v] \in V
         /\ \A u \in V : \A v \in Subtree(a, u) :
              a.root[u] = a.root[v] /\ (u # v => a.par[v] # v /\ a.par[v] \in Subtree(a, u))
         /\ \A v \in V : a.par[v] # v =>
              a.par[v] \in adj[v] /\ v \in Subtree(a, a.par[v]) /\ a.tin[a.par[v]] < a.tin[v]
         /\ \A v \in V : a.par[a.root[v]] = a.root[v] /\ v \in Subtree(a, a.root[v])
         /\ \A u \in V : /\ Times(a.tin, a.par, adj, Subtree(a, u)) \subseteq Nat
                         /\ a.low[u] \in Times(a.tin, a.par, adj, Subtree(a, u))
                         /\ \A t \in Times(a.tin, a.par, adj, Subtree(a, u)) : a.low[u] <= t
<1>1. PICK w : /\ Walk(w, V, adj) /\ Met(w) = V /\ Gone(w) = V
               /\ a.tin = w.tin /\ a.tout = w.tout /\ a.par = w.par /\ a.root = w.root
  BY DEF Searched
<1>2. /\ WalkTyped(w, V) /\ OneTime(w) /\ Nested(w) /\ Looked(w, adj) /\ Hangs(w) /\ Rooted(w, adj)
  BY <1>1 DEF Walk
<1>3. Seen(a) = V
  BY <1>1 DEF Seen, Met
<1>4. /\ a.tin \in [V -> 1 .. Cardinality(V)] /\ a.tout \in [V -> 1 .. Cardinality(V)]
      /\ a.par \in [V -> V] /\ a.root \in [V -> V]
  BY <1>1, <1>2 DEF WalkTyped
<1>5. 1 .. Cardinality(V) \subseteq Nat
  OBVIOUS
<1>6. a.tin \in [V -> Nat] /\ a.tout \in [V -> Nat] /\ a.par \in [V -> Vertices] /\ a.root \in [V -> Vertices]
  BY <1>4, <1>5
<1>7. \A u, v \in V : v \in Subtree(a, u) <=> Under(w, u, v)
  BY <1>1, <1>3 DEF Subtree, Under
<1>8. \A u \in V : Subtree(a, u) \subseteq V
  BY <1>3 DEF Subtree
<1>9. \A u \in V : u \in Subtree(a, u)
  BY <1>1, <1>2, <1>3, <1>6 DEF Nested, Subtree
<1>10. \A u \in V : adj[u] \subseteq V
  BY DEF Graph
<1>11. ASSUME NEW u \in V
       PROVE  /\ Times(a.tin, a.par, adj, Subtree(a, u)) \subseteq Nat
              /\ a.low[u] \in Times(a.tin, a.par, adj, Subtree(a, u))
              /\ \A t \in Times(a.tin, a.par, adj, Subtree(a, u)) : a.low[u] <= t
              /\ a.low[u] \in Nat
  <2>1. Times(a.tin, a.par, adj, Subtree(a, u)) \subseteq Nat
    BY <1>6, <1>8, <1>10 DEF Times
  <2>2. a.tin[u] \in Times(a.tin, a.par, adj, Subtree(a, u))
    BY <1>9 DEF Times
  <2>3. a.low[u] = Min(Times(a.tin, a.par, adj, Subtree(a, u)))
    BY <1>3 DEF Searched, LowTimes, Times
  <2>4. /\ a.low[u] \in Times(a.tin, a.par, adj, Subtree(a, u))
        /\ \A t \in Times(a.tin, a.par, adj, Subtree(a, u)) : a.low[u] <= t
    BY <2>1, <2>2, <2>3, MinFacts
  <2>. QED
    BY <2>1, <2>4
<1>12. a.low \in [V -> Nat]
  <2>1. a.low = [u \in V |-> a.low[u]]
    BY <1>3 DEF Searched, LowTimes
  <2>. QED
    BY <1>11, <2>1
<1>13. ArtTyped(a)
  BY <1>3, <1>6, <1>12 DEF Searched, ArtTyped
<1>14. Stretches(a)
  <2>1. \A v \in V : a.tin[v] <= a.tout[v]
    BY <1>1, <1>2 DEF Nested
  <2>2. \A u, v \in V : a.tin[u] = a.tin[v] => u = v
    BY <1>1, <1>2 DEF OneTime
  <2>3. \A v \in V : \A u \in Subtree(a, v) : a.tout[u] <= a.tout[v]
    BY <1>1, <1>2, <1>3 DEF Nested, Subtree
  <2>. QED
    BY <1>3, <2>1, <2>2, <2>3 DEF Stretches
<1>15. ASSUME NEW u \in V, NEW y \in adj[u] PROVE y \in V /\ (y \in Subtree(a, u) \/ u \in Subtree(a, y))
  <2>1. y \in V /\ u \in adj[y]
    BY <1>10 DEF Graph
  <2>2. a.tin[y] <= a.tout[u] /\ a.tin[u] <= a.tout[y]
    BY <1>1, <1>2, <2>1 DEF Looked
  <2>3. a.tin[y] <= a.tin[u] \/ a.tin[u] <= a.tin[y]
    BY <1>6, <2>1
  <2>. QED
    BY <1>3, <2>1, <2>2, <2>3 DEF Subtree
<1>16. \A u \in V : \A v \in Subtree(a, u) :
         a.root[u] = a.root[v] /\ (u # v => a.par[v] # v /\ a.par[v] \in Subtree(a, u))
  BY <1>1, <1>2, <1>4, <1>7, <1>8 DEF Hangs
<1>17. \A v \in V : a.par[v] # v =>
         a.par[v] \in adj[v] /\ v \in Subtree(a, a.par[v]) /\ a.tin[a.par[v]] < a.tin[v]
  BY <1>1, <1>2, <1>4, <1>7 DEF Rooted
<1>18. \A v \in V : a.par[a.root[v]] = a.root[v] /\ v \in Subtree(a, a.root[v])
  BY <1>1, <1>2, <1>4, <1>7 DEF Rooted
<1>. QED
  BY <1>3, <1>4, <1>11, <1>13, <1>14, <1>15, <1>16, <1>17, <1>18

LEMMA FreshCoarse ==
  ASSUME NEW E \in SUBSET AllEdges, NEW S \in SUBSET Vertices, Closed(S, E),
         NEW a, Searched(a, S, AdjIn(S, E))
  PROVE  Coarse(a, E) /\ Seen(a) = S
<1>. DEFINE adj == AdjIn(S, E)
<1>1. Graph(S, adj)
  BY AdjInFacts
<1>2. \A v \in S : adj[v] = Neighbours(E, v) /\ Neighbours(E, v) \subseteq S
  <2>1. \A v \in S : Neighbours(E, v) \subseteq S
    BY NeighboursFacts
  <2>2. \A v \in S : AdjIn(S, E)[v] = Neighbours(E, v) \cap S
    BY AdjInFacts
  <2>. HIDE DEF adj
  <2>3. \A v \in S : Neighbours(E, v) \cap S = Neighbours(E, v)
    BY ONLY <2>1
  <2>4. \A v \in S : adj[v] = Neighbours(E, v)
    BY <2>2, <2>3 DEF adj
  <2>. QED
    BY ONLY <2>1, <2>4
<1>3. Searched(a, S, adj)
  OBVIOUS
<1>. HIDE DEF adj
<1>4. /\ Seen(a) = S /\ ArtTyped(a) /\ Stretches(a)
      /\ \A u \in S : \A y \in adj[u] : y \in S /\ (y \in Subtree(a, u) \/ u \in Subtree(a, y))
      /\ \A v \in S : a.par[v] \in S /\ a.root[v] \in S
  BY <1>1, <1>3, SearchedFacts
<1>5. /\ \A u \in S : \A v \in Subtree(a, u) :
              a.root[u] = a.root[v] /\ (u # v => a.par[v] # v /\ a.par[v] \in Subtree(a, u))
      /\ \A v \in S : a.par[v] # v =>
              a.par[v] \in adj[v] /\ v \in Subtree(a, a.par[v]) /\ a.tin[a.par[v]] < a.tin[v]
      /\ \A v \in S : a.par[a.root[v]] = a.root[v] /\ v \in Subtree(a, a.root[v])
  BY <1>1, <1>3, SearchedFacts
<1>6. \A u \in S : \A t \in Times(a.tin, a.par, adj, Subtree(a, u)) : a.low[u] <= t /\ t \in Nat
  BY <1>1, <1>3, SearchedFacts
<1>7. /\ \A v \in S : v \in Subtree(a, v) /\ Subtree(a, v) \subseteq S
      /\ \A v \in S : \A u \in Subtree(a, v) : Subtree(a, u) \subseteq Subtree(a, v)
      /\ \A u, v \in S : \A w \in Subtree(a, u) : w \in Subtree(a, v) =>
           u \in Subtree(a, v) \/ v \in Subtree(a, u)
      /\ \A u, v \in S : u \in Subtree(a, v) /\ v \in Subtree(a, u) => u = v
  BY <1>4, SubtreeFacts
<1>8. Parents(a)
  <2>1. \A c \in S : c \in Subtree(a, a.par[c])
    BY <1>5, <1>7
  <2>2. \A c, w \in S : c \in Subtree(a, w) /\ c # w => a.par[c] \in Subtree(a, w)
    BY <1>5
  <2>. QED
    BY <1>4, <1>5, <2>1, <2>2 DEF Parents
<1>9. Whole(a, E)
  <2>1. ASSUME NEW v \in S, NEW u \in Neighbours(E, v) PROVE u \in S /\ a.root[u] = a.root[v]
    <3>1. u \in S /\ (u \in Subtree(a, v) \/ v \in Subtree(a, u))
      BY <1>2, <1>4
    <3>. QED
      BY <1>5, <3>1
  <2>. QED
    BY <1>4, <2>1 DEF Whole
<1>10. NoCross(a, E)
  BY <1>2, <1>4 DEF NoCross
<1>11. CutsOff(a, E)
  <2>. SUFFICES ASSUME NEW v \in S, NEW c \in S, TakenForCut(a, v, c),
                       NEW w \in Subtree(a, c), NEW y \in Neighbours(E, w), y # v
                PROVE  y \in Subtree(a, c)
    BY <1>4 DEF CutsOff
  <2>1. a.par[c] = v /\ c # v /\ (a.par[v] = v \/ a.low[c] >= a.tin[v])
    BY DEF TakenForCut
  <2>2. w \in S /\ y \in adj[w] /\ y \in S
    BY <1>2, <1>7
  <2>3. CASE y \in Subtree(a, w)
    BY <1>7, <2>3
  <2>4. CASE w \in Subtree(a, y) /\ c \in Subtree(a, y) /\ c # y
    <3>1. v \in Subtree(a, y)
      BY <1>5, <2>1, <2>2, <2>4
    <3>2. a.par[v] # v
      BY <1>5, <2>2, <3>1
    <3>3. a.low[c] >= a.tin[v]
      BY <2>1, <3>2
    <3>4. a.tin[y] < a.tin[v]
      <4>1. a.tin[y] <= a.tin[v] /\ a.tin[y] # a.tin[v]
        BY <1>4, <2>2, <3>1 DEF Subtree, Stretches
      <4>2. a.tin[y] \in Nat /\ a.tin[v] \in Nat
        BY <1>4, <2>2 DEF ArtTyped
      <4>. QED
        BY <4>1, <4>2
    <3>5. CASE y = a.par[w]
      <4>1. w # c
        BY <2>1, <3>5
      <4>. QED
        BY <1>5, <3>5, <4>1
    <3>6. CASE y # a.par[w]
      <4>1. a.tin[y] \in Times(a.tin, a.par, adj, Subtree(a, c))
        BY <2>2, <3>6 DEF Times
      <4>2. a.low[c] <= a.tin[y]
        BY <1>6, <4>1
      <4>3. a.tin[y] \in Nat /\ a.tin[v] \in Nat /\ a.low[c] \in Nat
        BY <1>4, <2>2 DEF ArtTyped
      <4>. QED
        BY <3>3, <3>4, <4>2, <4>3
    <3>. QED
      BY <3>5, <3>6
  <2>5. w \in Subtree(a, y) => y \in Subtree(a, c) \/ c \in Subtree(a, y)
    BY <1>7, <2>2
  <2>6. c = y => y \in Subtree(a, c)
    BY <1>7
  <2>7. y \in Subtree(a, w) \/ w \in Subtree(a, y)
    BY <1>4, <2>2
  <2>. QED
    BY <2>3, <2>4, <2>5, <2>6, <2>7
<1>. QED
  BY <1>4, <1>8, <1>9, <1>10, <1>11 DEF Coarse

\* Nothing is seen, nothing is said.
LEMMA NoArtifactCoarse ==
  ASSUME NEW E
  PROVE  Coarse(NoArtifact, E) /\ Seen(NoArtifact) = {}
<1>1. Seen(NoArtifact) = {}
  BY DEF Seen, NoArtifact
<1>2. ArtTyped(NoArtifact)
  <2>1. \A S : <<>> \in [{} -> S]
    BY DOMAIN <<>> = {}
  <2>. QED
    BY <1>1, <2>1 DEF ArtTyped, NoArtifact
<1>. QED
  BY <1>1, <1>2 DEF Coarse, Stretches, Parents, Whole, NoCross, CutsOff

--------------------------------------------------------------------------------
(* A vertex is taken out. *)

Without(E, x) == {e \in E : ~Touches(e, x)}

LEMMA WithoutFacts ==
  ASSUME NEW E \in SUBSET AllEdges, NEW x
  PROVE  /\ Without(E, x) \in SUBSET AllEdges /\ Without(E, x) \subseteq E
         /\ \A v, y : y \in Neighbours(Without(E, x), v) <=>
              y \in Neighbours(E, v) /\ v # x /\ y # x
BY DEF Without, Touches, Neighbours

LEMMA DroppingFacts ==
  ASSUME NEW a, ArtTyped(a), NEW x, NEW d, d = Dropping(a, x)
  PROVE  /\ ArtTyped(d) /\ Seen(d) = Seen(a) \ {x}
         /\ \A v \in Seen(a) \ {x} : /\ d.tin[v] = a.tin[v] /\ d.tout[v] = a.tout[v]
                                     /\ d.par[v] = a.par[v] /\ d.root[v] = a.root[v]
                                     /\ d.low[v] = a.low[v]
                                     /\ Subtree(d, v) = Subtree(a, v) \ {x}
<1>. DEFINE S == Seen(a) \ {x}
<1>1. /\ Seen(a) \subseteq Vertices
      /\ a.tin \in [Seen(a) -> Nat] /\ a.tout \in [Seen(a) -> Nat] /\ a.low \in [Seen(a) -> Nat]
      /\ a.par \in [Seen(a) -> Vertices] /\ a.root \in [Seen(a) -> Vertices]
  BY DEF ArtTyped
<1>2. /\ d.tin = [v \in S |-> a.tin[v]] /\ d.tout = [v \in S |-> a.tout[v]]
      /\ d.par = [v \in S |-> a.par[v]] /\ d.root = [v \in S |-> a.root[v]]
      /\ d.low = [v \in S |-> a.low[v]]
      /\ d = [tin |-> d.tin, tout |-> d.tout, par |-> d.par, root |-> d.root, low |-> d.low]
  BY DEF Dropping, Restrict
<1>3. Seen(d) = S
  BY <1>2 DEF Seen
<1>4. ArtTyped(d)
  <2>1. d.tin \in [S -> Nat] /\ d.tout \in [S -> Nat] /\ d.low \in [S -> Nat]
    BY <1>1, <1>2
  <2>2. d.par \in [S -> Vertices] /\ d.root \in [S -> Vertices]
    BY <1>1, <1>2
  <2>. QED
    BY <1>1, <1>2, <1>3, <2>1, <2>2 DEF ArtTyped
<1>5. \A v \in S : /\ d.tin[v] = a.tin[v] /\ d.tout[v] = a.tout[v]
                   /\ d.par[v] = a.par[v] /\ d.root[v] = a.root[v] /\ d.low[v] = a.low[v]
  BY <1>2
<1>6. \A v \in S : Subtree(d, v) = Subtree(a, v) \ {x}
  BY <1>3, <1>5 DEF Subtree
<1>. QED
  BY <1>3, <1>4, <1>5, <1>6

LEMMA DroppedCoarse ==
  ASSUME NEW E \in SUBSET AllEdges, NEW a, Coarse(a, E), NEW x
  PROVE  Coarse(Dropping(a, x), Without(E, x)) /\ Seen(Dropping(a, x)) = Seen(a) \ {x}
<1>. DEFINE F == Without(E, x)
            d == Dropping(a, x)
<1>1. \A v, y : y \in Neighbours(F, v) <=> y \in Neighbours(E, v) /\ v # x /\ y # x
  BY WithoutFacts
<1>2. ArtTyped(a) /\ Stretches(a) /\ Parents(a) /\ Whole(a, E) /\ NoCross(a, E) /\ CutsOff(a, E)
  BY DEF Coarse
<1>. HIDE DEF F
<1>3. /\ ArtTyped(d) /\ Seen(d) = Seen(a) \ {x}
      /\ \A v \in Seen(a) \ {x} : /\ d.tin[v] = a.tin[v] /\ d.tout[v] = a.tout[v]
                                  /\ d.par[v] = a.par[v] /\ d.root[v] = a.root[v]
                                  /\ d.low[v] = a.low[v]
                                  /\ Subtree(d, v) = Subtree(a, v) \ {x}
  <2>1. PICK b : b = d
    OBVIOUS
  <2>2. b = Dropping(a, x)
    BY <2>1
  <2>. HIDE DEF d
  <2>. QED
    BY <1>2, <2>1, <2>2, DroppingFacts
<1>. HIDE DEF d
<1>4. Stretches(d)
  <2>1. \A v \in Seen(d) : \A u \in Subtree(d, v) : u \in Seen(a) \ {x} /\ u \in Subtree(a, v)
    BY <1>3 DEF Subtree
  <2>. QED
    BY <1>2, <1>3, <2>1 DEF Stretches
<1>5. Parents(d)
  BY <1>2, <1>3 DEF Parents
<1>6. Whole(d, F)
  BY <1>1, <1>2, <1>3 DEF Whole
<1>7. NoCross(d, F)
  <2>1. ASSUME NEW v \in Seen(d), NEW u \in Neighbours(F, v)
        PROVE  u \in Subtree(d, v) \/ v \in Subtree(d, u)
    <3>1. v \in Seen(a) \ {x} /\ u \in Neighbours(E, v) /\ u # x
      BY <1>1, <1>3
    <3>2. u \in Seen(a) \ {x} /\ (u \in Subtree(a, v) \/ v \in Subtree(a, u))
      BY <1>2, <3>1 DEF Whole, NoCross
    <3>. QED
      BY <1>3, <3>1, <3>2
  <2>. QED
    BY <2>1 DEF NoCross
<1>8. CutsOff(d, F)
  <2>1. ASSUME NEW v \in Seen(d), NEW c \in Seen(d), TakenForCut(d, v, c),
               NEW w \in Subtree(d, c), NEW y \in Neighbours(F, w), y # v
        PROVE  y \in Subtree(d, c)
    <3>1. v \in Seen(a) \ {x} /\ c \in Seen(a) \ {x}
      BY <1>3
    <3>2. TakenForCut(a, v, c)
      BY <1>3, <2>1, <3>1 DEF TakenForCut
    <3>3. w \in Subtree(a, c) /\ y \in Neighbours(E, w) /\ y # x
      BY <1>1, <1>3, <3>1
    <3>4. y \in Subtree(a, c)
      BY <1>2, <2>1, <3>1, <3>2, <3>3 DEF CutsOff
    <3>. QED
      BY <1>3, <3>1, <3>3, <3>4
  <2>. QED
    BY <2>1 DEF CutsOff
<1>. QED
  BY <1>3, <1>4, <1>5, <1>6, <1>7, <1>8 DEF Coarse, F, d

--------------------------------------------------------------------------------
(* The bucket test. *)

CutBy(a, E, o, c) == c \in ChildrenOf(a, E, o) /\ (a.par[o] = o \/ a.low[c] >= a.tin[o])

LEMMA CutByFacts ==
  ASSUME NEW E \in SUBSET AllEdges, NEW a, Coarse(a, E), NEW o \in Seen(a), NEW c, CutBy(a, E, o, c)
  PROVE  /\ c \in Seen(a) /\ c \in Neighbours(E, o) /\ a.par[c] = o /\ c # o
         /\ TakenForCut(a, o, c) /\ o \notin Subtree(a, c) /\ c \in Subtree(a, o)
<1>1. c \in Seen(a) /\ a.par[c] = o /\ c \in Neighbours(E, o)
  BY DEF CutBy, ChildrenOf, Neighbours, Coarse, ArtTyped
<1>2. o \in Vertices
  BY DEF Coarse, ArtTyped
<1>3. c # o
  BY <1>1, <1>2, NeighboursFacts
<1>4. TakenForCut(a, o, c)
  BY <1>1, <1>3 DEF CutBy, TakenForCut
<1>5. c \in Subtree(a, o)
  BY <1>1 DEF Coarse, Parents
<1>6. o \notin Subtree(a, c)
  BY <1>1, <1>3, <1>5, SubtreeFacts DEF Coarse
<1>. QED
  BY <1>1, <1>3, <1>4, <1>5, <1>6

LEMMA OneCuts ==
  ASSUME NEW E \in SUBSET AllEdges, NEW a, Coarse(a, E), NEW o \in Seen(a),
         NEW c, CutBy(a, E, o, c), NEW d, CutBy(a, E, o, d),
         NEW e, e \in Subtree(a, c), e \in Subtree(a, d)
  PROVE  c = d
<1>1. /\ c \in Seen(a) /\ a.par[c] = o /\ c # o /\ o \notin Subtree(a, c)
      /\ d \in Seen(a) /\ a.par[d] = o /\ d # o /\ o \notin Subtree(a, d)
  BY CutByFacts
<1>2. c \in Subtree(a, d) \/ d \in Subtree(a, c)
  BY <1>1, SubtreeFacts DEF Coarse
<1>3. \A w \in Seen(a) : /\ c \in Subtree(a, w) /\ c # w => o \in Subtree(a, w)
                         /\ d \in Subtree(a, w) /\ d # w => o \in Subtree(a, w)
  BY <1>1 DEF Coarse, Parents
<1>. QED
  BY <1>1, <1>2, <1>3

\* What the bucket of e without o can be.
LEMMA BucketFacts ==
  ASSUME NEW E \in SUBSET AllEdges, NEW a, Coarse(a, E), NEW o \in Seen(a), NEW e, NEW b,
         b = Bucket(a, ChildrenOf(a, E, o), o, e)
  PROVE  /\ b = NoBucket <=> e = o \/ e \notin Seen(a) \/ a.root[e] # a.root[o]
         /\ b # NoBucket /\ (\A c : CutBy(a, E, o, c) => e \notin Subtree(a, c)) => b = 0
         /\ \A c : b # NoBucket /\ CutBy(a, E, o, c) /\ e \in Subtree(a, c) => b = c
<1>. DEFINE kids == ChildrenOf(a, E, o)
            cutOff == {c \in kids : /\ e \in Subtree(a, c)
                                    /\ a.par[o] = o \/ a.low[c] >= a.tin[o]}
            p == CHOOSE c \in cutOff : TRUE
<1>1. \A c : c \in cutOff <=> CutBy(a, E, o, c) /\ e \in Subtree(a, c)
  BY DEF CutBy
<1>2. b = IF e = o \/ {o, e} \ Seen(a) # {} THEN NoBucket
          ELSE IF a.root[o] # a.root[e] THEN NoBucket
          ELSE IF cutOff = {} THEN 0 ELSE p
  BY DEF Bucket
<1>3. cutOff # {} => p \in cutOff
  OBVIOUS
<1>4. \A c \in cutOff : c \in Vertices
  BY DEF ChildrenOf, Coarse, ArtTyped
<1>5. \A c \in Vertices : c \in Nat
  BY VerticesAssumption
<1>. HIDE DEF cutOff, p
<1>6. NoBucket = -1 /\ 0 # -1 /\ \A c \in cutOff : c # -1
  BY <1>4, <1>5 DEF NoBucket
<1>7. {o, e} \ Seen(a) # {} <=> e \notin Seen(a)
  OBVIOUS
<1>8. \A c, d \in cutOff : c = d
  BY <1>1, OneCuts
<1>9. b = NoBucket <=> e = o \/ e \notin Seen(a) \/ a.root[e] # a.root[o]
  BY <1>2, <1>3, <1>6, <1>7
<1>10. b # NoBucket => b = IF cutOff = {} THEN 0 ELSE p
  BY <1>2
<1>11. b # NoBucket /\ (\A c : CutBy(a, E, o, c) => e \notin Subtree(a, c)) => b = 0
  BY <1>1, <1>10
<1>12. ASSUME NEW c, b # NoBucket, CutBy(a, E, o, c), e \in Subtree(a, c) PROVE b = c
  <2>1. c \in cutOff
    BY <1>1, <1>12
  <2>. QED
    BY <1>3, <1>8, <1>10, <1>12, <2>1
<1>. QED
  BY <1>9, <1>11, <1>12

\* Neighbours without o have the same bucket.
LEMMA BucketsMeet ==
  ASSUME NEW E \in SUBSET AllEdges, NEW a, Coarse(a, E), NEW o \in Seen(a),
         NEW e \in Vertices, NEW f \in Vertices, f \in Neighbours(E, e), e # o, f # o
  PROVE  Bucket(a, ChildrenOf(a, E, o), o, e) = Bucket(a, ChildrenOf(a, E, o), o, f)
<1>. DEFINE be == Bucket(a, ChildrenOf(a, E, o), o, e)
            bf == Bucket(a, ChildrenOf(a, E, o), o, f)
<1>1. e \in Neighbours(E, f)
  BY NeighboursFacts
<1>2. (e \in Seen(a) <=> f \in Seen(a)) /\ (e \in Seen(a) => a.root[e] = a.root[f])
  BY <1>1 DEF Coarse, Whole
<1>3. ASSUME NEW c, CutBy(a, E, o, c) PROVE e \in Subtree(a, c) <=> f \in Subtree(a, c)
  <2>1. c \in Seen(a) /\ TakenForCut(a, o, c)
    BY <1>3, CutByFacts
  <2>2. \A w \in Subtree(a, c) : \A y \in Neighbours(E, w) : y = o \/ y \in Subtree(a, c)
    BY <2>1 DEF Coarse, CutsOff
  <2>. QED
    BY <1>1, <2>2
<1>4. be = NoBucket <=> bf = NoBucket
  <2>1. be = NoBucket <=> e = o \/ e \notin Seen(a) \/ a.root[e] # a.root[o]
    BY BucketFacts
  <2>2. bf = NoBucket <=> f = o \/ f \notin Seen(a) \/ a.root[f] # a.root[o]
    BY BucketFacts
  <2>. HIDE DEF be, bf
  <2>. QED
    BY <1>2, <2>1, <2>2
<1>5. ASSUME be # NoBucket PROVE be = bf
  <2>1. CASE \E c : CutBy(a, E, o, c) /\ e \in Subtree(a, c)
    <3>1. PICK c : CutBy(a, E, o, c) /\ e \in Subtree(a, c)
      BY <2>1
    <3>2. f \in Subtree(a, c)
      BY <1>3, <3>1
    <3>3. be = c
      BY <1>5, <3>1, BucketFacts
    <3>5. bf # NoBucket
      BY ONLY <1>4, <1>5
    <3>4. bf = c
      BY <3>1, <3>2, <3>5, BucketFacts
    <3>. QED
      BY <3>3, <3>4
  <2>2. CASE \A c : CutBy(a, E, o, c) => e \notin Subtree(a, c)
    <3>1. \A c : CutBy(a, E, o, c) => f \notin Subtree(a, c)
      BY <1>3, <2>2
    <3>2. be = 0
      BY <1>5, <2>2, BucketFacts
    <3>4. bf # NoBucket
      BY ONLY <1>4, <1>5
    <3>3. bf = 0
      BY <3>1, <3>4, BucketFacts
    <3>. QED
      BY <3>2, <3>3
  <2>. QED
    BY <2>1, <2>2
<1>. QED
  BY <1>4, <1>5

--------------------------------------------------------------------------------
(****************************************************************************)
(* The artifact used again.  W is what is left of the members of the old    *)
(* handle.                                                                  *)
(****************************************************************************)
Left(x) == Range(OldVerts(x))

LeftWhole(x) ==
  /\ live \in SUBSET AllEdges /\ x \in Vertices
  /\ Left(x) \subseteq Vertices /\ x \notin Left(x)
  /\ \A u \in Neighbours(live, x) : u \in Left(x)
  /\ \A u, v \in Vertices \ {x} : v \in Neighbours(live, u) => (u \in Left(x) <=> v \in Left(x))

ReusesArtifact(x) == LeftWhole(x) /\ Coarse(dfs, live) /\ Reusable(x) /\ Classified(x)

NoneCuts(x, v) == \A c : CutBy(dfs, live, x, c) => v \notin Subtree(dfs, c)

LEMMA RootForFacts ==
  ASSUME NEW x, ReusesArtifact(x), NEW v \in Left(x)
  PROVE  /\ v \in Seen(dfs) /\ x \in Seen(dfs)
         /\ NoneCuts(x, v) => BucketOf(x, v) = 0 /\ RootFor(x, BucketOf(x, v)) = dfs.root[x]
         /\ \A c : CutBy(dfs, live, x, c) /\ v \in Subtree(dfs, c) =>
              BucketOf(x, v) = c /\ c # 0 /\ RootFor(x, BucketOf(x, v)) = c
<1>1. /\ live \in SUBSET AllEdges /\ Coarse(dfs, live) /\ x \in Seen(dfs)
  BY DEF ReusesArtifact, LeftWhole, Reusable
<1>2. PICK b : b = BucketOf(x, v)
  OBVIOUS
<1>3. b # NoBucket
  BY <1>2 DEF ReusesArtifact, Classified, Left
<1>4. b = Bucket(dfs, ChildrenOf(dfs, live, x), x, v)
  BY <1>2 DEF BucketOf
<1>5. v \in Seen(dfs)
  BY <1>1, <1>3, <1>4, BucketFacts
<1>6. NoneCuts(x, v) => b = 0
  BY <1>1, <1>3, <1>4, BucketFacts DEF NoneCuts
<1>7. \A c : CutBy(dfs, live, x, c) /\ v \in Subtree(dfs, c) => b = c
  BY <1>1, <1>3, <1>4, BucketFacts
<1>8. \A c : CutBy(dfs, live, x, c) => c # 0
  <2>1. 0 \notin Vertices
    <3>1. PICK n \in Nat : n = Cardinality(Vertices)
      BY VerticesAssumption, FS_CardinalityType
    <3>2. Vertices = 1 .. n
      BY <3>1, InputsAssumption
    <3>. QED
      BY <3>1, <3>2
  <2>2. \A c : CutBy(dfs, live, x, c) => c \in Vertices
    BY DEF CutBy, ChildrenOf, Coarse, ArtTyped, ReusesArtifact
  <2>. QED
    BY <2>1, <2>2
<1>. QED
  BY <1>1, <1>2, <1>5, <1>6, <1>7, <1>8 DEF RootFor

LEMMA RerootedFacts ==
  ASSUME NEW x, ReusesArtifact(x), NEW r, r = Rerooted(x)
  PROVE  /\ ArtTyped(r) /\ Seen(r) = Seen(dfs) \ {x}
         /\ \A v \in Seen(r) : /\ r.tin[v] = dfs.tin[v] /\ r.tout[v] = dfs.tout[v]
                               /\ r.low[v] = dfs.low[v]
                               /\ Subtree(r, v) = Subtree(dfs, v) \ {x}
         /\ \A v \in Seen(r) : r.root[v] = IF v \in Left(x) THEN RootFor(x, BucketOf(x, v))
                                           ELSE dfs.root[v]
         /\ \A v \in Seen(r) : /\ CutBy(dfs, live, x, v) => r.par[v] = v
                               /\ ~CutBy(dfs, live, x, v) => r.par[v] = dfs.par[v]
<1>. DEFINE d == Dropping(dfs, x)
            S == Seen(dfs) \ {x}
            W == Left(x)
            root(v) == RootFor(x, BucketOf(x, v))
<1>1. /\ live \in SUBSET AllEdges /\ Coarse(dfs, live) /\ ArtTyped(dfs) /\ x \in Seen(dfs)
      /\ Parents(dfs)
  BY DEF ReusesArtifact, LeftWhole, Reusable, Coarse
<1>2. /\ ArtTyped(d) /\ Seen(d) = S
      /\ \A v \in S : /\ d.tin[v] = dfs.tin[v] /\ d.tout[v] = dfs.tout[v]
                      /\ d.par[v] = dfs.par[v] /\ d.root[v] = dfs.root[v]
                      /\ d.low[v] = dfs.low[v]
                      /\ Subtree(d, v) = Subtree(dfs, v) \ {x}
  <2>1. PICK b : b = d
    OBVIOUS
  <2>2. b = Dropping(dfs, x)
    BY <2>1
  <2>. HIDE DEF d
  <2>. QED
    BY <1>1, <2>1, <2>2, DroppingFacts
<1>3. r = [d EXCEPT !.root = [v \in Seen(d) |-> IF v \in W THEN root(v) ELSE @[v]],
                    !.par = [v \in Seen(d) |-> IF v \in W /\ v = root(v) THEN v ELSE @[v]]]
  BY DEF Rerooted, Left
<1>. HIDE DEF d, W, root
<1>4. d = [tin |-> d.tin, tout |-> d.tout, par |-> d.par, root |-> d.root, low |-> d.low]
  BY <1>2 DEF ArtTyped
<1>5. /\ r.tin = d.tin /\ r.tout = d.tout /\ r.low = d.low
      /\ r.root = [v \in S |-> IF v \in W THEN root(v) ELSE d.root[v]]
      /\ r.par = [v \in S |-> IF v \in W /\ v = root(v) THEN v ELSE d.par[v]]
      /\ r = [tin |-> r.tin, tout |-> r.tout, par |-> r.par, root |-> r.root, low |-> r.low]
  BY <1>2, <1>3, <1>4
<1>6. Seen(r) = S /\ \A v : Subtree(r, v) = Subtree(d, v)
  BY <1>2, <1>5 DEF Seen, Subtree
<1>7. ASSUME NEW v \in W
      PROVE  \/ root(v) = dfs.root[x]
             \/ CutBy(dfs, live, x, root(v))
  <2>1. CASE NoneCuts(x, v)
    BY <2>1, RootForFacts DEF W, root
  <2>2. CASE ~NoneCuts(x, v)
    <3>1. PICK c : CutBy(dfs, live, x, c) /\ v \in Subtree(dfs, c)
      BY <2>2 DEF NoneCuts
    <3>2. root(v) = c
      BY <3>1, RootForFacts DEF W, root
    <3>. QED
      BY <3>1, <3>2
  <2>. QED
    BY <2>1, <2>2
<1>8. \A c : CutBy(dfs, live, x, c) => c \in Seen(dfs) /\ c \in Neighbours(live, x) /\ c # x
  BY <1>1, CutByFacts
<1>9. \A v \in W : root(v) \in Vertices
  <2>1. dfs.root[x] \in Vertices /\ Seen(dfs) \subseteq Vertices
    BY <1>1 DEF ArtTyped
  <2>. QED
    BY <1>7, <1>8, <2>1
<1>10. ArtTyped(r)
  <2>1. /\ S \subseteq Vertices
        /\ d.tin \in [S -> Nat] /\ d.tout \in [S -> Nat] /\ d.low \in [S -> Nat]
        /\ d.par \in [S -> Vertices] /\ d.root \in [S -> Vertices]
    BY <1>2 DEF ArtTyped
  <2>2. r.root \in [S -> Vertices]
    <3>1. \A v \in S : (IF v \in W THEN root(v) ELSE d.root[v]) \in Vertices
      BY <1>9, <2>1
    <3>. QED
      BY <1>5, <3>1
  <2>3. r.par \in [S -> Vertices]
    <3>1. \A v \in S : (IF v \in W /\ v = root(v) THEN v ELSE d.par[v]) \in Vertices
      BY <2>1
    <3>. QED
      BY <1>5, <3>1
  <2>. QED
    BY <1>5, <1>6, <2>1, <2>2, <2>3 DEF ArtTyped
<1>11. ASSUME NEW v \in S, CutBy(dfs, live, x, v) PROVE r.par[v] = v
  <2>1. v \in W
    BY <1>8, <1>11 DEF W, ReusesArtifact, LeftWhole
  <2>2. v \in Subtree(dfs, v)
    BY <1>1, SubtreeFacts DEF Coarse
  <2>3. root(v) = v
    BY <1>11, <2>1, <2>2, RootForFacts DEF W, root
  <2>. QED
    BY <1>5, <2>1, <2>3
<1>12. ASSUME NEW v \in S, ~CutBy(dfs, live, x, v) PROVE r.par[v] = dfs.par[v]
  <2>1. CASE v \in W /\ v = root(v)
    <3>1. v = dfs.root[x]
      BY <1>7, <1>12, <2>1
    <3>2. dfs.par[v] = v
      BY <1>1, <3>1 DEF Parents
    <3>. QED
      BY <1>5, <2>1, <3>2
  <2>2. CASE ~(v \in W /\ v = root(v))
    BY <1>2, <1>5, <2>2
  <2>. QED
    BY <2>1, <2>2
<1>13. \A v \in S : r.root[v] = IF v \in W THEN root(v) ELSE dfs.root[v]
  BY <1>2, <1>5
<1>14. \A v \in S : /\ r.tin[v] = dfs.tin[v] /\ r.tout[v] = dfs.tout[v] /\ r.low[v] = dfs.low[v]
                    /\ Subtree(r, v) = Subtree(dfs, v) \ {x}
  BY <1>2, <1>5, <1>6
<1>. QED
  BY <1>6, <1>10, <1>11, <1>12, <1>13, <1>14 DEF W, root

LEMMA RerootedCoarse ==
  ASSUME NEW x, ReusesArtifact(x)
  PROVE  Coarse(Rerooted(x), EdgesWithout(x)) /\ Seen(Rerooted(x)) = Seen(dfs) \ {x}
<1>. DEFINE F == EdgesWithout(x)
            S == Seen(dfs) \ {x}
<1>0. PICK r : r = Rerooted(x)
  OBVIOUS
<1>1. /\ ArtTyped(r) /\ Seen(r) = S
      /\ \A v \in S : /\ r.tin[v] = dfs.tin[v] /\ r.tout[v] = dfs.tout[v]
                      /\ r.low[v] = dfs.low[v]
                      /\ Subtree(r, v) = Subtree(dfs, v) \ {x}
      /\ \A v \in S : r.root[v] = IF v \in Left(x) THEN RootFor(x, BucketOf(x, v)) ELSE dfs.root[v]
      /\ \A v \in S : /\ CutBy(dfs, live, x, v) => r.par[v] = v
                      /\ ~CutBy(dfs, live, x, v) => r.par[v] = dfs.par[v]
  BY <1>0, RerootedFacts
<1>2. /\ live \in SUBSET AllEdges /\ x \in Seen(dfs)
      /\ ArtTyped(dfs) /\ Stretches(dfs) /\ Parents(dfs)
      /\ Whole(dfs, live) /\ NoCross(dfs, live) /\ CutsOff(dfs, live)
      /\ Coarse(dfs, live) /\ S \subseteq Vertices
  BY DEF ReusesArtifact, LeftWhole, Reusable, Coarse, ArtTyped
<1>3. \A v, y : y \in Neighbours(F, v) <=> y \in Neighbours(live, v) /\ v # x /\ y # x
  BY <1>2, WithoutFacts DEF Without, EdgesWithout
<1>. HIDE DEF F
<1>4. Stretches(r)
  <2>1. \A v \in S : \A u \in Subtree(r, v) : u \in S /\ u \in Subtree(dfs, v)
    BY <1>1 DEF Subtree
  <2>. QED
    BY <1>1, <1>2, <2>1 DEF Stretches
<1>5. \A v \in S : r.par[v] = v \/ r.par[v] = dfs.par[v]
  BY <1>1
<1>6. Parents(r)
  <2>1. ASSUME NEW c \in S, r.par[c] \in S
        PROVE  /\ c \in Subtree(r, r.par[c])
               /\ \A w \in S : c \in Subtree(r, w) /\ c # w /\ c # r.par[c] => r.par[c] \in Subtree(r, w)
    <3>1. CASE r.par[c] = c
      BY <1>1, <1>2, <3>1, SubtreeFacts
    <3>2. CASE r.par[c] = dfs.par[c]
      BY <1>1, <1>2, <2>1, <3>2 DEF Parents
    <3>. QED
      BY <1>5, <3>1, <3>2
  <2>2. ASSUME NEW v \in S, r.root[v] \in S PROVE r.par[r.root[v]] = r.root[v]
    <3>1. CASE v \notin Left(x)
      <4>1. r.root[v] = dfs.root[v] /\ dfs.par[dfs.root[v]] = dfs.root[v]
        BY <1>1, <1>2, <2>2, <3>1 DEF Parents
      <4>. QED
        BY <1>5, <2>2, <4>1
    <3>2. CASE v \in Left(x) /\ NoneCuts(x, v)
      <4>1. r.root[v] = dfs.root[x]
        BY <1>1, <3>2, RootForFacts
      <4>2. dfs.par[dfs.root[x]] = dfs.root[x]
        BY <1>2, <2>2, <4>1 DEF Parents
      <4>. QED
        BY <1>5, <2>2, <4>1, <4>2
    <3>3. CASE v \in Left(x) /\ ~NoneCuts(x, v)
      <4>1. PICK c : CutBy(dfs, live, x, c) /\ v \in Subtree(dfs, c)
        BY <3>3 DEF NoneCuts
      <4>2. r.root[v] = c
        BY <1>1, <3>3, <4>1, RootForFacts
      <4>. QED
        BY <1>1, <2>2, <4>1, <4>2
    <3>. QED
      BY <3>1, <3>2, <3>3
  <2>. QED
    BY <1>1, <2>1, <2>2 DEF Parents
<1>7. Whole(r, F)
  <2>1. ASSUME NEW v \in S, NEW u \in Neighbours(F, v) PROVE u \in S /\ r.root[u] = r.root[v]
    <3>1. u \in Neighbours(live, v) /\ u # x /\ v # x
      BY <1>3
    <3>2. u \in S /\ dfs.root[u] = dfs.root[v]
      BY <1>2, <3>1 DEF Whole
    <3>3. u \in Vertices \ {x} /\ v \in Vertices \ {x}
      BY <1>2, <3>1, <3>2
    <3>4. u \in Left(x) <=> v \in Left(x)
      BY <3>1, <3>3 DEF ReusesArtifact, LeftWhole
    <3>5. BucketOf(x, v) = BucketOf(x, u)
      BY <1>2, <3>1, <3>3, BucketsMeet DEF BucketOf
    <3>. QED
      BY <1>1, <3>2, <3>4, <3>5
  <2>. QED
    BY <1>1, <2>1 DEF Whole
<1>8. NoCross(r, F)
  <2>1. ASSUME NEW v \in S, NEW u \in Neighbours(F, v) PROVE u \in Subtree(r, v) \/ v \in Subtree(r, u)
    <3>1. u \in Neighbours(live, v) /\ u # x /\ v # x
      BY <1>3
    <3>2. u \in S /\ (u \in Subtree(dfs, v) \/ v \in Subtree(dfs, u))
      BY <1>2, <3>1 DEF Whole, NoCross
    <3>. QED
      BY <1>1, <3>1, <3>2
  <2>. QED
    BY <1>1, <2>1 DEF NoCross
<1>9. CutsOff(r, F)
  <2>. SUFFICES ASSUME NEW v \in S, NEW c \in S, TakenForCut(r, v, c),
                       NEW w \in Subtree(r, c), NEW y \in Neighbours(F, w), y # v
                PROVE  y \in Subtree(r, c)
    BY <1>1 DEF CutsOff
  <2>1. dfs.par[c] = v /\ c # v /\ (r.par[v] = v \/ dfs.low[c] >= dfs.tin[v])
    BY <1>1, <1>5 DEF TakenForCut
  <2>2. w \in Subtree(dfs, c) /\ y \in Neighbours(live, w) /\ y # x /\ w # x
    BY <1>1, <1>3
  <2>3. y \in Subtree(dfs, c)
    <3>1. CASE TakenForCut(dfs, v, c)
      BY <1>2, <2>2, <3>1 DEF CutsOff
    <3>2. CASE ~TakenForCut(dfs, v, c)
      <4>1. r.par[v] = v /\ dfs.par[v] # v
        BY <2>1, <3>2 DEF TakenForCut
      <4>2. CutBy(dfs, live, x, v)
        BY <1>1, <4>1
      <4>3. TakenForCut(dfs, x, v) /\ v \in Seen(dfs)
        BY <1>2, <4>2, CutByFacts
      <4>4. c \in Subtree(dfs, v)
        BY <1>2, <2>1 DEF Parents
      <4>5. w \in Subtree(dfs, v)
        BY <1>2, <2>2, <4>3, <4>4, SubtreeFacts
      <4>6. y \in Subtree(dfs, v)
        BY <1>2, <2>2, <4>3, <4>5 DEF CutsOff
      <4>7. w \in Seen(dfs) /\ y \in Seen(dfs)
        BY <2>2, <4>6 DEF Subtree
      <4>8. y \in Subtree(dfs, w) \/ w \in Subtree(dfs, y)
        BY <1>2, <2>2, <4>7 DEF NoCross
      <4>9. CASE y \in Subtree(dfs, w)
        BY <1>2, <2>2, <4>9, SubtreeFacts
      <4>10. CASE w \in Subtree(dfs, y)
        <5>1. y \in Subtree(dfs, c) \/ c \in Subtree(dfs, y)
          BY <1>2, <2>2, <4>7, <4>10, SubtreeFacts
        <5>2. CASE c \in Subtree(dfs, y) /\ c # y
          <6>1. v \in Subtree(dfs, y)
            BY <1>2, <2>1, <4>7, <5>2 DEF Parents
          <6>2. y = v
            BY <1>2, <4>6, <4>7, <6>1, SubtreeFacts
          <6>. QED
            BY <6>2
        <5>3. CASE c = y
          BY <1>2, <5>3, SubtreeFacts
        <5>. QED
          BY <5>1, <5>2, <5>3
      <4>. QED
        BY <4>8, <4>9, <4>10
    <3>. QED
      BY <3>1, <3>2
  <2>. QED
    BY <1>1, <2>2, <2>3
<1>10. Coarse(r, F)
  BY <1>1, <1>4, <1>6, <1>7, <1>8, <1>9 DEF Coarse
<1>. QED
  BY <1>0, <1>1, <1>10 DEF F

--------------------------------------------------------------------------------
(* The trees of a fresh artifact are groups no edge leaves.                 *)
LEMMA TreesGroup ==
  ASSUME NEW E \in SUBSET AllEdges, NEW S \in SUBSET Vertices, Closed(S, E),
         NEW a, Searched(a, S, AdjIn(S, E))
  PROVE  Groups(Trees(a), S, E)
<1>1. Coarse(a, E) /\ Seen(a) = S
  BY FreshCoarse
<1>2. IsFiniteSet(S) /\ Cardinality(S) \in Nat
  BY VerticesAssumption, FS_Subset, FS_CardinalityType
<1>3. /\ \A v \in S : a.tin[v] \in 1 .. Cardinality(S)
      /\ \A u, v \in S : a.tin[u] = a.tin[v] => u = v
  BY DEF Searched, Walk, WalkTyped, OneTime
<1>4. \A v \in S : a.root[v] \in S /\ a.par[a.root[v]] = a.root[v]
  <2>1. PICK adj : adj = AdjIn(S, E)
    OBVIOUS
  <2>2. Graph(S, adj) /\ Searched(a, S, adj)
    BY <2>1, AdjInFacts
  <2>3. \A v \in S : a.par[v] \in S /\ a.root[v] \in S
    BY <2>2, SearchedFacts
  <2>4. \A v \in S : a.par[a.root[v]] = a.root[v] /\ v \in Subtree(a, a.root[v])
    BY <2>2, SearchedFacts
  <2>. QED
    BY <2>3, <2>4
<1>. DEFINE met == [i \in 1 .. Cardinality(S) |-> CHOOSE v \in S : a.tin[v] = i]
            tops == {v \in S : a.par[v] = v}
            roots == Picked(met, tops)
            g == Trees(a)
<1>5. Lists(met, S)
  <2>1. PICK m : m = met
    OBVIOUS
  <2>2. m = [i \in 1 .. Cardinality(S) |-> CHOOSE v \in S : a.tin[v] = i]
    BY <2>1
  <2>. HIDE DEF met
  <2>3. Lists(m, S)
    <3>1. PICK f : f = a.tin
      OBVIOUS
    <3>2. ByPlace(S, f, m)
      BY <1>2, <1>3, <2>2, <3>1 DEF ByPlace
    <3>. QED
      BY ONLY <3>2, ListByPlace
  <2>. QED
    BY <2>1, <2>3
<1>6. g = [i \in DOMAIN roots |-> Picked(met, {v \in S : a.root[v] = roots[i]})]
  BY <1>1 DEF Trees
<1>7. tops \subseteq S /\ \A v \in S : v \in tops <=> a.par[v] = v
  OBVIOUS
<1>. HIDE DEF met, g
<1>8. Lists(roots, S \cap tops)
  BY <1>5, PickedLists
<1>9. S \cap tops = tops
  BY <1>7
<1>. HIDE DEF tops, roots
<1>10. Lists(roots, tops)
  BY <1>8, <1>9
<1>11. /\ Len(roots) \in Nat /\ DOMAIN roots = 1 .. Len(roots)
       /\ \A i \in 1 .. Len(roots) : roots[i] \in tops
       /\ \A v \in tops : \E i \in 1 .. Len(roots) : roots[i] = v
       /\ \A i, j \in 1 .. Len(roots) : roots[i] = roots[j] => i = j
  BY <1>10, ListFacts
<1>12. Len(g) = Len(roots)
  BY <1>6, <1>11
<1>13. ASSUME NEW k \in 1 .. Len(roots)
       PROVE  /\ Lists(g[k], {v \in S : a.root[v] = roots[k]})
              /\ Range(g[k]) = {v \in S : a.root[v] = roots[k]}
              /\ \A v : v \in Range(g[k]) <=> v \in S /\ a.root[v] = roots[k]
  <2>. DEFINE T == {v \in S : a.root[v] = roots[k]}
  <2>1. g[k] = Picked(met, T)
    BY <1>6, <1>11
  <2>2. S \cap T = T
    OBVIOUS
  <2>. HIDE DEF T
  <2>3. Lists(g[k], T)
    BY <1>5, <2>1, <2>2, PickedLists
  <2>4. Range(g[k]) = T
    BY <2>3 DEF Lists
  <2>. QED
    BY <2>3, <2>4 DEF T
<1>14. ASSUME NEW k \in 1 .. Len(roots)
       PROVE  Closed(Range(g[k]), E)
  <2>1. \A v \in Range(g[k]) : Neighbours(E, v) \subseteq Range(g[k])
    <3>1. \A v : v \in Range(g[k]) <=> v \in S /\ a.root[v] = roots[k]
      BY <1>13
    <3>2. \A v \in S : \A u \in Neighbours(E, v) : u \in S /\ a.root[u] = a.root[v]
      BY <1>1 DEF Coarse, Whole
    <3>. QED
      BY ONLY <3>1, <3>2
  <2>2. Range(g[k]) \in SUBSET Vertices
    BY <1>13
  <2>. QED
    BY <2>1, <2>2, NeighboursFacts
<1>19. \A k \in 1 .. Len(roots) : \A v : v \in Range(g[k]) <=> v \in S /\ a.root[v] = roots[k]
  BY <1>13
<1>15. ASSUME NEW v \in S PROVE \E k \in 1 .. Len(roots) : v \in Range(g[k])
  <2>1. a.root[v] \in tops
    BY <1>4, <1>7
  <2>2. PICK k \in 1 .. Len(roots) : roots[k] = a.root[v]
    BY <1>11, <2>1
  <2>. QED
    BY <1>19, <2>2
<1>16. Disjoint(g)
  <2>1. ASSUME NEW j \in 1 .. Len(roots), NEW k \in 1 .. Len(roots), NEW v,
               v \in Range(g[j]), v \in Range(g[k])
        PROVE  j = k
    <3>1. roots[j] = roots[k]
      BY <1>19, <2>1
    <3>. QED
      BY <1>11, <3>1
  <2>. QED
    BY <1>12, <2>1 DEF Disjoint
<1>17. \A k \in 1 .. Len(roots) : Lists(g[k], Range(g[k])) /\ Range(g[k]) \subseteq S
  BY <1>13
<1>18. Groups(g, S, E)
  BY <1>11, <1>12, <1>14, <1>15, <1>16, <1>17 DEF Groups
<1>. QED
  BY <1>18 DEF g

(* The invariant of the topology: every live vertex has a handle, the ends  *)
(* of a live edge the same one, and the artifact is coarse.                 *)
Filing(h, E, A) ==
  /\ E \in SUBSET AllEdges /\ A \in SUBSET Vertices
  /\ \A e \in E : e[1] \in A /\ e[2] \in A
  /\ Held(h)
  /\ \A v \in Vertices : h.of[v] # 0 <=> v \in A
  /\ \A e \in E : h.of[e[1]] = h.of[e[2]]

Reported == [of |-> compOf, comps |-> comps, created |-> created]

TopoInv ==
  Filing(Reported, live, alive) /\ Coarse(dfs, live) /\ Seen(dfs) \subseteq alive

LEMMA TopoInvBegins ==
  ASSUME TopoInit, live \in SUBSET AllEdges
  PROVE  TopoInv
<1>. DEFINE h == AssignEach(NoHandles, AllComponents(live), FALSE)
<1>1. Held(NoHandles)
  <2>1. NoHandles \in HandleRecord
    BY DEF NoHandles, HandleRecord
  <2>2. /\ \A v \in Vertices : NoHandles.of[v] \in 0 .. Len(NoHandles.comps)
        /\ Len(NoHandles.comps) = 0 /\ Len(NoHandles.created) = 0
    BY DEF NoHandles
  <2>. QED
    BY <2>1, <2>2 DEF Held, HeldBut
<1>2. HeldBut(NoHandles, Vertices)
  BY <1>1 DEF Held, HeldBut, NoHandles
<1>3. GroupsGetHandles(NoHandles, Vertices, live, AllComponents(live), FALSE, h)
  BY <1>2, AllComponentsGroup DEF GroupsGetHandles, AllEdges
<1>. HIDE DEF h
<1>4. Held(h) /\ (\A v \in Vertices : h.of[v] # 0) /\ \A e \in live : h.of[e[1]] = h.of[e[2]]
  <2>1. PICK no, g, o : no = NoHandles /\ g = AllComponents(live) /\ o = FALSE
    OBVIOUS
  <2>2. GroupsGetHandles(no, Vertices, live, g, o, h)
    BY <1>3, <2>1
  <2>. QED
    BY ONLY <2>2, GroupsAssigned
<1>5. Held(Reported)
  <2>1. Reported = [of |-> h.of, comps |-> h.comps, created |-> <<>>]
    BY DEF TopoInit, Reported, h
  <2>. QED
    BY <1>4, <2>1, HandlesReported
<1>6. Reported.of = h.of /\ alive = Vertices
  BY DEF TopoInit, Reported, h
<1>7. Filing(Reported, live, alive)
  <2>1. \A e \in live : e[1] \in Vertices /\ e[2] \in Vertices
    BY DEF AllEdges
  <2>. QED
    BY <1>4, <1>5, <1>6, <2>1 DEF Filing
<1>8. Searched(dfs, Vertices, AdjIn(Vertices, live))
  <2>1. Lists(Ascending(Vertices), Vertices)
    BY VerticesAssumption, AscendingLists
  <2>2. dfs = Artifact(Ascending(Vertices), live)
    BY DEF TopoInit
  <2>. QED
    BY <2>1, <2>2, ArtifactSearched
<1>9. Closed(Vertices, live)
  BY DEF Closed, AllEdges
<1>10. Coarse(dfs, live) /\ Seen(dfs) = Vertices
  BY <1>8, <1>9, FreshCoarse
<1>. QED
  BY <1>6, <1>7, <1>10 DEF TopoInv

LEMMA RecordClosed ==
  ASSUME NEW k, k \in CompRecord, NEW b, NEW w
  PROVE  [k EXCEPT !.verts = w, !.open = b] = [verts |-> w, open |-> b, ordered |-> k.ordered]
<1>1. PICK f, g, h : k = [verts |-> f, open |-> g, ordered |-> h]
  BY DEF CompRecord
<1>2. k.ordered = h
  BY <1>1
<1>3. PICK m : m = [k EXCEPT !.verts = w]
  OBVIOUS
<1>4. m = [verts |-> w, open |-> g, ordered |-> h]
  BY <1>1, <1>3
<1>5. [m EXCEPT !.open = b] = [verts |-> w, open |-> b, ordered |-> h]
  BY <1>4
<1>. QED
  BY <1>2, <1>3, <1>5

(* The members of the old handle. *)
LEMMA OldHandle ==
  ASSUME TopoInv, NEW x \in alive
  PROVE  /\ x \in Vertices /\ compOf[x] \in 1 .. Len(comps) /\ Len(comps) \in Nat
         /\ Held(Handles) /\ Handles.of = compOf /\ Handles.comps = comps /\ Handles.created = <<>>
         /\ Lists(comps[compOf[x]].verts, Members(Handles, compOf[x]))
         /\ x \in Members(Handles, compOf[x])
         /\ comps[compOf[x]].ordered => \A u \in Members(Handles, compOf[x]) : u = x
         /\ \A v : v \in Members(Handles, compOf[x]) <=> v \in alive /\ compOf[v] = compOf[x]
<1>. DEFINE c == compOf[x]
            h == Handles
<1>1. x \in Vertices /\ alive \in SUBSET Vertices
  BY DEF TopoInv, Filing
<1>2. Held(Reported) /\ Reported.of = compOf /\ Reported.comps = comps
  BY DEF TopoInv, Filing, Reported
<1>3. h.of = compOf /\ h.comps = comps /\ h.created = <<>>
  BY DEF Handles
<1>4. h = [of |-> Reported.of, comps |-> Reported.comps, created |-> <<>>]
  BY <1>2 DEF Handles
<1>. HIDE DEF h
<1>5. Held(h)
  BY <1>2, <1>4, HandlesReported
<1>6. \A v \in Vertices : compOf[v] # 0 <=> v \in alive
  BY <1>2 DEF TopoInv, Filing
<1>7. \A v \in Vertices : compOf[v] \in 0 .. Len(comps)
  BY <1>3, <1>5 DEF Held, HeldBut
<1>8. comps \in Seq(CompRecord)
  BY <1>3, <1>5 DEF Held, HeldBut, HandleRecord
<1>9. Len(comps) \in Nat
  BY <1>8
<1>10. c \in 1 .. Len(comps)
  BY <1>1, <1>6, <1>7, <1>9
<1>11. \A v : v \in Members(h, c) <=> v \in Vertices /\ compOf[v] = c
  BY <1>3 DEF Members
<1>12. x \in Members(h, c)
  BY <1>1, <1>11
<1>13. Filed(h, c, {}) /\ (comps[c].ordered => \A u, v \in Members(h, c) : u = v)
  BY <1>3, <1>5, <1>10 DEF Held, HeldBut
<1>14. Lists(comps[c].verts, Members(h, c))
  BY <1>3, <1>12, <1>13 DEF Filed
<1>15. \A v : v \in Members(h, c) <=> v \in alive /\ compOf[v] = c
  BY <1>1, <1>6, <1>9, <1>10, <1>11
<1>. QED
  BY <1>1, <1>3, <1>5, <1>9, <1>10, <1>12, <1>13, <1>14, <1>15 DEF h

LEMMA LeftFacts ==
  ASSUME TopoInv, NEW x \in alive
  PROVE  /\ LeftWhole(x) /\ Lists(OldVerts(x), Left(x))
         /\ \A v : v \in Left(x) <=> v \in alive /\ v # x /\ compOf[v] = compOf[x]
         /\ Closed(Left(x), EdgesWithout(x))
<1>. DEFINE c == compOf[x]
            T == {v \in alive \ {x} : compOf[v] = c}
            M == Members(Handles, c)
<1>1. /\ x \in Vertices /\ Lists(comps[c].verts, M)
      /\ \A v : v \in M <=> v \in alive /\ compOf[v] = compOf[x]
  BY OldHandle
<1>2. /\ live \in SUBSET AllEdges /\ alive \in SUBSET Vertices
      /\ \A e \in live : e[1] \in alive /\ e[2] \in alive /\ compOf[e[1]] = compOf[e[2]]
  BY DEF TopoInv, Filing, Reported
<1>3. M \cap T = T
  BY <1>1
<1>4. Lists(OldVerts(x), M \cap T)
  <2>. HIDE DEF M, T
  <2>1. OldVerts(x) = Picked(comps[c].verts, T)
    BY DEF OldVerts, T
  <2>. QED
    BY <1>1, <2>1, PickedLists
<1>5. Lists(OldVerts(x), T) /\ Left(x) = T
  BY <1>3, <1>4 DEF Lists, Left
<1>6. \A v : v \in Left(x) <=> v \in alive /\ v # x /\ compOf[v] = compOf[x]
  BY <1>5
<1>7. \A u, v \in Vertices : v \in Neighbours(live, u) =>
         u \in alive /\ v \in alive /\ compOf[u] = compOf[v]
  BY <1>2 DEF Neighbours
<1>8. \A u, v \in Vertices : v \in Neighbours(live, u) => u # v
  BY <1>2, NeighboursFacts
<1>9. LeftWhole(x)
  <2>1. \A u \in Neighbours(live, x) : u \in Vertices
    BY DEF Neighbours
  <2>. QED
    BY <1>1, <1>2, <1>6, <1>7, <1>8, <2>1 DEF LeftWhole
<1>10. Closed(Left(x), EdgesWithout(x))
  BY <1>2, <1>6 DEF Closed, EdgesWithout, Touches, AllEdges
<1>. QED
  BY <1>5, <1>6, <1>9, <1>10

LEMMA DissolvedHeld ==
  ASSUME TopoInv, NEW x \in alive, NEW h, h = Dissolved(x)
  PROVE  /\ HeldBut(h, Left(x)) /\ Len(h.comps) = Len(comps)
         /\ \A v \in Vertices : h.of[v] = IF v = x \/ v \in Left(x) THEN 0 ELSE compOf[v]
<1>. DEFINE c == compOf[x]
            g == Handles
<1>1. /\ x \in Vertices /\ c \in 1 .. Len(comps) /\ Len(comps) \in Nat
      /\ Held(g) /\ g.of = compOf /\ g.comps = comps /\ g.created = <<>>
      /\ \A v : v \in Members(g, c) <=> v \in alive /\ compOf[v] = compOf[x]
  BY OldHandle
<1>2. \A v : v \in Left(x) <=> v \in alive /\ v # x /\ compOf[v] = compOf[x]
  BY LeftFacts
<1>3. /\ g \in HandleRecord /\ \A v \in Vertices : compOf[v] \in 0 .. Len(comps)
      /\ \A b \in 1 .. Len(comps) :
           Filed(g, b, {}) /\ (comps[b].ordered => \A u, v \in Members(g, b) : u = v)
  BY <1>1 DEF Held, HeldBut
<1>4. /\ compOf \in [Vertices -> Nat] /\ comps \in Seq(CompRecord)
      /\ g = [of |-> compOf, comps |-> comps, created |-> <<>>]
  BY <1>1, <1>3 DEF HandleRecord, Handles
<1>. DEFINE of == [v \in Vertices |-> IF v = x \/ v \in Left(x) THEN 0 ELSE compOf[v]]
            closed == [comps[c] EXCEPT !.verts = <<>>, !.open = FALSE]
            new == [comps EXCEPT ![c] = closed]
<1>5. h = [of |-> of, comps |-> new, created |-> <<>>]
  BY <1>4 DEF Dissolved, Left
<1>6. closed \in CompRecord /\ closed.ordered = comps[c].ordered
  <2>1. comps[c] \in CompRecord
    BY <1>1, <1>4
  <2>2. PICK k, b, w : k = comps[c] /\ b = FALSE /\ w = <<>>
    OBVIOUS
  <2>3. k \in CompRecord
    BY ONLY <2>1, <2>2
  <2>4. [k EXCEPT !.verts = w, !.open = b] = [verts |-> w, open |-> b, ordered |-> k.ordered]
    BY ONLY <2>3, RecordClosed
  <2>5. closed = [verts |-> w, open |-> b, ordered |-> k.ordered]
    BY ONLY <2>2, <2>4
  <2>6. w \in Seq(Vertices)
    <3>1. w = <<>>
      BY <2>2
    <3>. QED
      BY ONLY <3>1
  <2>8. b \in BOOLEAN
    BY ONLY <2>2
  <2>7. k.ordered \in BOOLEAN
    BY ONLY <2>3 DEF CompRecord
  <2>. HIDE DEF closed
  <2>. QED
    BY <2>2, <2>5, <2>6, <2>7, <2>8 DEF CompRecord
<1>7. new \in Seq(CompRecord) /\ Len(new) = Len(comps)
  <2>. HIDE DEF closed
  <2>. QED
    BY <1>1, <1>4, <1>6
<1>8. \A b \in 1 .. Len(comps) : new[b] = IF b = c THEN closed ELSE comps[b]
  <2>. HIDE DEF closed
  <2>. QED
    BY <1>1, <1>4
<1>9. of \in [Vertices -> Nat] /\ \A v \in Vertices : of[v] \in 0 .. Len(comps)
  BY <1>1, <1>3
<1>10. \A v \in Vertices : of[v] = IF v = x \/ v \in Left(x) THEN 0 ELSE compOf[v]
  OBVIOUS
<1>. HIDE DEF closed, new, of, g
<1>11. h.of = of /\ h.comps = new /\ h.created = <<>>
  BY <1>5
<1>12. h \in HandleRecord
  BY <1>5, <1>7, <1>9 DEF HandleRecord
<1>13. ASSUME NEW b \in 1 .. Len(comps)
       PROVE  Filed(h, b, Left(x)) /\ (new[b].ordered => \A u, v \in Members(h, b) : u = v)
  <2>1. CASE b = c
    <3>1. Members(h, b) = {}
      BY <1>1, <1>2, <1>3, <1>4, <1>9, <1>10, <1>11, <2>1 DEF Members
    <3>. QED
      BY <3>1 DEF Filed
  <2>2. CASE b # c
    <3>1. /\ Members(h, b) = Members(g, b)
          /\ Members(g, b) \cap Left(x) = {}
      BY <1>1, <1>2, <1>10, <1>11, <2>2 DEF Members
    <3>2. new[b] = comps[b]
      BY <1>8, <2>2
    <3>3. Members(g, b) = {} \/ Lists(comps[b].verts, Members(g, b))
      BY <1>1, <1>3 DEF Filed
    <3>. QED
      BY <1>3, <1>11, <3>1, <3>2, <3>3 DEF Filed
  <2>. QED
    BY <2>1, <2>2
<1>14. HeldBut(h, Left(x))
  <2>1. \A i \in 1 .. Len(h.created) : h.created[i] \in 1 .. Len(h.comps)
    BY <1>11
  <2>. QED
    BY <1>7, <1>9, <1>11, <1>12, <1>13, <2>1 DEF HeldBut
<1>. QED
  BY <1>7, <1>10, <1>11, <1>14

(* Searching again. *)
SearchedAgain(x, h, a, r) ==
  /\ HeldBut(h, Left(x))
  /\ \A v \in Vertices : v \notin Left(x) => h.of[v] = IF v = x THEN 0 ELSE compOf[v]
  /\ a = Artifact(OldVerts(x), EdgesWithout(x))
  /\ r = AssignEach(h, Trees(a), FALSE)

LEMMA SearchAgainFiles ==
  ASSUME TopoInv, NEW x \in alive, NEW h, NEW a, NEW r, SearchedAgain(x, h, a, r)
  PROVE  /\ Filing(r, EdgesWithout(x), alive \ {x})
         /\ Coarse(a, EdgesWithout(x)) /\ Seen(a) = Left(x)
         /\ Searched(a, Left(x), AdjIn(Left(x), EdgesWithout(x)))
<1>. DEFINE E == EdgesWithout(x)
            S == Left(x)
<1>1. /\ LeftWhole(x) /\ Lists(OldVerts(x), S) /\ Closed(S, E)
      /\ \A v : v \in S <=> v \in alive /\ v # x /\ compOf[v] = compOf[x]
  BY LeftFacts
<1>2. /\ live \in SUBSET AllEdges /\ alive \in SUBSET Vertices
      /\ \A e \in live : e[1] \in alive /\ e[2] \in alive /\ compOf[e[1]] = compOf[e[2]]
      /\ \A v \in Vertices : compOf[v] # 0 <=> v \in alive
  BY DEF TopoInv, Filing, Reported
<1>3. E \in SUBSET AllEdges /\ \A e \in E : e \in live /\ e[1] # x /\ e[2] # x
  BY <1>2 DEF EdgesWithout, Touches
<1>4. S \in SUBSET Vertices /\ x \notin S
  BY <1>1, <1>2
<1>5. Searched(a, S, AdjIn(S, E))
  <2>. HIDE DEF S, E
  <2>1. a = Artifact(OldVerts(x), E)
    BY DEF SearchedAgain, E
  <2>. QED
    BY <1>1, <1>3, <1>4, <2>1, ArtifactSearched
<1>6. Coarse(a, E) /\ Seen(a) = S
  <2>. HIDE DEF S, E
  <2>. QED
    BY <1>1, <1>3, <1>4, <1>5, FreshCoarse
<1>7. Groups(Trees(a), S, E)
  <2>. HIDE DEF S, E
  <2>. QED
    BY <1>1, <1>3, <1>4, <1>5, TreesGroup
<1>8. PICK g, o : g = Trees(a) /\ o = FALSE
  OBVIOUS
<1>9. /\ HeldBut(h, S) /\ r = AssignEach(h, g, o)
      /\ \A v \in Vertices : v \notin S => h.of[v] = IF v = x THEN 0 ELSE compOf[v]
  BY <1>8 DEF SearchedAgain
<1>10. \A e \in E : e[1] \notin S /\ e[2] \notin S => h.of[e[1]] = h.of[e[2]]
  BY <1>2, <1>3, <1>9 DEF AllEdges
<1>11. GroupsGetHandles(h, S, E, g, o, r)
  BY <1>3, <1>4, <1>7, <1>8, <1>9, <1>10 DEF GroupsGetHandles
<1>. HIDE DEF E, S
<1>12. /\ Held(r) /\ (\A v \in S : r.of[v] # 0) /\ (\A v \in Vertices \ S : r.of[v] = h.of[v])
       /\ \A e \in E : r.of[e[1]] = r.of[e[2]]
  BY ONLY <1>11, GroupsAssigned
<1>13. \A v \in Vertices : r.of[v] # 0 <=> v \in alive \ {x}
  BY <1>1, <1>2, <1>9, <1>12
<1>14. Filing(r, E, alive \ {x})
  BY <1>2, <1>3, <1>12, <1>13 DEF Filing
<1>. QED
  BY <1>5, <1>6, <1>14 DEF E, S

(* Members leave a handle, and it is closed or kept open. *)
Leaving(h, c, gone, r) ==
  /\ Held(h) /\ c \in 1 .. Len(h.comps) /\ Members(h, c) # {}
  /\ Len(gone) \in Nat /\ DOMAIN gone = 1 .. Len(gone) /\ Range(gone) \subseteq Members(h, c)
  /\ r = WithoutMembers(h, c, gone)

LEMMA HandleLeft ==
  ASSUME NEW h, NEW c, NEW gone, NEW r, Leaving(h, c, gone, r)
  PROVE  /\ Held(r) /\ Len(r.comps) = Len(h.comps)
         /\ r.of = [v \in Vertices |-> IF v \in Range(gone) THEN 0 ELSE h.of[v]]
<1>1. SUFFICES ASSUME Held(h), c \in 1 .. Len(h.comps), Members(h, c) # {},
                      Len(gone) \in Nat, DOMAIN gone = 1 .. Len(gone),
                      Range(gone) \subseteq Members(h, c), r = WithoutMembers(h, c, gone)
               PROVE  /\ Held(r) /\ Len(r.comps) = Len(h.comps)
                      /\ r.of = [v \in Vertices |-> IF v \in Range(gone) THEN 0 ELSE h.of[v]]
  BY DEF Leaving
<1>. QED
  BY ONLY <1>1, MembersLeave

(* The routes of a deletion. *)
LEMMA TopoInvKept ==
  ASSUME NEW h, NEW x, Keep(h), TakeOut(x), Filing(h, EdgesWithout(x), alive \ {x}),
         Coarse(dfs', EdgesWithout(x)), Seen(dfs') \subseteq alive \ {x}
  PROVE  TopoInv'
<1>1. h = [of |-> h.of, comps |-> h.comps, created |-> h.created]
  BY DEF Filing, Held, HeldBut, HandleRecord
<1>2. Reported' = h
  BY <1>1 DEF Reported, Keep
<1>3. live' = EdgesWithout(x) /\ alive' = alive \ {x}
  BY DEF TakeOut
<1>4. Filing(Reported', live', alive')
  BY <1>2, <1>3
<1>. QED
  BY <1>3, <1>4 DEF TopoInv, Filing, Held

\* Every vertex but x keeps its handle.
LEMMA FilingWithout ==
  ASSUME TopoInv, NEW x \in alive, NEW h, Held(h),
         \A v \in Vertices : h.of[v] = IF v = x THEN 0 ELSE compOf[v]
  PROVE  Filing(h, EdgesWithout(x), alive \ {x})
<1>1. /\ live \in SUBSET AllEdges /\ alive \in SUBSET Vertices
      /\ \A e \in live : e[1] \in alive /\ e[2] \in alive /\ compOf[e[1]] = compOf[e[2]]
      /\ \A v \in Vertices : compOf[v] # 0 <=> v \in alive
  BY DEF TopoInv, Filing, Reported
<1>2. EdgesWithout(x) \in SUBSET AllEdges
      /\ \A e \in EdgesWithout(x) : e \in live /\ e[1] # x /\ e[2] # x
  BY <1>1 DEF EdgesWithout, Touches
<1>. QED
  BY <1>1, <1>2 DEF Filing

LEMMA PathOrderedFiles ==
  ASSUME TopoInv, NEW x \in alive, PathOrderedDelete(x)
  PROVE  TopoInv'
<1>. DEFINE c == compOf[x]
            verts == comps[c].verts
            at == CHOOSE i \in DOMAIN verts : verts[i] = x
            left == SubSeq(verts, 1, at - 1)
            right == SubSeq(verts, at + 1, Len(verts))
            keepLeft == left # <<>> /\ Len(left) >= Len(right)
            kept == IF keepLeft THEN left ELSE right
            moved == IF keepLeft THEN right ELSE left
            h == [Handles EXCEPT !.of[x] = 0, !.comps[c].verts = kept,
                                 !.comps[c].open = kept # <<>>,
                                 !.created = IF kept = <<>> THEN <<>> ELSE <<c>>]
<1>1. /\ OnOrderedPath(x) /\ TakeOut(x) /\ dfs' = NoArtifact
      /\ Keep(IF moved = <<>> THEN h ELSE AssignMembers(h, moved, TRUE))
  BY DEF PathOrderedDelete
<1>2. /\ x \in Vertices /\ c \in 1 .. Len(comps) /\ Len(comps) \in Nat
      /\ Held(Handles) /\ Handles.of = compOf /\ Handles.comps = comps /\ Handles.created = <<>>
      /\ Lists(verts, Members(Handles, c)) /\ x \in Members(Handles, c)
      /\ \A v : v \in Members(Handles, c) <=> v \in alive /\ compOf[v] = compOf[x]
  BY OldHandle
<1>3. comps[c].ordered => \A u \in Members(Handles, c) : u = x
  BY OldHandle
<1>4. Members(Handles, c) = {x}
  BY <1>1, <1>2, <1>3 DEF OnOrderedPath
<1>5. /\ Len(verts) \in Nat /\ DOMAIN verts = 1 .. Len(verts)
      /\ \A i \in 1 .. Len(verts) : verts[i] = x
      /\ \E i \in 1 .. Len(verts) : verts[i] = x
      /\ \A i, j \in 1 .. Len(verts) : verts[i] = verts[j] => i = j
  <2>. HIDE DEF verts
  <2>1. Lists(verts, {x})
    BY <1>2, <1>4
  <2>. QED
    BY <2>1, ListFacts
<1>6. Len(verts) = 1
  <2>. HIDE DEF verts
  <2>1. Len(verts) >= 1
    BY <1>5
  <2>2. Len(verts) >= 2 => verts[1] = verts[2]
    BY <1>5
  <2>. QED
    BY <1>5, <2>1, <2>2
<1>7. at = 1
  <2>. HIDE DEF verts
  <2>1. at \in DOMAIN verts
    BY <1>5
  <2>. QED
    BY <1>5, <1>6, <2>1
<1>8. left = <<>> /\ right = <<>>
  <2>1. verts \in Seq({x})
    BY <1>2, <1>4 DEF Lists
  <2>. HIDE DEF verts, at
  <2>. QED
    BY <1>6, <1>7, <2>1
<1>. HIDE DEF left, right
<1>9. ~keepLeft /\ kept = <<>> /\ moved = <<>>
  BY <1>8
<1>10. h = [Handles EXCEPT !.of[x] = 0, !.comps[c].verts = <<>>,
                           !.comps[c].open = FALSE, !.created = <<>>]
  <2>1. (kept # <<>>) = FALSE
    BY <1>9
  <2>2. (IF kept = <<>> THEN <<>> ELSE <<c>>) = <<>>
    BY <1>9
  <2>. HIDE DEF kept
  <2>. QED
    BY <1>9, <2>1, <2>2
<1>11. Keep(h)
  <2>. HIDE DEF h, moved
  <2>. QED
    BY <1>1, <1>9
<1>. HIDE DEF h
<1>12. Held(h) /\ \A v \in Vertices : h.of[v] = IF v = x THEN 0 ELSE compOf[v]
  <2>. DEFINE g == Handles
  <2>1. /\ g \in HandleRecord /\ \A v \in Vertices : compOf[v] \in 0 .. Len(comps)
        /\ \A b \in 1 .. Len(comps) :
             Filed(g, b, {}) /\ (comps[b].ordered => \A u, v \in Members(g, b) : u = v)
    BY <1>2 DEF Held, HeldBut
  <2>2. /\ compOf \in [Vertices -> Nat] /\ comps \in Seq(CompRecord)
        /\ g = [of |-> compOf, comps |-> comps, created |-> <<>>]
    BY <1>2, <2>1 DEF HandleRecord, Handles
  <2>3. DOMAIN comps = 1 .. Len(comps) /\ comps[c] \in CompRecord
    BY <1>2, <2>2
  <2>4. PICK k, b, w : k = comps[c] /\ b = FALSE /\ w = <<>>
    OBVIOUS
  <2>5. [k EXCEPT !.verts = w, !.open = b] = [verts |-> w, open |-> b, ordered |-> k.ordered]
    BY ONLY <2>3, <2>4, RecordClosed
  <2>. DEFINE closed == [verts |-> w, open |-> b, ordered |-> k.ordered]
              of == [compOf EXCEPT ![x] = 0]
              new == [comps EXCEPT ![c] = closed]
  <2>6. h = [of |-> of, comps |-> new, created |-> <<>>]
    <3>1. PICK f, m : f = compOf /\ m = comps
      OBVIOUS
    <3>2. h = [[of |-> f, comps |-> m, created |-> <<>>]
                 EXCEPT !.of[x] = 0, !.comps[c].verts = w, !.comps[c].open = b, !.created = <<>>]
      BY <1>10, <2>2, <2>4, <3>1
    <3>3. h.of = [f EXCEPT ![x] = 0]
          /\ h.comps = [[m EXCEPT ![c] = [m[c] EXCEPT !.verts = w]] EXCEPT ![c].open = b]
          /\ h.created = <<>>
          /\ h = [of |-> h.of, comps |-> h.comps, created |-> h.created]
      BY ONLY <3>2
    <3>4. [[m EXCEPT ![c] = [m[c] EXCEPT !.verts = w]] EXCEPT ![c].open = b]
            = [m EXCEPT ![c] = [[m[c] EXCEPT !.verts = w] EXCEPT !.open = b]]
      BY <1>2, <2>3, <3>1
    <3>5. [[m[c] EXCEPT !.verts = w] EXCEPT !.open = b] = closed
      BY ONLY <2>4, <2>5, <3>1
    <3>. QED
      BY ONLY <3>1, <3>3, <3>4, <3>5
  <2>7. closed \in CompRecord /\ closed.ordered = comps[c].ordered
    <3>1. w \in Seq(Vertices)
      <4>1. w = <<>>
        BY <2>4
      <4>. QED
        BY ONLY <4>1
    <3>2. b \in BOOLEAN
      BY ONLY <2>4
    <3>3. k.ordered \in BOOLEAN
      BY ONLY <2>3, <2>4 DEF CompRecord
    <3>. QED
      BY <2>4, <3>1, <3>2, <3>3 DEF CompRecord
  <2>. HIDE DEF closed
  <2>8. new \in Seq(CompRecord) /\ Len(new) = Len(comps)
        /\ \A d \in 1 .. Len(comps) : new[d] = IF d = c THEN closed ELSE comps[d]
    BY <1>2, <2>2, <2>3, <2>7
  <2>9. of \in [Vertices -> Nat] /\ \A v \in Vertices : of[v] = IF v = x THEN 0 ELSE compOf[v]
    BY <1>2, <2>2
  <2>. HIDE DEF new, of, g
  <2>10. h.of = of /\ h.comps = new /\ h.created = <<>>
    BY <2>6
  <2>11. h \in HandleRecord
    BY <2>6, <2>8, <2>9 DEF HandleRecord
  <2>12. ASSUME NEW d \in 1 .. Len(comps)
         PROVE  Filed(h, d, {}) /\ (new[d].ordered => \A u, v \in Members(h, d) : u = v)
    <3>1. CASE d = c
      <4>1. Members(h, d) = {}
        BY <1>2, <1>4, <2>9, <2>10, <2>2, <3>1 DEF Members, g
      <4>. QED
        BY <4>1 DEF Filed
    <3>2. CASE d # c
      <4>1. Members(h, d) = Members(g, d)
        BY <1>2, <2>9, <2>10, <3>2 DEF Members, g
      <4>2. new[d] = comps[d]
        BY <2>8, <3>2
      <4>. QED
        BY <1>2, <2>1, <2>10, <4>1, <4>2 DEF Filed, g
    <3>. QED
      BY <3>1, <3>2
  <2>13. /\ \A v \in Vertices : h.of[v] \in 0 .. Len(h.comps)
         /\ \A i \in 1 .. Len(h.created) : h.created[i] \in 1 .. Len(h.comps)
    <3>1. \A v \in Vertices : h.of[v] \in 0 .. Len(h.comps)
      BY <1>2, <2>1, <2>8, <2>9, <2>10
    <3>2. Len(h.created) = 0
      BY <2>10
    <3>. QED
      BY <3>1, <3>2
  <2>14. Held(h)
    BY <2>8, <2>10, <2>11, <2>12, <2>13 DEF Held, HeldBut
  <2>. QED
    BY <2>9, <2>10, <2>14
<1>13. Filing(h, EdgesWithout(x), alive \ {x})
  BY <1>12, FilingWithout
<1>. QED
  BY <1>1, <1>11, <1>13, NoArtifactCoarse, TopoInvKept

LEMMA ConnectedFiles ==
  ASSUME TopoInv, NEW x \in alive, ConnectedDelete(x)
  PROVE  TopoInv'
<1>. DEFINE c == compOf[x]
            h == WithoutMembers(Handles, c, <<x>>)
            stays == h.comps[c].verts # <<>>
            r == [h EXCEPT !.comps[c].open = stays, !.created = IF stays THEN <<c>> ELSE <<>>]
<1>1. TakeOut(x) /\ Keep(r) /\ dfs' = Retained(x)
  BY DEF ConnectedDelete
<1>2. /\ x \in Vertices /\ c \in 1 .. Len(comps) /\ Len(comps) \in Nat
      /\ Held(Handles) /\ Handles.of = compOf /\ Handles.comps = comps
      /\ x \in Members(Handles, c)
  BY OldHandle
<1>3. PICK g, n : g = Handles /\ n = <<x>>
  OBVIOUS
<1>4. Len(n) \in Nat /\ DOMAIN n = 1 .. Len(n) /\ Range(n) = {x}
  BY <1>3 DEF Range
<1>5. h = WithoutMembers(g, c, n)
  BY <1>3
<1>. HIDE DEF h
<1>6. /\ Held(h) /\ Len(h.comps) = Len(comps)
      /\ h.of = [v \in Vertices |-> IF v \in {x} THEN 0 ELSE compOf[v]]
  <2>1. Leaving(g, c, n, h) /\ g.of = compOf /\ g.comps = comps
    BY <1>2, <1>3, <1>4, <1>5 DEF Leaving
  <2>2. /\ Held(h) /\ Len(h.comps) = Len(g.comps)
        /\ h.of = [v \in Vertices |-> IF v \in Range(n) THEN 0 ELSE g.of[v]]
    BY ONLY <2>1, HandleLeft
  <2>. QED
    BY <1>4, <2>1, <2>2
<1>7. PICK b, m : b = stays /\ m = (IF stays THEN <<c>> ELSE <<>>)
  OBVIOUS
<1>8. b \in BOOLEAN /\ m \in {<<>>, <<c>>}
  BY <1>7
<1>9. r = [h EXCEPT !.comps[c].open = b, !.created = m]
  BY <1>7
<1>. HIDE DEF r, stays
<1>10. c \in 1 .. Len(h.comps)
  BY <1>2, <1>6
<1>11. Held(r) /\ r.of = h.of
  <2>1. Closing(h, c, b, m, r)
    BY <1>6, <1>8, <1>9, <1>10 DEF Closing
  <2>. QED
    BY ONLY <2>1, HandleShut
<1>12. Filing(r, EdgesWithout(x), alive \ {x})
  BY <1>2, <1>6, <1>11, FilingWithout
<1>13. Coarse(dfs', EdgesWithout(x)) /\ Seen(dfs') \subseteq alive \ {x}
  <2>1. live \in SUBSET AllEdges /\ Coarse(dfs, live) /\ Seen(dfs) \subseteq alive
    BY DEF TopoInv, Filing
  <2>2. Coarse(Dropping(dfs, x), EdgesWithout(x)) /\ Seen(Dropping(dfs, x)) = Seen(dfs) \ {x}
    BY <2>1, DroppedCoarse DEF Without, EdgesWithout
  <2>. QED
    BY <1>1, <2>1, <2>2, NoArtifactCoarse DEF Retained
<1>. QED
  BY <1>1, <1>12, <1>13, TopoInvKept

\* Vertices each in a group of its own.
LEMMA Singletons ==
  ASSUME NEW E \in SUBSET AllEdges, NEW S \in SUBSET Vertices,
         \A v \in S : Neighbours(E, v) = {},
         NEW s, Lists(s, S), NEW g, g = [i \in DOMAIN s |-> <<s[i]>>]
  PROVE  Groups(g, S, E) /\ \A k \in 1 .. Len(g) : OneAtMost(Range(g[k]))
<1>1. /\ Len(s) \in Nat /\ DOMAIN s = 1 .. Len(s)
      /\ \A i \in 1 .. Len(s) : s[i] \in S
      /\ \A x \in S : \E i \in 1 .. Len(s) : s[i] = x
      /\ \A i, j \in 1 .. Len(s) : s[i] = s[j] => i = j
  BY ListFacts
<1>2. Len(g) = Len(s)
  BY <1>1
<1>3. ASSUME NEW k \in 1 .. Len(s)
      PROVE  Range(g[k]) = {s[k]} /\ Lists(g[k], {s[k]})
  <2>1. PICK y : y = s[k]
    OBVIOUS
  <2>2. g[k] = Append(<<>>, y) /\ g[k] = <<y>>
    BY <1>1, <2>1
  <2>3. Lists(Append(<<>>, y), {} \cup {y})
    BY ListEmpty, ListAppend
  <2>4. Lists(g[k], {y})
    BY <2>2, <2>3
  <2>. QED
    BY <2>1, <2>4 DEF Lists
<1>4. ASSUME NEW k \in 1 .. Len(s) PROVE Closed(Range(g[k]), E)
  <2>1. \A v \in {s[k]} : Neighbours(E, v) \subseteq {s[k]}
    BY <1>1
  <2>2. {s[k]} \in SUBSET Vertices
    BY <1>1
  <2>3. PICK T : T = {s[k]}
    OBVIOUS
  <2>4. T \in SUBSET Vertices /\ \A v \in T : Neighbours(E, v) \subseteq T
    BY ONLY <2>1, <2>2, <2>3
  <2>5. Closed(T, E)
    BY ONLY <2>4, NeighboursFacts, E \in SUBSET AllEdges
  <2>6. Range(g[k]) = T
    BY <1>3, <2>3
  <2>. QED
    BY ONLY <2>5, <2>6
<1>7. \A k \in 1 .. Len(s) : Range(g[k]) = {s[k]} /\ Lists(g[k], Range(g[k]))
  BY <1>3
<1>5. Disjoint(g)
  <2>1. ASSUME NEW j \in 1 .. Len(s), NEW k \in 1 .. Len(s), Range(g[j]) \cap Range(g[k]) # {}
        PROVE  j = k
    <3>1. s[j] = s[k]
      BY <1>7, <2>1
    <3>. QED
      BY <1>1, <3>1
  <2>. QED
    BY <1>2, <2>1 DEF Disjoint
<1>6. Groups(g, S, E)
  <2>1. \A k \in 1 .. Len(s) : Range(g[k]) \subseteq S
    BY <1>1, <1>7
  <2>2. \A v \in S : \E k \in 1 .. Len(s) : v \in Range(g[k])
    BY <1>1, <1>7
  <2>. QED
    BY <1>1, <1>2, <1>7, <1>4, <1>5, <2>1, <2>2 DEF Groups
<1>. QED
  BY <1>2, <1>3, <1>6 DEF OneAtMost

LEMMA LeafyFiles ==
  ASSUME TopoInv, NEW x \in alive, LeafyDelete(x)
  PROVE  TopoInv'
<1>. DEFINE c == compOf[x]
            L == Leaves(x)
            leaves == Ascending(L)
            gone == <<x>> \o leaves
            rest == WithoutMembers(Handles, c, gone)
            stays == Around(x) # Leaves(x) /\ rest.comps[c].verts # <<>>
            h == [rest EXCEPT !.comps[c].open = stays,
                              !.created = IF stays THEN <<c>> ELSE <<>>]
            g == [i \in DOMAIN leaves |-> <<leaves[i]>>]
            r == AssignEach(h, g, TRUE)
            E == EdgesWithout(x)
<1>1. TakeOut(x) /\ Keep(r) /\ dfs' = NoArtifact
  BY DEF LeafyDelete
<1>2. /\ x \in Vertices /\ c \in 1 .. Len(comps) /\ Len(comps) \in Nat
      /\ Held(Handles) /\ Handles.of = compOf /\ Handles.comps = comps
      /\ x \in Members(Handles, c)
      /\ \A v : v \in Members(Handles, c) <=> v \in alive /\ compOf[v] = compOf[x]
  BY OldHandle
<1>3. /\ live \in SUBSET AllEdges /\ alive \in SUBSET Vertices
      /\ \A e \in live : e[1] \in alive /\ e[2] \in alive /\ compOf[e[1]] = compOf[e[2]]
      /\ \A v \in Vertices : compOf[v] # 0 <=> v \in alive
  BY DEF TopoInv, Filing, Reported
<1>4. /\ E \in SUBSET AllEdges
      /\ \A e \in E : e \in live /\ e[1] # x /\ e[2] # x
  BY <1>3 DEF EdgesWithout, Touches
<1>5. \A u \in L : u \in Members(Handles, c) /\ u \in Vertices /\ u \in alive /\ u # x
                   /\ Neighbours(live, u) = {x}
  <2>1. \A u \in L : u \in Neighbours(live, x) /\ Neighbours(live, u) = {x}
    BY DEF Leaves, Around
  <2>2. \A u \in Neighbours(live, x) : u \in alive /\ compOf[u] = compOf[x] /\ u \in Vertices
    BY <1>3 DEF Neighbours
  <2>3. x \notin Neighbours(live, x)
    BY <1>2, <1>3, NeighboursFacts
  <2>. HIDE DEF L
  <2>. QED
    BY <1>2, <2>1, <2>2, <2>3
<1>6. Lists(leaves, L)
  <2>1. L \in SUBSET Nat /\ IsFiniteSet(L)
    <3>1. L \subseteq Vertices
      BY <1>5
    <3>. QED
      BY <3>1, VerticesAssumption, FS_Subset
  <2>. QED
    BY <2>1, AscendingLists
<1>7. Lists(gone, {x} \cup L)
  <2>1. Lists(<<x>>, {x})
    <3>1. Lists(Append(<<>>, x), {} \cup {x})
      BY ListEmpty, ListAppend
    <3>2. Append(<<>>, x) = <<x>>
      OBVIOUS
    <3>. QED
      BY <3>1, <3>2
  <2>2. {x} \cap L = {}
    BY <1>5
  <2>. HIDE DEF leaves, L
  <2>. QED
    BY <1>6, <2>1, <2>2, ListJoin
<1>8. PICK k, n, f : k = Handles /\ n = gone /\ f = rest
  OBVIOUS
<1>9. Len(n) \in Nat /\ DOMAIN n = 1 .. Len(n) /\ Range(n) = {x} \cup L
  <2>1. Lists(n, {x} \cup L)
    BY <1>7, <1>8
  <2>. QED
    BY ONLY <2>1, ListFacts DEF Lists
<1>10. f = WithoutMembers(k, c, n)
  BY <1>8
<1>11. /\ Held(f) /\ Len(f.comps) = Len(comps)
       /\ f.of = [v \in Vertices |-> IF v \in Range(n) THEN 0 ELSE compOf[v]]
  <2>1. Range(n) \subseteq Members(k, c) /\ Members(k, c) # {} /\ Held(k)
        /\ c \in 1 .. Len(k.comps) /\ k.of = compOf /\ k.comps = comps
    BY <1>2, <1>5, <1>8, <1>9
  <2>. QED
    <3>1. Leaving(k, c, n, f)
      BY <1>9, <1>10, <2>1 DEF Leaving
    <3>2. /\ Held(f) /\ Len(f.comps) = Len(k.comps)
          /\ f.of = [v \in Vertices |-> IF v \in Range(n) THEN 0 ELSE k.of[v]]
      BY ONLY <3>1, HandleLeft
    <3>. QED
      BY <2>1, <3>2
<1>12. PICK b, m, o : b = stays /\ m = (IF stays THEN <<c>> ELSE <<>>) /\ o = TRUE
  OBVIOUS
<1>13. b \in BOOLEAN /\ m \in {<<>>, <<c>>} /\ o \in BOOLEAN
  BY <1>12
<1>14. h = [f EXCEPT !.comps[c].open = b, !.created = m]
  BY <1>8, <1>12
<1>15. r = AssignEach(h, g, o)
  BY <1>12
<1>. HIDE DEF rest, stays, h, r, leaves
<1>16. c \in 1 .. Len(f.comps)
  BY <1>2, <1>11
<1>17. Held(h) /\ h.of = f.of
  <2>1. Closing(f, c, b, m, h)
    BY <1>11, <1>13, <1>14, <1>16 DEF Closing
  <2>. QED
    BY ONLY <2>1, HandleShut
<1>18. \A v \in Vertices : h.of[v] = IF v = x \/ v \in L THEN 0 ELSE compOf[v]
  BY <1>9, <1>11, <1>17
<1>19. \A v \in L : Neighbours(E, v) = {}
  <2>1. \A v \in L : v \in Vertices /\ Neighbours(live, v) = {x}
    BY <1>5
  <2>. QED
    BY <1>4, <2>1 DEF Neighbours
<1>20. Groups(g, L, E) /\ \A i \in 1 .. Len(g) : OneAtMost(Range(g[i]))
  <2>1. L \in SUBSET Vertices
    BY <1>5
  <2>. HIDE DEF L, E
  <2>. QED
    BY <1>4, <1>6, <1>19, <2>1, Singletons
<1>. HIDE DEF g
<1>21. HeldBut(h, L)
  <2>1. ASSUME NEW d \in 1 .. Len(h.comps) PROVE Filed(h, d, L)
    <3>1. Filed(h, d, {})
      BY <1>17 DEF Held, HeldBut
    <3>2. Members(h, d) \cap L = {}
      BY <1>18 DEF Members
    <3>. QED
      BY <3>1, <3>2 DEF Filed
  <2>. QED
    BY <1>17, <2>1 DEF Held, HeldBut
<1>22. \A e \in E : e[1] \notin L /\ e[2] \notin L => h.of[e[1]] = h.of[e[2]]
  <2>1. \A e \in E : e[1] \in Vertices /\ e[2] \in Vertices
    BY <1>4 DEF AllEdges
  <2>. QED
    BY <1>3, <1>4, <1>18, <2>1
<1>23. L \in SUBSET Vertices
  BY <1>5
<1>24. GroupsGetHandles(h, L, E, g, o, r)
  <2>. HIDE DEF L, E
  <2>. QED
    BY <1>4, <1>13, <1>15, <1>20, <1>21, <1>22, <1>23 DEF GroupsGetHandles
<1>25. /\ Held(r) /\ (\A v \in L : r.of[v] # 0) /\ (\A v \in Vertices \ L : r.of[v] = h.of[v])
       /\ \A e \in E : r.of[e[1]] = r.of[e[2]]
  <2>. HIDE DEF L, E
  <2>. QED
    BY ONLY <1>24, GroupsAssigned
<1>26. \A v \in Vertices : r.of[v] # 0 <=> v \in alive \ {x}
  BY <1>3, <1>5, <1>18, <1>25
<1>27. \A e \in E : e[1] \in alive \ {x} /\ e[2] \in alive \ {x}
  BY <1>3, <1>4
<1>28. Filing(r, E, alive \ {x})
  <2>. HIDE DEF E, L
  <2>. QED
    BY <1>3, <1>4, <1>25, <1>26, <1>27 DEF Filing
<1>. QED
  BY <1>1, <1>28, NoArtifactCoarse, TopoInvKept

LEMMA SearchedAgainFiles ==
  ASSUME TopoInv, NEW x \in alive, NEW h, TakeOut(x), SearchAgain(x, h), HeldBut(h, Left(x)),
         \A v \in Vertices : v \notin Left(x) => h.of[v] = IF v = x THEN 0 ELSE compOf[v]
  PROVE  TopoInv' /\ Searched(dfs', Left(x), AdjIn(Left(x), EdgesWithout(x)))
<1>1. PICK a : a = Artifact(OldVerts(x), EdgesWithout(x))
  OBVIOUS
<1>2. PICK r : r = AssignEach(h, Trees(a), FALSE)
  OBVIOUS
<1>3. dfs' = a /\ Keep(r)
  BY <1>1, <1>2 DEF SearchAgain
<1>4. SearchedAgain(x, h, a, r)
  BY <1>1, <1>2 DEF SearchedAgain
<1>5. /\ Filing(r, EdgesWithout(x), alive \ {x})
      /\ Coarse(a, EdgesWithout(x)) /\ Seen(a) = Left(x)
      /\ Searched(a, Left(x), AdjIn(Left(x), EdgesWithout(x)))
  BY <1>4, SearchAgainFiles
<1>6. Left(x) \subseteq alive \ {x}
  BY LeftFacts
<1>. QED
  BY <1>3, <1>5, <1>6, TopoInvKept

LEMMA TouchedFiles ==
  ASSUME TopoInv, NEW x \in alive, TakeOut(x), SearchAgain(x, Dissolved(x))
  PROVE  TopoInv' /\ Searched(dfs', Left(x), AdjIn(Left(x), EdgesWithout(x)))
<1>1. PICK h : h = Dissolved(x)
  OBVIOUS
<1>2. /\ HeldBut(h, Left(x))
      /\ \A v \in Vertices : h.of[v] = IF v = x \/ v \in Left(x) THEN 0 ELSE compOf[v]
  BY <1>1, DissolvedHeld
<1>3. SearchAgain(x, h)
  BY <1>1
<1>. QED
  BY <1>2, <1>3, SearchedAgainFiles

\* The buckets, each once, are those of the members left.
LEMMA BucketsFacts ==
  ASSUME NEW x, Lists(OldVerts(x), Left(x)), NEW b, b = Buckets(x)
  PROVE  /\ Len(b) \in Nat /\ b = [k \in 1 .. Len(b) |-> b[k]]
         /\ \A v \in Left(x) : \E k \in 1 .. Len(b) : b[k] = BucketOf(x, v)
         /\ \A j, k \in 1 .. Len(b) : b[j] = b[k] => j = k
<1>. DEFINE old == OldVerts(x)
            n == Len(old)
            keys == [i \in DOMAIN old |-> BucketOf(x, old[i])]
            fresh == {i \in DOMAIN keys : \A j \in 1 .. i - 1 : keys[j] # keys[i]}
            m == Cardinality(fresh)
            s == Ascending(fresh)
<1>1. /\ n \in Nat /\ DOMAIN old = 1 .. n /\ \A i \in 1 .. n : old[i] \in Left(x)
      /\ \A v \in Left(x) : \E i \in 1 .. n : old[i] = v
  BY ListFacts
<1>2. DOMAIN keys = 1 .. n /\ \A i \in 1 .. n : keys[i] = BucketOf(x, old[i])
  BY <1>1
<1>3. b = [k \in 1 .. m |-> keys[s[k]]]
  BY DEF Buckets
<1>. HIDE DEF old, n, keys
<1>4. fresh \in SUBSET (1 .. n) /\ \A i \in fresh : \A j \in 1 .. i - 1 : keys[j] # keys[i]
  BY <1>2
<1>5. fresh \in SUBSET Nat /\ IsFiniteSet(fresh) /\ m \in Nat
  <2>1. IsFiniteSet(1 .. n)
    BY <1>1, FS_Interval
  <2>. HIDE DEF fresh
  <2>2. IsFiniteSet(fresh)
    BY <1>4, <2>1, FS_Subset
  <2>3. m \in Nat
    BY <2>2, FS_CardinalityType
  <2>. QED
    BY <1>1, <1>4, <2>2, <2>3
<1>6. \A i \in 1 .. n : (\A j \in 1 .. i - 1 : keys[j] # keys[i]) => i \in fresh
  BY <1>2
<1>. HIDE DEF fresh, m
<1>7. Lists(s, fresh) /\ Len(s) = m
  BY <1>5, AscendingLists DEF m
<1>. HIDE DEF s
<1>8. /\ \A k \in 1 .. m : s[k] \in fresh
      /\ \A i \in fresh : \E k \in 1 .. m : s[k] = i
      /\ \A j, k \in 1 .. m : s[j] = s[k] => j = k
  BY <1>7, ListFacts
<1>9. \A i, j \in fresh : keys[i] = keys[j] => i = j
  BY <1>1, <1>4
<1>10. ASSUME NEW v \in Left(x) PROVE \E k \in 1 .. m : b[k] = BucketOf(x, v)
  <2>1. PICK i \in 1 .. n : old[i] = v
    BY <1>1
  <2>. DEFINE T == {j \in 1 .. n : keys[j] = keys[i]}
  <2>2. T \subseteq Nat /\ i \in T
    BY <1>1
  <2>3. PICK j \in T : \A l \in T : j <= l
    <3>1. T # {} /\ T \subseteq Nat
      BY <2>2
    <3>. HIDE DEF T
    <3>. QED
      BY <3>1, LeastNatural
  <2>4. \A l \in 1 .. j - 1 : keys[l] # keys[j]
    BY <1>1, <2>3
  <2>5. j \in fresh /\ keys[j] = keys[i]
    BY <1>6, <2>3, <2>4
  <2>6. PICK k \in 1 .. m : s[k] = j
    BY <1>8, <2>5
  <2>. QED
    BY <1>2, <1>3, <2>1, <2>5, <2>6
<1>11. Len(b) = m
  BY <1>3, <1>5
<1>12. \A j, k \in 1 .. m : b[j] = b[k] => j = k
  BY <1>3, <1>8, <1>9
<1>. QED
  BY <1>3, <1>5, <1>10, <1>11, <1>12

LEMMA AdoptedFacts ==
  ASSUME NEW x, Lists(OldVerts(x), Left(x)), NEW d, d = Adopted(x), NEW b, b = Buckets(x)
  PROVE  /\ Len(d) \in 0 .. Len(b) /\ DOMAIN d = 1 .. Len(d)
         /\ \A k \in 1 .. Len(d) : d[k] = b[k]
<1>. DEFINE refused == {k \in DOMAIN b : ~Adoptable(x, b[k])}
<1>1. Len(b) \in Nat /\ b = [k \in 1 .. Len(b) |-> b[k]]
  BY BucketsFacts
<1>2. d = IF refused = {} THEN b ELSE SubSeq(b, 1, Min(refused) - 1)
  BY DEF Adopted
<1>3. refused \subseteq 1 .. Len(b)
  BY <1>1
<1>. HIDE DEF refused
<1>4. CASE refused = {}
  BY <1>1, <1>2, <1>4
<1>5. CASE refused # {}
  <2>1. Min(refused) \in 1 .. Len(b)
    <3>1. refused \subseteq Nat
      BY <1>3
    <3>. QED
      BY <1>3, <1>5, <3>1, MinFacts
  <2>2. PICK l \in Nat : l = Min(refused) - 1
    BY <2>1
  <2>3. d = SubSeq(b, 1, l) /\ l \in 0 .. Len(b)
    BY <1>1, <1>2, <1>5, <2>1, <2>2
  <2>4. PICK D : b \in Seq(D)
    <3>1. b \in [1 .. Len(b) -> {b[k] : k \in 1 .. Len(b)}]
      BY <1>1
    <3>2. b \in Seq({b[k] : k \in 1 .. Len(b)})
      BY <1>1, <3>1
    <3>. QED
      BY <3>2
  <2>5. d = [k \in 1 .. l |-> b[k]]
    BY <1>1, <2>3, <2>4
  <2>. QED
    BY <1>1, <2>3, <2>5
<1>. QED
  BY <1>4, <1>5

AdoptedGroups(x) == [k \in DOMAIN Adopted(x) |-> MembersIn(x, Adopted(x)[k])]

LEMMA AdoptedGroupsFacts ==
  ASSUME TopoInv, NEW x \in alive, Reusable(x), Classified(x),
         NEW d, d = Adopted(x), NEW g, g = AdoptedGroups(x)
  PROVE  /\ ReusesArtifact(x) /\ Len(g) = Len(d) /\ Len(g) \in Nat /\ Disjoint(g)
         /\ \A k \in 1 .. Len(g) :
              /\ Lists(g[k], Range(g[k])) /\ Range(g[k]) \subseteq Left(x)
              /\ Closed(Range(g[k]), EdgesWithout(x))
              /\ \A v : v \in Range(g[k]) <=> v \in Left(x) /\ BucketOf(x, v) = d[k]
<1>. DEFINE E == EdgesWithout(x)
            S == Left(x)
<1>1. /\ LeftWhole(x) /\ Lists(OldVerts(x), S)
      /\ \A v : v \in S <=> v \in alive /\ v # x /\ compOf[v] = compOf[x]
  BY LeftFacts
<1>2. live \in SUBSET AllEdges /\ alive \in SUBSET Vertices /\ Coarse(dfs, live)
  BY DEF TopoInv, Filing
<1>3. ReusesArtifact(x)
  BY <1>1, <1>2 DEF ReusesArtifact
<1>4. PICK b : b = Buckets(x)
  OBVIOUS
<1>5. Len(d) \in 0 .. Len(b) /\ DOMAIN d = 1 .. Len(d) /\ \A k \in 1 .. Len(d) : d[k] = b[k]
  BY <1>1, <1>4, AdoptedFacts
<1>6. Len(b) \in Nat /\ \A j, k \in 1 .. Len(b) : b[j] = b[k] => j = k
  BY <1>1, <1>4, BucketsFacts
<1>7. \A j, k \in 1 .. Len(d) : d[j] = d[k] => j = k
  BY <1>5, <1>6
<1>8. g = [k \in 1 .. Len(d) |-> MembersIn(x, d[k])]
  BY <1>5 DEF AdoptedGroups
<1>9. Len(g) = Len(d) /\ Len(d) \in Nat
  BY <1>5, <1>6, <1>8
<1>10. S \subseteq Vertices /\ x \notin S
  BY <1>1, <1>2
<1>11. ASSUME NEW k \in 1 .. Len(d)
       PROVE  /\ Lists(g[k], Range(g[k]))
              /\ \A v : v \in Range(g[k]) <=> v \in S /\ BucketOf(x, v) = d[k]
  <2>. DEFINE T == {v \in Vertices : BucketOf(x, v) = d[k]}
  <2>1. g[k] = Picked(OldVerts(x), T)
    BY <1>8 DEF MembersIn
  <2>2. \A v : v \in S \cap T <=> v \in S /\ BucketOf(x, v) = d[k]
    BY <1>10
  <2>. HIDE DEF T, S
  <2>3. Lists(g[k], S \cap T)
    BY <1>1, <2>1, PickedLists
  <2>4. Range(g[k]) = S \cap T
    BY <2>3 DEF Lists
  <2>. QED
    BY <2>2, <2>3, <2>4
<1>12. \A v \in S : \A u \in Neighbours(E, v) : u \in S /\ BucketOf(x, u) = BucketOf(x, v)
  <2>1. ASSUME NEW v \in S, NEW u \in Neighbours(E, v)
        PROVE  u \in S /\ BucketOf(x, u) = BucketOf(x, v)
    <3>1. u \in Vertices /\ u # x /\ v # x /\ u \in Neighbours(live, v) /\ v \in Vertices
      BY <1>10, <2>1 DEF Neighbours, EdgesWithout, Touches
    <3>2. u \in S
      BY <1>1, <3>1 DEF LeftWhole
    <3>3. x \in Seen(dfs)
      BY DEF Reusable
    <3>4. Bucket(dfs, ChildrenOf(dfs, live, x), x, v) = Bucket(dfs, ChildrenOf(dfs, live, x), x, u)
      BY <1>2, <3>1, <3>3, BucketsMeet
    <3>. QED
      BY <3>2, <3>4 DEF BucketOf
  <2>. QED
    BY <2>1
<1>13. E \in SUBSET AllEdges
  BY <1>2 DEF EdgesWithout
<1>. HIDE DEF E, S
<1>14. ASSUME NEW k \in 1 .. Len(d) PROVE Closed(Range(g[k]), E)
  <2>1. \A v : v \in Range(g[k]) <=> v \in S /\ BucketOf(x, v) = d[k]
    BY <1>11
  <2>2. Range(g[k]) \in SUBSET Vertices
    BY <1>10, <2>1
  <2>3. \A v \in Range(g[k]) : Neighbours(E, v) \subseteq Range(g[k])
    BY <1>12, <2>1
  <2>. QED
    BY <1>13, <2>2, <2>3, NeighboursFacts
<1>15. \A k \in 1 .. Len(d) : \A v : v \in Range(g[k]) <=> v \in S /\ BucketOf(x, v) = d[k]
  BY <1>11
<1>16. Disjoint(g)
  <2>1. ASSUME NEW j \in 1 .. Len(d), NEW k \in 1 .. Len(d), NEW v,
               v \in Range(g[j]), v \in Range(g[k])
        PROVE  j = k
    BY <1>7, <1>15, <2>1
  <2>. QED
    BY <1>9, <2>1 DEF Disjoint
<1>17. \A k \in 1 .. Len(d) : Lists(g[k], Range(g[k])) /\ Range(g[k]) \subseteq S
  BY <1>11, <1>15
<1>. QED
  BY <1>3, <1>9, <1>14, <1>15, <1>16, <1>17 DEF E, S

LEMMA ReuseFiles ==
  ASSUME TopoInv, NEW x \in alive, Reusable(x), Classified(x), TakeOut(x), ReuseArtifact(x)
  PROVE  TopoInv'
<1>. DEFINE E == EdgesWithout(x)
            S == Left(x)
<1>1. PICK d, b, g, i, o : /\ d = Adopted(x) /\ b = Buckets(x) /\ g = AdoptedGroups(x)
                           /\ i = Dissolved(x) /\ o = FALSE
  OBVIOUS
<1>2. PICK h : h = AssignEach(i, g, o)
  OBVIOUS
<1>3. IF d = b THEN dfs' = Rerooted(x) /\ Keep(h) ELSE SearchAgain(x, h)
  <2>1. h = AssignEach(Dissolved(x), [k \in DOMAIN Adopted(x) |-> MembersIn(x, Adopted(x)[k])], FALSE)
    BY <1>1, <1>2 DEF AdoptedGroups
  <2>. QED
    BY <1>1, <2>1 DEF ReuseArtifact
<1>4. /\ ReusesArtifact(x) /\ Len(g) = Len(d) /\ Len(g) \in Nat /\ Disjoint(g)
      /\ \A k \in 1 .. Len(g) :
              /\ Lists(g[k], Range(g[k])) /\ Range(g[k]) \subseteq S
              /\ Closed(Range(g[k]), E)
              /\ \A v : v \in Range(g[k]) <=> v \in S /\ BucketOf(x, v) = d[k]
  BY <1>1, AdoptedGroupsFacts
<1>5. /\ HeldBut(i, S) /\ Len(i.comps) = Len(comps)
      /\ \A v \in Vertices : i.of[v] = IF v = x \/ v \in S THEN 0 ELSE compOf[v]
  BY <1>1, DissolvedHeld
<1>6. /\ live \in SUBSET AllEdges /\ alive \in SUBSET Vertices /\ Coarse(dfs, live)
      /\ \A e \in live : e[1] \in alive /\ e[2] \in alive /\ compOf[e[1]] = compOf[e[2]]
      /\ \A v \in Vertices : compOf[v] # 0 <=> v \in alive
      /\ Seen(dfs) \subseteq alive
  BY DEF TopoInv, Filing, Reported
<1>7. /\ Lists(OldVerts(x), S)
      /\ \A v : v \in S <=> v \in alive /\ v # x /\ compOf[v] = compOf[x]
  BY LeftFacts
<1>8. /\ E \in SUBSET AllEdges
      /\ \A e \in E : e \in live /\ e[1] # x /\ e[2] # x
  BY <1>6 DEF EdgesWithout, Touches
<1>9. S \in SUBSET Vertices /\ x \notin S /\ o \in BOOLEAN
  BY <1>1, <1>6, <1>7
<1>10. CASE d = b
  <2>1. \A v \in S : \E k \in 1 .. Len(g) : v \in Range(g[k])
    <3>1. \A v \in S : \E k \in 1 .. Len(b) : b[k] = BucketOf(x, v)
      BY <1>1, <1>7, BucketsFacts
    <3>. HIDE DEF S
    <3>. QED
      BY <1>4, <1>10, <3>1
  <2>2. Groups(g, S, E)
    <3>1. \A k \in 1 .. Len(g) :
            Lists(g[k], Range(g[k])) /\ Range(g[k]) \subseteq S /\ Closed(Range(g[k]), E)
      BY <1>4
    <3>. QED
      BY <1>4, <2>1, <3>1 DEF Groups
  <2>3. \A e \in E : e[1] \notin S /\ e[2] \notin S => i.of[e[1]] = i.of[e[2]]
    <3>1. \A e \in E : e[1] \in Vertices /\ e[2] \in Vertices
      BY <1>8 DEF AllEdges
    <3>. QED
      BY <1>5, <1>6, <1>8, <3>1
  <2>4. o => \A k \in 1 .. Len(g) : OneAtMost(Range(g[k]))
    BY <1>1
  <2>. HIDE DEF E, S
  <2>5. GroupsGetHandles(i, S, E, g, o, h)
    BY <1>2, <1>5, <1>8, <1>9, <2>2, <2>3, <2>4 DEF GroupsGetHandles
  <2>6. /\ Held(h) /\ (\A v \in S : h.of[v] # 0) /\ (\A v \in Vertices \ S : h.of[v] = i.of[v])
        /\ \A e \in E : h.of[e[1]] = h.of[e[2]]
    BY ONLY <2>5, GroupsAssigned
  <2>7. \A v \in Vertices : h.of[v] # 0 <=> v \in alive \ {x}
    BY <1>5, <1>6, <1>7, <2>6
  <2>8. \A e \in E : e[1] \in alive \ {x} /\ e[2] \in alive \ {x}
    BY <1>6, <1>8
  <2>9. Filing(h, E, alive \ {x})
    BY <1>6, <1>8, <2>6, <2>7, <2>8 DEF Filing
  <2>10. dfs' = Rerooted(x) /\ Keep(h)
    BY <1>3, <1>10
  <2>11. Coarse(Rerooted(x), E) /\ Seen(Rerooted(x)) = Seen(dfs) \ {x}
    BY <1>4, RerootedCoarse DEF E
  <2>. QED
    BY <1>6, <2>9, <2>10, <2>11, TopoInvKept DEF E
<1>11. CASE d # b
  <2>1. AllGetHandles(i, S, g, o, h)
    <3>. HIDE DEF E, S
    <3>1. \A k \in 1 .. Len(g) : Range(g[k]) \subseteq Vertices
      BY <1>4, <1>9
    <3>2. \A k \in 1 .. Len(g) : o => OneAtMost(Range(g[k]))
      BY <1>1
    <3>. QED
      BY <1>2, <1>4, <1>5, <1>9, <3>1, <3>2 DEF AllGetHandles
  <2>2. AllHaveHandles(i, S, g, h)
    BY <2>1, AssignAll
  <2>. DEFINE U == UNION {Range(g[k]) : k \in 1 .. Len(g)}
              n == Len(comps)
  <2>3. /\ HeldBut(h, S \ U) /\ Len(h.comps) = n + Len(g) /\ n \in Nat
        /\ \A k \in 1 .. Len(g) : \A v \in Range(g[k]) : h.of[v] = n + k
        /\ \A v \in Vertices : (\A k \in 1 .. Len(g) : v \notin Range(g[k])) => h.of[v] = i.of[v]
    BY <1>5, <2>2, OldHandle DEF AllHaveHandles
  <2>4. /\ \A v : v \in U <=> \E k \in 1 .. Len(g) : v \in Range(g[k])
        /\ U \subseteq S
    BY <1>4
  <2>. HIDE DEF U, n, E, S
  <2>5. \A v \in U : h.of[v] > n
    BY <1>4, <2>3, <2>4
  <2>6. \A v \in Vertices : v \notin U => h.of[v] = i.of[v]
    BY <2>3, <2>4
  <2>7. \A v \in Vertices : v \notin S => h.of[v] = IF v = x THEN 0 ELSE compOf[v]
    BY <1>5, <2>4, <2>6
  <2>8. \A v \in Vertices : i.of[v] \in 0 .. n
    BY <1>5 DEF HeldBut, n
  <2>9. ASSUME NEW c \in 1 .. Len(h.comps) PROVE Filed(h, c, S)
    <3>1. Filed(h, c, S \ U)
      BY <2>3 DEF HeldBut
    <3>2. CASE Members(h, c) \subseteq S
      BY <3>2 DEF Filed
    <3>3. CASE Members(h, c) \cap S = {} /\ Lists(h.comps[c].verts, Members(h, c))
      BY <3>3 DEF Filed
    <3>4. CASE ~ (Members(h, c) \subseteq S) /\ Lists(h.comps[c].verts, Members(h, c))
      <4>1. PICK v \in Vertices : v \notin S /\ h.of[v] = c
        BY <3>4 DEF Members
      <4>2. c \in 1 .. n
        BY <2>3, <2>4, <2>6, <2>8, <4>1
      <4>3. \A u \in S : u \in Vertices /\ h.of[u] # c
        <5>1. ASSUME NEW u \in S PROVE u \in Vertices /\ h.of[u] # c
          <6>1. u \in U => h.of[u] # c
            BY <2>3, <2>5, <4>2, <1>4, <2>4
          <6>2. u \notin U => h.of[u] = 0
            BY <1>5, <1>9, <2>6
          <6>. QED
            BY <1>9, <4>2, <6>1, <6>2
        <5>. QED
          BY <5>1
      <4>4. Members(h, c) \cap S = {}
        BY <4>3 DEF Members
      <4>. QED
        BY <3>4, <4>4 DEF Filed
    <3>. QED
      BY <3>1, <3>2, <3>4 DEF Filed
  <2>10. HeldBut(h, S)
    BY <2>3, <2>9 DEF HeldBut
  <2>11. SearchAgain(x, h)
    BY <1>3, <1>11
  <2>. QED
    BY <2>7, <2>10, <2>11, SearchedAgainFiles DEF S
<1>. QED
  BY <1>10, <1>11

LEMMA DeletionFiles ==
  ASSUME TopoInv, NEW x, NEW touched, DeleteVertexAndSplit(x, touched)
  PROVE  TopoInv'
<1>1. x \in alive
  BY DEF DeleteVertexAndSplit
<1>2. CASE touched /\ TouchedSplit(x)
  BY <1>1, <1>2, TouchedFiles DEF TouchedSplit
<1>3. CASE PathOrderedDelete(x)
  BY <1>1, <1>3, PathOrderedFiles
<1>4. CASE LeafyDelete(x)
  BY <1>1, <1>4, LeafyFiles
<1>5. CASE ConnectedDelete(x)
  BY <1>1, <1>5, ConnectedFiles
<1>6. CASE UntouchedSplit(x)
  <2>1. CASE Reusable(x) /\ Classified(x)
    BY <1>1, <1>6, <2>1, ReuseFiles DEF UntouchedSplit
  <2>2. CASE ~(Reusable(x) /\ Classified(x))
    BY <1>1, <1>6, <2>2, TouchedFiles DEF UntouchedSplit
  <2>. QED
    BY <2>1, <2>2
<1>. QED
  BY <1>2, <1>3, <1>4, <1>5, <1>6 DEF DeleteVertexAndSplit

LEMMA TopoInvNext ==
  ASSUME TopoInv, [Next]_allVars
  PROVE  TopoInv'
<1>1. CASE UNCHANGED allVars
  <2>1. /\ Reported' = Reported /\ live' = live /\ alive' = alive /\ dfs' = dfs
    BY <1>1 DEF allVars, oracleVars, nbVars, Reported
  <2>. QED
    BY <2>1 DEF TopoInv, Filing, Held
<1>2. CASE PlaceRoot
  BY <1>2, DeletionFiles DEF PlaceRoot, EraseVertex
<1>3. ASSUME NEW v \in Vertices, Place(v) PROVE TopoInv'
  BY <1>3, DeletionFiles DEF Place, EraseVertex
<1>. QED
  BY <1>1, <1>2, <1>3 DEF Next, Terminating

(* Handles and artifact are never too fine. *)
LEMMA FilingNeverSplits ==
  ASSUME TopoInv
  PROVE  NeverSplits
<1>1. /\ live \in SUBSET AllEdges /\ alive \in SUBSET Vertices
      /\ \A e \in live : compOf[e[1]] = compOf[e[2]]
      /\ \A v \in Vertices : compOf[v] # 0 <=> v \in alive
  BY DEF TopoInv, Filing, Reported
<1>2. ASSUME NEW v \in alive
      PROVE  /\ compOf[v] # 0 /\ v \in Range(comps[compOf[v]].verts)
             /\ \A u \in Component(live, v) : compOf[u] = compOf[v]
  <2>1. compOf[v] # 0
    BY <1>1
  <2>2. v \in Range(comps[compOf[v]].verts)
    <3>1. /\ Lists(comps[compOf[v]].verts, Members(Handles, compOf[v]))
          /\ v \in Members(Handles, compOf[v])
      BY OldHandle
    <3>. QED
      BY <3>1 DEF Lists
  <2>. DEFINE S == {u \in Vertices : compOf[u] = compOf[v]}
  <2>3. S \in SUBSET Vertices /\ v \in S /\ Closed(S, live)
    BY <1>1 DEF Closed, AllEdges
  <2>. HIDE DEF S
  <2>4. Component(live, v) \subseteq S
    BY <2>3, ComponentSmallest
  <2>. QED
    BY <2>1, <2>2, <2>4 DEF S
<1>. QED
  BY <1>2 DEF NeverSplits

LEMMA CoarseArtifact ==
  ASSUME TopoInv
  PROVE  ArtifactCoarse
<1>1. live \in SUBSET AllEdges /\ alive \in SUBSET Vertices
      /\ Coarse(dfs, live) /\ Seen(dfs) \subseteq alive
  BY DEF TopoInv, Filing
<1>2. ASSUME NEW v \in Seen(dfs)
      PROVE  /\ v \in alive
             /\ \A u \in Component(live, v) : u \in Seen(dfs) /\ dfs.root[u] = dfs.root[v]
             /\ \A u, w \in Component(live, v) \ {v} :
                  u \in Component(EdgesWithout(v), w) => BucketOf(v, u) = BucketOf(v, w)
  <2>1. v \in alive /\ v \in Vertices
    BY <1>1
  <2>2. \A u \in Component(live, v) : u \in Seen(dfs) /\ dfs.root[u] = dfs.root[v]
    <3>. DEFINE S == {u \in Vertices : u \in Seen(dfs) /\ dfs.root[u] = dfs.root[v]}
    <3>1. \A u \in S : Neighbours(live, u) \subseteq S
      <4>1. \A u \in Seen(dfs) : \A w \in Neighbours(live, u) :
               w \in Vertices /\ w \in Seen(dfs) /\ dfs.root[w] = dfs.root[u]
        BY <1>1 DEF Coarse, Whole, Neighbours
      <4>. QED
        BY <4>1
    <3>2. S \in SUBSET Vertices /\ v \in S
      BY <2>1
    <3>. HIDE DEF S
    <3>3. Closed(S, live)
      BY <1>1, <3>1, <3>2, NeighboursFacts
    <3>4. Component(live, v) \subseteq S
      BY <3>2, <3>3, ComponentSmallest
    <3>. QED
      BY <3>4 DEF S
  <2>3. ASSUME NEW w \in Component(live, v) \ {v}, NEW u \in Component(EdgesWithout(v), w)
        PROVE  BucketOf(v, u) = BucketOf(v, w)
    <3>. DEFINE E == EdgesWithout(v)
                S == {y \in Vertices : y # v /\ BucketOf(v, y) = BucketOf(v, w)}
    <3>1. E \in SUBSET AllEdges
          /\ \A y, z : z \in Neighbours(E, y) => z \in Neighbours(live, y) /\ z # v /\ y # v
                                                 /\ z \in Vertices
      BY <1>1 DEF EdgesWithout, Neighbours, Touches
    <3>2. w \in Vertices /\ w # v
      BY <1>1, <2>1, ComponentClosed
    <3>3. S \in SUBSET Vertices /\ w \in S
      BY <3>2
    <3>4. ASSUME NEW y \in S, NEW z \in Neighbours(E, y) PROVE z \in S
      <4>1. y \in Vertices /\ z \in Vertices /\ z \in Neighbours(live, y) /\ y # v /\ z # v
        BY <3>1, <3>4
      <4>2. BucketOf(v, y) = BucketOf(v, z)
        BY <1>1, <4>1, BucketsMeet DEF BucketOf
      <4>. QED
        BY <3>4, <4>1, <4>2
    <3>. HIDE DEF S
    <3>5. Closed(S, E)
      <4>1. \A y \in S : Neighbours(E, y) \subseteq S
        BY <3>4
      <4>. HIDE DEF E
      <4>. QED
        BY <3>1, <3>3, <4>1, NeighboursFacts
    <3>6. Component(E, w) \subseteq S
      BY <3>3, <3>5, ComponentSmallest
    <3>. QED
      BY <3>6 DEF S
  <2>. QED
    BY <2>1, <2>2, <2>3
<1>. QED
  BY <1>2 DEF ArtifactCoarse

--------------------------------------------------------------------------------
LEMMA EdgesTyped ==
  ASSUME NEW qs \in SUBSET (Vertices \X Vertices \X Vertices)
  PROVE  UndirectedEdges(qs) \in SUBSET AllEdges
<1>1. DirectPairs(qs) \in SUBSET (Vertices \X Vertices) /\ \A d \in DirectPairs(qs) : d[1] # d[2]
  BY TriplesFinite DEF DirectPairs
<1>2. ASSUME NEW d \in DirectPairs(qs)
      PROVE  (IF d[1] < d[2] THEN d ELSE <<d[2], d[1]>>) \in AllEdges
  <2>1. d \in Vertices \X Vertices /\ d[1] # d[2] /\ d[1] \in Nat /\ d[2] \in Nat
    BY <1>1, VerticesAssumption
  <2>. QED
    BY <2>1 DEF AllEdges
<1>. QED
  BY <1>2 DEF UndirectedEdges

LEMMA TopoInvInit == Init => TopoInv
<1>. SUFFICES ASSUME Init PROVE TopoInv
  OBVIOUS
<1>1. QueriesTyped
  BY InitHolds DEF SolverInv, Typed
<1>2. live \in SUBSET AllEdges
  BY <1>1, EdgesTyped DEF Init, QueriesTyped
<1>. QED
  BY <1>2, TopoInvBegins DEF Init, OracleInit

LEMMA TopoInvariant == Spec => []TopoInv
<1>1. Init => TopoInv
  BY TopoInvInit
<1>2. TopoInv /\ [Next]_allVars => TopoInv'
  BY TopoInvNext
<1>. QED
  BY <1>1, <1>2, PTL DEF Spec

(****************************************************************************)
(* For any input and any cap on degrees: whichever of the five routes the   *)
(* deletions take, in any order, vertices that are connected have the same  *)
(* handle, no live vertex is without one, and an artifact that is not       *)
(* rebuilt never says two vertices are apart that are not.                  *)
(****************************************************************************)
THEOREM NeverTooFineHolds == Spec => []NeverTooFine
<1>1. TopoInv => NeverTooFine
  BY FilingNeverSplits, CoarseArtifact DEF NeverTooFine
<1>. QED
  BY <1>1, TopoInvariant, PTL

--------------------------------------------------------------------------------
(* A fresh artifact is exact: the bucket of owner an endpoint is in says    *)
(* what it is connected to without owner.  K is closed under the edges that *)
(* do not touch o.                                                          *)
FreshWith(E, S, a, o, K) ==
  /\ E \in SUBSET AllEdges /\ S \in SUBSET Vertices /\ Closed(S, E)
  /\ Searched(a, S, AdjIn(S, E))
  /\ o \in S /\ K \in SUBSET Vertices /\ Closed(K, Without(E, o))

SameSide(K, u, v) == u \in K <=> v \in K

LEMMA FreshFacts ==
  ASSUME NEW E, NEW S, NEW a, NEW o, NEW K, FreshWith(E, S, a, o, K)
  PROVE  /\ Coarse(a, E) /\ Seen(a) = S /\ S \subseteq Vertices
         /\ \A v \in S : a.tin[v] \in Nat
         /\ \A v \in S : v \in Subtree(a, v) /\ Subtree(a, v) \subseteq S
         /\ \A v \in S : \A u \in Subtree(a, v) : a.tin[v] <= a.tin[u]
         /\ \A v \in S : \A u \in Subtree(a, v) : Subtree(a, u) \subseteq Subtree(a, v)
         /\ \A u \in S : \A v \in Subtree(a, u) :
              a.root[u] = a.root[v] /\ (u # v => a.par[v] # v /\ a.par[v] \in Subtree(a, u))
         /\ \A v \in S : a.par[v] # v =>
              /\ a.par[v] \in S /\ a.par[v] \in Neighbours(E, v)
              /\ v \in Subtree(a, a.par[v]) /\ a.tin[a.par[v]] < a.tin[v]
         /\ \A v \in S : a.root[v] \in S /\ a.par[a.root[v]] = a.root[v]
                         /\ v \in Subtree(a, a.root[v])
         /\ \A u, v \in S : v \in Neighbours(E, u) /\ u # o /\ v # o => SameSide(K, u, v)
<1>. DEFINE adj == AdjIn(S, E)
<1>1. /\ E \in SUBSET AllEdges /\ S \in SUBSET Vertices /\ Closed(S, E)
      /\ Searched(a, S, adj) /\ K \in SUBSET Vertices /\ Closed(K, Without(E, o))
  BY DEF FreshWith
<1>2. Graph(S, adj) /\ \A v \in S : adj[v] = Neighbours(E, v) \cap S
  BY <1>1, AdjInFacts
<1>. HIDE DEF adj
<1>3. Coarse(a, E) /\ Seen(a) = S
  BY <1>1, FreshCoarse DEF adj
<1>4. ArtTyped(a) /\ Stretches(a)
  BY <1>3 DEF Coarse
<1>5. \A v \in S : a.tin[v] \in Nat
  BY <1>3, <1>4 DEF ArtTyped
<1>6. /\ \A v \in S : v \in Subtree(a, v) /\ Subtree(a, v) \subseteq S
      /\ \A v \in S : \A u \in Subtree(a, v) : Subtree(a, u) \subseteq Subtree(a, v)
  BY <1>3, <1>4, SubtreeFacts
<1>7. \A v \in S : \A u \in Subtree(a, v) : a.tin[v] <= a.tin[u]
  BY <1>3 DEF Subtree
<1>8. \A u \in S : \A v \in Subtree(a, u) :
         a.root[u] = a.root[v] /\ (u # v => a.par[v] # v /\ a.par[v] \in Subtree(a, u))
  BY <1>1, <1>2, SearchedFacts
<1>9. \A v \in S : a.par[v] # v =>
         a.par[v] \in adj[v] /\ v \in Subtree(a, a.par[v]) /\ a.tin[a.par[v]] < a.tin[v]
  BY <1>1, <1>2, SearchedFacts
<1>10. \A v \in S : a.par[v] \in S /\ a.root[v] \in S
  BY <1>1, <1>2, SearchedFacts
<1>11. \A v \in S : a.par[a.root[v]] = a.root[v] /\ v \in Subtree(a, a.root[v])
  BY <1>1, <1>2, SearchedFacts
<1>12. \A v \in S : a.par[v] # v => a.par[v] \in Neighbours(E, v)
  BY <1>2, <1>9
<1>13. ASSUME NEW u \in S, NEW v \in S, v \in Neighbours(E, u), u # o, v # o
       PROVE  SameSide(K, u, v)
  <2>1. u \in Neighbours(Without(E, o), v) /\ v \in Neighbours(Without(E, o), u)
    <3>1. u \in Neighbours(E, v)
      BY <1>1, <1>13, NeighboursFacts
    <3>. QED
      BY <1>1, <1>13, <3>1, WithoutFacts
  <2>2. \A y \in K : Neighbours(Without(E, o), y) \subseteq K
    <3>1. Without(E, o) \in SUBSET AllEdges
      BY <1>1, WithoutFacts
    <3>. QED
      BY <1>1, <3>1, NeighboursFacts
  <2>. QED
    BY <2>1, <2>2 DEF SameSide
<1>. QED
  BY <1>1, <1>3, <1>5, <1>6, <1>7, <1>8, <1>9, <1>10, <1>11, <1>12, <1>13

\* A subtree without o is on one side.
LEMMA SubtreeJoined ==
  ASSUME NEW E, NEW S, NEW a, NEW o, NEW K, FreshWith(E, S, a, o, K),
         NEW c \in S, o \notin Subtree(a, c), NEW v \in Subtree(a, c)
  PROVE  SameSide(K, v, c)
<1>. DEFINE T == {y \in Subtree(a, c) : ~SameSide(K, y, c)}
            N == {a.tin[y] : y \in T}
<1>1. SUFFICES ASSUME T # {} PROVE FALSE
  OBVIOUS
<1>2. /\ \A y \in S : a.tin[y] \in Nat
      /\ Subtree(a, c) \subseteq S
      /\ \A y \in Subtree(a, c) : c # y => a.par[y] # y /\ a.par[y] \in Subtree(a, c)
      /\ \A y \in S : a.par[y] # y => a.par[y] \in Neighbours(E, y) /\ a.tin[a.par[y]] < a.tin[y]
      /\ \A u, y \in S : y \in Neighbours(E, u) /\ u # o /\ y # o => SameSide(K, u, y)
  BY FreshFacts
<1>3. N \subseteq Nat /\ N # {}
  BY <1>1, <1>2
<1>4. PICK n \in N : \A m \in N : n <= m
  <2>. HIDE DEF N
  <2>. QED
    BY <1>3, LeastNatural
<1>5. PICK y \in T : \A z \in T : a.tin[y] <= a.tin[z]
  BY <1>4
<1>6. y # c /\ y \in Subtree(a, c) /\ ~SameSide(K, y, c)
  BY <1>5 DEF SameSide
<1>7. a.par[y] \in Subtree(a, c) /\ a.tin[a.par[y]] < a.tin[y] /\ a.par[y] \in Neighbours(E, y)
  BY <1>2, <1>6
<1>8. SameSide(K, y, a.par[y])
  BY <1>2, <1>6, <1>7
<1>9. SameSide(K, a.par[y], c)
  <2>1. a.tin[y] \in Nat /\ a.tin[a.par[y]] \in Nat
    BY <1>2, <1>6, <1>7
  <2>. QED
    BY <1>5, <1>7, <2>1
<1>. QED
  BY <1>6, <1>8, <1>9 DEF SameSide

\* What no child of o cuts off is on the side of the root, which is not o.
LEMMA RestJoined ==
  ASSUME NEW E, NEW S, NEW a, NEW o, NEW K, FreshWith(E, S, a, o, K),
         NEW v \in S, v # o, a.root[v] = a.root[o],
         \A c : CutBy(a, E, o, c) => v \notin Subtree(a, c)
  PROVE  a.root[o] # o /\ SameSide(K, v, a.root[o])
<1>. DEFINE r == a.root[o]
            Free(y) == y # o /\ a.root[y] = r /\ \A c : CutBy(a, E, o, c) => y \notin Subtree(a, c)
            Good(y) == r # o /\ SameSide(K, y, r)
            T == {y \in S : Free(y) /\ ~Good(y)}
            N == {a.tin[y] : y \in T}
<1>1. SUFFICES ASSUME T # {} PROVE FALSE
  OBVIOUS
<1>2. /\ Coarse(a, E) /\ Seen(a) = S /\ E \in SUBSET AllEdges /\ o \in S
      /\ \A y \in S : a.tin[y] \in Nat
      /\ \A y \in S : y \in Subtree(a, y) /\ Subtree(a, y) \subseteq S
      /\ \A y \in S : \A u \in Subtree(a, y) : a.tin[y] <= a.tin[u]
      /\ \A y \in S : \A u \in Subtree(a, y) : Subtree(a, u) \subseteq Subtree(a, y)
  BY FreshFacts DEF FreshWith
<1>3. /\ \A u \in S : \A y \in Subtree(a, u) :
              a.root[u] = a.root[y] /\ (u # y => a.par[y] # y /\ a.par[y] \in Subtree(a, u))
      /\ \A y \in S : a.par[y] # y =>
              /\ a.par[y] \in S /\ a.par[y] \in Neighbours(E, y)
              /\ y \in Subtree(a, a.par[y]) /\ a.tin[a.par[y]] < a.tin[y]
      /\ \A y \in S : a.root[y] \in S /\ a.par[a.root[y]] = a.root[y]
                         /\ y \in Subtree(a, a.root[y])
  BY FreshFacts
<1>4. \A u, y \in S : y \in Neighbours(E, u) /\ u # o /\ y # o => SameSide(K, u, y)
  BY FreshFacts
<1>5. N \subseteq Nat /\ N # {}
  BY <1>1, <1>2
<1>6. PICK n \in N : \A m \in N : n <= m
  <2>. HIDE DEF N
  <2>. QED
    BY <1>5, LeastNatural
<1>7. PICK e \in T : \A z \in T : a.tin[e] <= a.tin[z]
  BY <1>6
<1>8. e \in S /\ e # o /\ a.root[e] = r /\ Free(e) /\ ~Good(e)
  BY <1>7
<1>9. \A y \in S : a.tin[y] < a.tin[e] /\ Free(y) => Good(y)
  BY <1>2, <1>7, <1>8
<1>. HIDE DEF T, N
<1>10. e # r
  BY <1>8 DEF SameSide
<1>11. /\ a.par[e] # e /\ a.par[e] \in S /\ a.par[e] \in Neighbours(E, e)
       /\ e \in Subtree(a, a.par[e]) /\ a.tin[a.par[e]] < a.tin[e]
  BY <1>3, <1>8, <1>10
<1>12. CASE a.par[e] # o
  <2>1. a.root[a.par[e]] = r
    BY <1>3, <1>8, <1>11
  <2>2. \A c : CutBy(a, E, o, c) => a.par[e] \notin Subtree(a, c)
    <3>1. ASSUME NEW c, CutBy(a, E, o, c), a.par[e] \in Subtree(a, c) PROVE FALSE
      <4>1. c \in S
        BY <1>2, <3>1, CutByFacts
      <4>2. e \in Subtree(a, c)
        BY <1>2, <1>11, <3>1, <4>1
      <4>. QED
        BY <1>8, <3>1, <4>2
    <3>. QED
      BY <3>1
  <2>3. Good(a.par[e])
    BY <1>9, <1>11, <1>12, <2>1, <2>2
  <2>4. SameSide(K, e, a.par[e])
    BY <1>4, <1>8, <1>11, <1>12
  <2>. QED
    BY <1>8, <2>3, <2>4 DEF SameSide
<1>13. CASE a.par[e] = o
  <2>1. o \in Neighbours(E, e)
    BY <1>11, <1>13
  <2>2. e \in ChildrenOf(a, E, o)
    BY <1>2, <1>8, <1>13, <2>1 DEF ChildrenOf, Neighbours
  <2>3. ~CutBy(a, E, o, e)
    BY <1>2, <1>8
  <2>4. a.par[o] # o /\ ~(a.low[e] >= a.tin[o])
    BY <2>2, <2>3 DEF CutBy
  <2>5. a.tin[o] < a.tin[e]
    BY <1>11, <1>13
  <2>6. o \notin Subtree(a, e)
    BY <1>2, <1>8, <2>5
  <2>. DEFINE adj == AdjIn(S, E)
  <2>7. a.low[e] \in Times(a.tin, a.par, adj, Subtree(a, e))
    <3>1. S \in SUBSET Vertices /\ Searched(a, S, adj)
      BY DEF FreshWith
    <3>2. Graph(S, adj)
      BY <1>2, <3>1, AdjInFacts
    <3>. HIDE DEF adj
    <3>. QED
      BY <1>8, <3>1, <3>2, SearchedFacts
  <2>8. \A y \in S : adj[y] = Neighbours(E, y) \cap S
    BY <1>2, AdjInFacts DEF FreshWith
  <2>. HIDE DEF adj
  <2>9. PICK z \in Subtree(a, e) : a.low[e] \in {a.tin[z]} \cup {a.tin[y] : y \in adj[z] \ {a.par[z]}}
    BY <2>7 DEF Times
  <2>10. z \in S /\ a.tin[e] <= a.tin[z] /\ a.root[z] = r /\ z # o
    BY <1>2, <1>3, <1>8, <2>6, <2>9
  <2>11. a.low[e] # a.tin[z]
    BY <1>2, <1>8, <2>4, <2>5, <2>10
  <2>12. PICK y \in adj[z] : a.low[e] = a.tin[y]
    BY <2>9, <2>11
  <2>13. y \in S /\ y \in Neighbours(E, z)
    BY <2>8, <2>10, <2>12
  <2>14. a.tin[y] < a.tin[o] /\ y # o
    BY <1>2, <2>4, <2>12, <2>13
  <2>15. a.root[y] = r
    BY <1>2, <2>10, <2>13 DEF Coarse, Whole
  <2>16. \A c : CutBy(a, E, o, c) => y \notin Subtree(a, c)
    <3>1. ASSUME NEW c, CutBy(a, E, o, c), y \in Subtree(a, c) PROVE FALSE
      <4>1. c \in S /\ c \in Subtree(a, o)
        BY <1>2, <3>1, CutByFacts
      <4>2. a.tin[o] <= a.tin[c] /\ a.tin[c] <= a.tin[y]
        BY <1>2, <3>1, <4>1
      <4>. QED
        BY <1>2, <2>13, <2>14, <4>1, <4>2
    <3>. QED
      BY <3>1
  <2>17. Good(y)
    <3>1. a.tin[y] < a.tin[e]
      BY <1>2, <1>8, <2>5, <2>13, <2>14
    <3>. QED
      BY <1>9, <2>13, <2>14, <2>15, <2>16, <3>1
  <2>18. SameSide(K, z, y)
    BY <1>4, <2>10, <2>13, <2>14
  <2>19. SameSide(K, z, e)
    BY <1>8, <2>6, <2>9, SubtreeJoined
  <2>. QED
    BY <1>8, <2>17, <2>18, <2>19 DEF SameSide
<1>. QED
  BY <1>12, <1>13

\* What BucketIn says of two endpoints is what a search without owner would.
LEMMA FreshExact ==
  ASSUME NEW E \in SUBSET AllEdges, NEW S \in SUBSET Vertices, Closed(S, E), NEW a,
         Searched(a, S, AdjIn(S, E)), NEW o \in S, NEW u \in Neighbours(E, o),
         NEW w \in Neighbours(E, o)
  PROVE  /\ BucketIn(a, E, o, u) # NoBucket
         /\ BucketIn(a, E, o, u) = BucketIn(a, E, o, w) <=> w \in Component(Without(E, o), u)
<1>. DEFINE F == Without(E, o)
            b == BucketIn(a, E, o, u)
            d == BucketIn(a, E, o, w)
<1>1. Coarse(a, E) /\ Seen(a) = S
  BY FreshCoarse
<1>2. F \in SUBSET AllEdges
  BY WithoutFacts
<1>3. /\ u \in S /\ w \in S /\ u # o /\ w # o /\ u \in Vertices /\ w \in Vertices
      /\ a.root[u] = a.root[o] /\ a.root[w] = a.root[o]
  <2>1. \A v \in Neighbours(E, o) : v \in S /\ v # o /\ a.root[v] = a.root[o]
    BY <1>1, NeighboursFacts DEF Coarse, Whole
  <2>. QED
    BY <2>1
<1>4. b = Bucket(a, ChildrenOf(a, E, o), o, u) /\ d = Bucket(a, ChildrenOf(a, E, o), o, w)
  BY DEF BucketIn
<1>. HIDE DEF b, d
<1>5. b # NoBucket /\ d # NoBucket
  BY <1>1, <1>3, <1>4, BucketFacts
<1>6. ASSUME w \in Component(F, u) PROVE b = d
  <2>. DEFINE T == {y \in Vertices : y # o /\ BucketIn(a, E, o, y) = b}
  <2>1. T \in SUBSET Vertices /\ u \in T
    BY <1>3 DEF b
  <2>2. ASSUME NEW y \in T, NEW z \in Neighbours(F, y) PROVE z \in T
    <3>1. z \in Neighbours(E, y) /\ z # o /\ y # o /\ y \in Vertices /\ z \in Vertices
      BY <2>2, WithoutFacts DEF Neighbours
    <3>2. Bucket(a, ChildrenOf(a, E, o), o, y) = Bucket(a, ChildrenOf(a, E, o), o, z)
      BY <1>1, <3>1, BucketsMeet
    <3>. QED
      BY <2>2, <3>1, <3>2 DEF BucketIn
  <2>. HIDE DEF T
  <2>3. Closed(T, F)
    <3>1. \A y \in T : Neighbours(F, y) \subseteq T
      BY <2>2
    <3>. HIDE DEF F
    <3>. QED
      BY <1>2, <2>1, <3>1, NeighboursFacts
  <2>4. w \in T
    BY <1>6, <2>1, <2>3, ComponentSmallest
  <2>. QED
    BY <2>4 DEF T, d
<1>7. ASSUME b = d PROVE w \in Component(F, u)
  <2>1. SUFFICES ASSUME NEW K \in SUBSET Vertices, u \in K, Closed(K, F) PROVE w \in K
    BY <1>3 DEF Component
  <2>2. FreshWith(E, S, a, o, K)
    BY <2>1 DEF FreshWith
  <2>3. \A c : CutBy(a, E, o, c) => c \in Seen(a) /\ o \notin Subtree(a, c) /\ c # 0
    <3>1. 0 \notin Vertices
      <4>1. PICK n \in Nat : n = Cardinality(Vertices)
        BY VerticesAssumption, FS_CardinalityType
      <4>2. Vertices = 1 .. n
        BY <4>1, InputsAssumption
      <4>. QED
        BY <4>1, <4>2
    <3>. QED
      BY <1>1, <3>1, CutByFacts
  <2>4. \A c : CutBy(a, E, o, c) /\ u \in Subtree(a, c) => b = c
    BY <1>1, <1>3, <1>4, <1>5, BucketFacts
  <2>5. \A c : CutBy(a, E, o, c) /\ w \in Subtree(a, c) => d = c
    BY <1>1, <1>3, <1>4, <1>5, BucketFacts
  <2>6. (\A c : CutBy(a, E, o, c) => u \notin Subtree(a, c)) => b = 0
    BY <1>1, <1>3, <1>4, <1>5, BucketFacts
  <2>7. (\A c : CutBy(a, E, o, c) => w \notin Subtree(a, c)) => d = 0
    BY <1>1, <1>3, <1>4, <1>5, BucketFacts
  <2>8. CASE \E c : CutBy(a, E, o, c) /\ u \in Subtree(a, c)
    <3>1. PICK c : CutBy(a, E, o, c) /\ u \in Subtree(a, c)
      BY <2>8
    <3>2. b = c /\ c # 0 /\ c \in S /\ o \notin Subtree(a, c)
      BY <1>1, <2>3, <2>4, <3>1
    <3>3. PICK e : CutBy(a, E, o, e) /\ w \in Subtree(a, e)
      BY <1>7, <2>7, <3>2
    <3>4. e = c
      BY <1>7, <2>5, <3>2, <3>3
    <3>5. w \in Subtree(a, c)
      BY <3>3, <3>4
    <3>6. SameSide(K, u, c) /\ SameSide(K, w, c)
      BY <2>2, <3>1, <3>2, <3>5, SubtreeJoined
    <3>. QED
      BY <2>1, <3>6 DEF SameSide
  <2>9. CASE \A c : CutBy(a, E, o, c) => u \notin Subtree(a, c)
    <3>1. \A c : CutBy(a, E, o, c) => w \notin Subtree(a, c)
      BY <1>7, <2>3, <2>5, <2>6, <2>9
    <3>2. SameSide(K, u, a.root[o])
      BY <1>3, <2>2, <2>9, RestJoined
    <3>3. SameSide(K, w, a.root[o])
      BY <1>3, <2>2, <3>1, RestJoined
    <3>. QED
      BY <2>1, <3>2, <3>3 DEF SameSide
  <2>. QED
    BY <2>8, <2>9
<1>. QED
  BY <1>5, <1>6, <1>7 DEF b, d

(* Branch queries. *)
LEMMA BranchFacts ==
  ASSUME NEW qs \in SUBSET (Vertices \X Vertices \X Vertices), NEW q \in BranchesOf(qs)
  PROVE  /\ q = <<q[1], q[2], q[3]>> /\ q[1] \in Vertices /\ q[2] \in Vertices /\ q[3] \in Vertices
         /\ q[1] # q[2] /\ q[1] # q[3]
         /\ \A v \in Ends(q) : \E e \in UndirectedEdges(qs) : e = <<v, q[1]>> \/ e = <<q[1], v>>
<1>1. PICK t \in qs : q \in BranchAt(t)
  BY DEF BranchesOf
<1>2. t = <<t[1], t[2], t[3]>> /\ t[1] \in Vertices /\ t[2] \in Vertices /\ t[3] \in Vertices
  BY <1>1
<1>3. t[3] # t[1] /\ t[3] # t[2]
      /\ (q = <<t[3], t[1], t[2]>> \/ q = <<t[3], t[2], t[1]>>)
  BY <1>1 DEF BranchAt
<1>4. q = <<q[1], q[2], q[3]>> /\ q[1] = t[3] /\ Ends(q) = {t[1], t[2]}
      /\ q[2] \in {t[1], t[2]} /\ q[3] \in {t[1], t[2]}
  BY <1>3 DEF Ends
<1>5. ASSUME NEW v \in {t[1], t[2]}
      PROVE  \E e \in UndirectedEdges(qs) : e = <<v, t[3]>> \/ e = <<t[3], v>>
  <2>1. PICK d : d = <<t[3], v>>
    OBVIOUS
  <2>2. d \in DirectPairs(qs)
    BY <1>1, <1>3, <2>1 DEF DirectPairs
  <2>3. (IF d[1] < d[2] THEN d ELSE <<d[2], d[1]>>) \in UndirectedEdges(qs)
    BY <2>2 DEF UndirectedEdges
  <2>. QED
    BY <2>1, <2>3
<1>. QED
  BY <1>2, <1>3, <1>4, <1>5

(* The choice of supports. *)
LEMMA SequenceOfSet ==
  ASSUME NEW S, IsFiniteSet(S)
  PROVE  Lists(SetToSeq(S), S)
<1>. DEFINE n == Cardinality(S)
<1>1. n \in Nat /\ ExistsBijection(1 .. n, S) /\ IsFiniteSet(1 .. n) /\ Cardinality(1 .. n) = n
  BY FS_CardinalityType, FS_Interval
<1>2. \E f \in [1 .. n -> S] : IsInjective(f)
  BY <1>1 DEF ExistsBijection, Bijection, Injection
<1>3. PICK s : s = SetToSeq(S)
  OBVIOUS
<1>4. s = CHOOSE f \in [1 .. n -> S] : IsInjective(f)
  BY <1>3 DEF SetToSeq
<1>. HIDE DEF n
<1>5. s \in [1 .. n -> S] /\ IsInjective(s)
  BY <1>2, <1>4
<1>6. s \in Surjection(1 .. n, S)
  <2>1. s \in Injection(1 .. n, S)
    BY <1>5 DEF Injection
  <2>. QED
    BY <1>1, <2>1, FS_Injection DEF n
<1>7. /\ s = [i \in 1 .. n |-> s[i]]
      /\ \A i \in 1 .. n : s[i] \in S
      /\ \A x \in S : \E i \in 1 .. n : s[i] = x
      /\ \A i, j \in 1 .. n : s[i] = s[j] => i = j
  BY <1>5, <1>6 DEF Surjection, IsInjective
<1>. QED
  BY <1>1, <1>3, <1>7, ListMade

SupportChosen(w, D, E) == DOMAIN w = D /\ \A c \in D : w[c] \in Supports(E, c)

LEMMA ChoicesSupport ==
  ASSUME NEW E, NEW classes, IsFiniteSet(classes), NEW w \in SupportChoices(E, classes)
  PROVE  SupportChosen(w, classes, E)
<1>1. PICK s, base : s = SetToSeq(classes) /\ base = {<<>>}
  OBVIOUS
<1>2. Lists(s, classes)
  BY <1>1, SequenceOfSet
<1>. DEFINE n == Len(s)
            Upto(k) == {s[i] : i \in 1 .. k}
            W == UNION {[D -> SUBSET Vertices] : D \in SUBSET classes}
            U == [k \in 0 .. n |-> SUBSET {v \in W : SupportChosen(v, Upto(k), E)}]
            Step(X, k) == {With(v, s[k], Z) : v \in X, Z \in Supports(E, s[k])}
            next == [k \in 1 .. n |-> [X \in U[k - 1] |-> Step(X, k)]]
            Is(f) == f = [k \in 0 .. n |-> IF k = 0 THEN base ELSE Step(f[k - 1], k)]
            given[k \in 0 .. n] ==
              IF k = 0 THEN {<<>>} ELSE {With(v, s[k], Z) : v \in given[k - 1], Z \in Supports(E, s[k])}
<1>3. /\ n \in Nat /\ DOMAIN s = 1 .. n /\ \A i \in 1 .. n : s[i] \in classes
      /\ \A x \in classes : \E i \in 1 .. n : s[i] = x
  BY <1>2, ListFacts
<1>4. base \in U[0]
  <2>1. Upto(0) = {}
    OBVIOUS
  <2>2. <<>> \in [{} -> SUBSET Vertices] /\ DOMAIN <<>> = {}
    OBVIOUS
  <2>3. <<>> \in W
    BY <2>2
  <2>4. SupportChosen(<<>>, {}, E)
    BY <2>2 DEF SupportChosen
  <2>5. 0 \in 0 .. n
    BY <1>3
  <2>. HIDE DEF W, Upto
  <2>. QED
    BY <1>1, <2>1, <2>3, <2>4, <2>5
<1>5. ASSUME NEW k \in 1 .. n, NEW X \in U[k - 1] PROVE Step(X, k) \in U[k]
  <2>1. k - 1 \in 0 .. n /\ k \in 0 .. n
    BY <1>3
  <2>2. X \subseteq {v \in W : SupportChosen(v, Upto(k - 1), E)}
    BY <1>5, <2>1
  <2>3. Upto(k) = Upto(k - 1) \cup {s[k]}
    <3>1. 1 .. k = (1 .. k - 1) \cup {k}
      BY <1>5
    <3>. QED
      BY <3>1
  <2>4. U[k] = SUBSET {v \in W : SupportChosen(v, Upto(k), E)}
    BY <2>1
  <2>5. Upto(k) \subseteq classes
    BY <1>3, <1>5
  <2>. HIDE DEF U, Upto
  <2>6. ASSUME NEW v \in X, NEW Z \in Supports(E, s[k])
        PROVE  With(v, s[k], Z) \in W /\ SupportChosen(With(v, s[k], Z), Upto(k), E)
    <3>1. PICK r : r = With(v, s[k], Z)
      OBVIOUS
    <3>2. DOMAIN v = Upto(k - 1) /\ \A c \in Upto(k - 1) : v[c] \in Supports(E, c)
      BY <2>2 DEF SupportChosen
    <3>3. /\ r = [c \in Upto(k) |-> IF c = s[k] THEN Z ELSE v[c]]
      BY <2>3, <3>1, <3>2 DEF With
    <3>4. \A c \in Upto(k) : r[c] \in Supports(E, c)
      BY <2>3, <3>2, <3>3
    <3>5. r \in [Upto(k) -> SUBSET Vertices]
      BY <3>3, <3>4 DEF Supports
    <3>6. r \in W
      BY <2>5, <3>5
    <3>. QED
      BY <3>1, <3>3, <3>4, <3>6 DEF SupportChosen
  <2>. HIDE DEF W
  <2>. QED
    BY <2>4, <2>6
<1>6. given = CHOOSE f : Is(f)
  BY <1>1
<1>7. SupportChoices(E, classes) = given[n]
  BY <1>1 DEF SupportChoices
<1>. HIDE DEF U, Step, given, n
<1>8. \E f : Is(f)
  <2>1. \A k \in 1 .. n : \A X \in U[k - 1] : next[k][X] = Step(X, k)
    OBVIOUS
  <2>. HIDE DEF next
  <2>2. Climbs(n, U, base, next)
    BY <1>4, <1>5, <2>1 DEF Climbs
  <2>3. PICK f : Iterate(f, n, U, base, next)
    BY <1>3, <2>2, Iterates
  <2>4. \A k \in 1 .. n : f[k - 1] \in U[k - 1]
    BY <1>3, <2>3 DEF Iterate
  <2>5. f = [k \in 0 .. n |-> IF k = 0 THEN base ELSE next[k][f[k - 1]]]
    BY <2>3 DEF Iterate
  <2>6. \A k \in 0 .. n : k # 0 => k \in 1 .. n
    BY <1>3
  <2>7. \A k \in 0 .. n : k # 0 => next[k][f[k - 1]] = Step(f[k - 1], k)
    BY <2>1, <2>4, <2>6
  <2>8. Is(f)
    BY <2>5, <2>7
  <2>. QED
    BY <2>8
<1>. HIDE DEF Is
<1>9. Is(given)
  BY <1>6, <1>8
<1>. USE DEF Is
<1>14. given[0] = base /\ \A k \in 1 .. n : given[k] = Step(given[k - 1], k)
  BY <1>3, <1>9
<1>. HIDE DEF Is
<1>10. \A k \in 0 .. n : given[k] \in U[k]
  <2>. DEFINE Good == {k \in 0 .. n : given[k] \in U[k]}
  <2>2. 0 \in Good
    BY <1>3, <1>4, <1>14
  <2>3. \A k \in 1 .. n : k - 1 \in Good => k \in Good
    BY <1>3, <1>5, <1>14
  <2>. HIDE DEF Good
  <2>4. \A k \in 0 .. n : k \in Good
    BY <1>3, <2>2, <2>3, Upward
  <2>. QED
    BY <2>4 DEF Good
<1>11. w \in given[n] /\ given[n] \in U[n] /\ n \in 0 .. n
  BY <1>3, <1>7, <1>10
<1>12. SupportChosen(w, Upto(n), E)
  BY <1>11 DEF U
<1>13. Upto(n) = classes
  BY <1>3
<1>. QED
  BY <1>12, <1>13

--------------------------------------------------------------------------------
(* What a support tells. *)
LEMMA SupportReaches ==
  ASSUME NEW E \in SUBSET AllEdges, NEW o, NEW W \in SUBSET Vertices, Connected(E, W), o \notin W,
         NEW u \in W, NEW w \in W
  PROVE  w \in Component(Without(E, o), u)
<1>1. SUFFICES ASSUME NEW K \in SUBSET Vertices, u \in K, Closed(K, Without(E, o)) PROVE w \in K
  BY DEF Component
<1>. DEFINE A == W \cap K
<1>2. A \in SUBSET W /\ A # {}
  BY <1>1
<1>3. CASE A = W
  BY <1>3
<1>4. CASE A # W
  <2>1. PICK e \in E : {e[1], e[2]} \subseteq W /\ (e[1] \in A) # (e[2] \in A)
    <3>. HIDE DEF A
    <3>. QED
      BY <1>2, <1>4 DEF Connected
  <2>2. e \in Without(E, o)
    BY <2>1 DEF Without, Touches
  <2>3. e[1] \in K <=> e[2] \in K
    BY <1>1, <2>2 DEF Closed
  <2>4. e[1] \in W /\ e[2] \in W
    BY <2>1
  <2>5. e[1] \in A <=> e[2] \in A
    BY <2>3, <2>4
  <2>6. (e[1] \in A) = (e[2] \in A)
    BY <2>5
  <2>. QED
    BY <2>1, <2>6
<1>. QED
  BY <1>3, <1>4

\* A support keeps away from vertices without an edge, if it has two vertices.
LEMMA SupportAlive ==
  ASSUME NEW E, NEW A, \A e \in E : e[1] \in A /\ e[2] \in A,
         NEW c, NEW W, IsSupport(E, c, W), c[2] # {}, c[2] \subseteq A
  PROVE  W \subseteq A
<1>1. SUFFICES ASSUME NEW v \in W, v \notin A PROVE FALSE
  OBVIOUS
<1>2. c[2] \subseteq W /\ Connected(E, W)
  BY DEF IsSupport
<1>3. {v} \in SUBSET W /\ {v} # {} /\ {v} # W
  BY <1>1, <1>2
<1>4. PICK e \in E : {e[1], e[2]} \subseteq W /\ (e[1] \in {v}) # (e[2] \in {v})
  BY <1>2, <1>3 DEF Connected
<1>5. e[1] = v \/ e[2] = v
  <2>1. ASSUME e[1] # v, e[2] # v PROVE FALSE
    <3>1. (e[1] \in {v}) = FALSE /\ (e[2] \in {v}) = FALSE
      BY <2>1
    <3>. QED
      BY <1>4, <3>1
  <2>. QED
    BY <2>1
<1>. QED
  BY <1>1, <1>5

\* A support without x stays one when x goes.
LEMMA SupportKept ==
  ASSUME NEW E, NEW c, NEW W, IsSupport(E, c, W), NEW x, x \notin W
  PROVE  IsSupport(Without(E, x), c, W)
<1>1. c[2] \subseteq W /\ c[1] \notin W /\ Connected(E, W)
  BY DEF IsSupport
<1>2. ASSUME NEW A \in SUBSET W, A # {}, A # W
      PROVE  \E e \in Without(E, x) : {e[1], e[2]} \subseteq W /\ (e[1] \in A) # (e[2] \in A)
  <2>1. PICK e \in E : {e[1], e[2]} \subseteq W /\ (e[1] \in A) # (e[2] \in A)
    BY <1>1, <1>2 DEF Connected
  <2>2. e \in Without(E, x)
    BY <2>1 DEF Without, Touches
  <2>. QED
    BY <2>1, <2>2
<1>. QED
  BY <1>1, <1>2 DEF IsSupport, Connected

(* The classes of the queries of one owner. *)
LEMMA ClassesByFacts ==
  ASSUME NEW a, NEW E, NEW o, NEW qs, \A q \in qs : Owner(q) = o /\ Together(a, E, q),
         NEW cs, cs = ClassesBy(a, E, o, qs)
  PROVE  /\ \A c \in cs : /\ c = <<o, c[2]>> /\ c[1] = o
                          /\ \A e \in c[2] : \E q \in qs : e \in Ends(q)
                          /\ QueriesOf(qs, c) # {}
         /\ \A c, d \in cs : c[2] \cap d[2] # {} => c = d
         /\ \A q \in qs : \E c \in cs : Ends(q) \subseteq c[2]
         /\ qs = {} => cs = {}
<1>. DEFINE ends == UNION {Ends(q) : q \in qs}
            Of(b) == {e \in ends : BucketIn(a, E, o, e) = b}
            B == {BucketIn(a, E, o, e) : e \in ends}
<1>1. cs = {<<o, Of(b)>> : b \in B}
  BY DEF ClassesBy
<1>2. \A b \in B : \E e \in ends : e \in Of(b)
  OBVIOUS
<1>3. \A q \in qs : q[2] \in ends /\ q[3] \in ends
                    /\ BucketIn(a, E, o, q[2]) = BucketIn(a, E, o, q[3]) /\ Owner(q) = o
  BY DEF Ends, Together
<1>4. \A e \in ends : \E q \in qs : e \in Ends(q)
  OBVIOUS
<1>5. ASSUME NEW q \in qs, NEW e \in Ends(q) PROVE Ends(q) \subseteq Of(BucketIn(a, E, o, e))
  BY <1>3, <1>5 DEF Ends
<1>6. \A b \in B : \A e \in Of(b) : e \in ends /\ BucketIn(a, E, o, e) = b
  OBVIOUS
<1>7. \A e \in ends : BucketIn(a, E, o, e) \in B
  OBVIOUS
<1>. HIDE DEF ends, Of, B
<1>8. ASSUME NEW c \in cs
      PROVE  \E b \in B : c = <<o, Of(b)>> /\ c[1] = o /\ c[2] = Of(b)
  BY <1>1
<1>9. ASSUME NEW c \in cs
      PROVE  /\ c = <<o, c[2]>> /\ c[1] = o
             /\ \A e \in c[2] : \E q \in qs : e \in Ends(q)
             /\ QueriesOf(qs, c) # {}
  <2>1. PICK b \in B : c = <<o, Of(b)>> /\ c[1] = o /\ c[2] = Of(b)
    BY <1>8
  <2>2. \A e \in c[2] : \E q \in qs : e \in Ends(q)
    BY <1>4, <1>6, <2>1
  <2>3. PICK e \in ends : e \in Of(b)
    BY <1>2
  <2>4. PICK q \in qs : e \in Ends(q)
    BY <1>4
  <2>5. Ends(q) \subseteq c[2]
    BY <1>5, <1>6, <2>1, <2>3, <2>4
  <2>6. q \in QueriesOf(qs, c)
    BY <1>3, <2>1, <2>5 DEF QueriesOf
  <2>. QED
    BY <2>1, <2>2, <2>6
<1>10. ASSUME NEW c \in cs, NEW d \in cs, c[2] \cap d[2] # {} PROVE c = d
  BY <1>6, <1>8, <1>10
<1>11. ASSUME NEW q \in qs PROVE \E c \in cs : Ends(q) \subseteq c[2]
  <2>1. PICK e : e = q[2]
    OBVIOUS
  <2>2. e \in Ends(q) /\ e \in ends
    BY <1>3, <2>1 DEF Ends
  <2>3. <<o, Of(BucketIn(a, E, o, e))>> \in cs
    BY <1>1, <1>7, <2>2
  <2>. QED
    BY <1>5, <2>2, <2>3
<1>12. ASSUME qs = {} PROVE cs = {}
  BY <1>4, <1>9, <1>12 DEF QueriesOf
<1>. QED
  BY <1>9, <1>10, <1>11, <1>12

(* The invariant of the oracle.  Classes of one owner are disjoint, every   *)
(* active query is in one, and a class without active queries is dropped.   *)
Joined(q, E, A) ==
  {q[1], q[2], q[3]} \subseteq A /\ q[3] \in Component(Without(E, q[1]), q[2])

ClassInv(w, act, E, A) ==
  /\ \A c \in DOMAIN w : /\ c = <<c[1], c[2]>> /\ c[1] \in A /\ w[c] \subseteq A
                         /\ IsSupport(E, c, w[c]) /\ QueriesOf(act, c) # {}
  /\ \A c, d \in DOMAIN w : c[1] = d[1] /\ c[2] \cap d[2] # {} => c = d
  /\ \A q \in act : \E c \in DOMAIN w : Owner(q) = c[1] /\ Ends(q) \subseteq c[2]

EdgesLeft(qs, E, A) ==
  E \subseteq UndirectedEdges(qs) /\ \A e \in UndirectedEdges(qs) : e[1] \in A /\ e[2] \in A => e \in E

OracleInv ==
  /\ TopoInv /\ QueriesTyped /\ branches = BranchesOf(queries)
  /\ EdgesLeft(queries, live, alive)
  /\ \A q \in branches : q \in active <=> Joined(q, live, alive)
  /\ active \subseteq branches
  /\ ClassInv(watch, active, live, alive)

\* The endpoints are neighbours of the owner while all three live.
LEMMA EndsAround ==
  ASSUME NEW qs \in SUBSET (Vertices \X Vertices \X Vertices), NEW E, NEW A, EdgesLeft(qs, E, A),
         NEW q \in BranchesOf(qs), {q[1], q[2], q[3]} \subseteq A
  PROVE  \A v \in Ends(q) : v \in Neighbours(E, q[1])
<1>1. ASSUME NEW v \in Ends(q) PROVE v \in Neighbours(E, q[1])
  <2>1. v \in Vertices /\ v \in A /\ q[1] \in A
    BY <1>1, BranchFacts DEF Ends
  <2>2. PICK e \in UndirectedEdges(qs) : e = <<v, q[1]>> \/ e = <<q[1], v>>
    BY <1>1, BranchFacts
  <2>3. e[1] \in A /\ e[2] \in A
    BY <2>1, <2>2
  <2>4. e \in E
    BY <2>3 DEF EdgesLeft
  <2>. QED
    BY <2>1, <2>2, <2>4 DEF Neighbours
<1>. QED
  BY <1>1

\* A query the artifact has just seen.
FreshOver(qs, E, A, S, a) ==
  /\ qs \in SUBSET (Vertices \X Vertices \X Vertices) /\ E \in SUBSET AllEdges
  /\ EdgesLeft(qs, E, A) /\ S \in SUBSET Vertices /\ S \subseteq A /\ Closed(S, E)
  /\ Searched(a, S, AdjIn(S, E))

LEMMA TogetherExact ==
  ASSUME NEW qs, NEW E, NEW A, NEW S, NEW a, FreshOver(qs, E, A, S, a),
         NEW q \in BranchesOf(qs), {q[1], q[2], q[3]} \subseteq S
  PROVE  Together(a, E, q) <=> Joined(q, E, A)
<1>1. /\ qs \in SUBSET (Vertices \X Vertices \X Vertices) /\ E \in SUBSET AllEdges
      /\ EdgesLeft(qs, E, A) /\ S \in SUBSET Vertices /\ S \subseteq A /\ Closed(S, E)
      /\ Searched(a, S, AdjIn(S, E))
  BY DEF FreshOver
<1>2. {q[1], q[2], q[3]} \subseteq A
  BY <1>1
<1>3. q[2] \in Neighbours(E, q[1]) /\ q[3] \in Neighbours(E, q[1])
  BY <1>1, <1>2, EndsAround DEF Ends
<1>4. PICK o, u, w : o = q[1] /\ u = q[2] /\ w = q[3]
  OBVIOUS
<1>5. /\ BucketIn(a, E, o, u) # NoBucket
      /\ BucketIn(a, E, o, u) = BucketIn(a, E, o, w) <=> w \in Component(Without(E, o), u)
  <2>1. o \in S /\ u \in Neighbours(E, o) /\ w \in Neighbours(E, o)
    BY <1>3, <1>4
  <2>. QED
    BY ONLY <1>1, <2>1, FreshExact
<1>. QED
  BY <1>2, <1>4, <1>5 DEF Together, Joined, Owner

LEMMA ClassesFinite ==
  ASSUME NEW cs, \A c \in cs : c = <<c[1], c[2]>> /\ c[1] \in Vertices /\ c[2] \subseteq Vertices
  PROVE  IsFiniteSet(cs)
<1>1. IsFiniteSet(SUBSET Vertices) /\ IsFiniteSet(Vertices)
  BY VerticesAssumption, FS_SUBSET
<1>2. IsFiniteSet(Vertices \X SUBSET Vertices)
  BY <1>1, FS_Product
<1>3. cs \in SUBSET (Vertices \X SUBSET Vertices)
  <2>1. ASSUME NEW c \in cs PROVE c \in Vertices \X SUBSET Vertices
    <3>1. c = <<c[1], c[2]>> /\ c[1] \in Vertices /\ c[2] \subseteq Vertices
      OBVIOUS
    <3>2. PICK u, w : u = c[1] /\ w = c[2]
      OBVIOUS
    <3>3. c = <<u, w>> /\ u \in Vertices /\ w \in SUBSET Vertices
      BY <3>1, <3>2
    <3>. QED
      BY ONLY <3>3
  <2>. QED
    BY <2>1
<1>. QED
  BY <1>2, <1>3, FS_Subset

LEMMA OracleInvInit == Init => OracleInv
<1>. SUFFICES ASSUME Init PROVE OracleInv
  OBVIOUS
<1>1. QueriesTyped
  BY InitHolds DEF SolverInv, Typed
<1>2. /\ live = UndirectedEdges(queries) /\ branches = BranchesOf(queries) /\ TopoInit
      /\ active = {q \in branches : Together(dfs, live, q)}
      /\ watch \in SupportChoices(live,
           UNION {ClassesBy(dfs, live, o, {q \in active : Owner(q) = o}) : o \in Vertices})
  BY DEF Init, OracleInit
<1>3. live \in SUBSET AllEdges
  BY <1>1, <1>2, EdgesTyped DEF QueriesTyped
<1>4. TopoInv /\ alive = Vertices
  BY <1>2, <1>3, TopoInvBegins DEF TopoInit
<1>5. EdgesLeft(queries, live, alive)
  BY <1>2 DEF EdgesLeft
<1>6. Closed(Vertices, live)
  BY <1>3 DEF Closed, AllEdges
<1>7. Searched(dfs, Vertices, AdjIn(Vertices, live))
  <2>1. Lists(Ascending(Vertices), Vertices)
    BY VerticesAssumption, AscendingLists
  <2>2. dfs = Artifact(Ascending(Vertices), live)
    BY <1>2 DEF TopoInit
  <2>. QED
    BY <1>3, <2>1, <2>2, ArtifactSearched
<1>8. FreshOver(queries, live, alive, Vertices, dfs)
  BY <1>1, <1>3, <1>4, <1>5, <1>6, <1>7 DEF FreshOver, QueriesTyped
<1>9. \A q \in branches : Ends(q) \subseteq Vertices /\ Owner(q) \in Vertices
                         /\ {q[1], q[2], q[3]} \subseteq Vertices
  BY <1>1, <1>2, BranchFacts DEF QueriesTyped, Ends, Owner
<1>10. \A q \in branches : q \in active <=> Joined(q, live, alive)
  BY <1>2, <1>8, <1>9, TogetherExact
<1>. DEFINE Of(o) == ClassesBy(dfs, live, o, {q \in active : Owner(q) = o})
            cs == UNION {Of(o) : o \in Vertices}
<1>11. ASSUME NEW o \in Vertices
       PROVE  /\ \A c \in Of(o) : /\ c = <<o, c[2]>> /\ c[1] = o
                                  /\ \A e \in c[2] : e \in Vertices
                                  /\ QueriesOf(active, c) # {} /\ c[2] # {}
              /\ \A c, d \in Of(o) : c[2] \cap d[2] # {} => c = d
              /\ \A q \in active : Owner(q) = o => \E c \in Of(o) : Ends(q) \subseteq c[2]
  <2>. DEFINE qs == {q \in active : Owner(q) = o}
  <2>1. \A q \in qs : Owner(q) = o /\ Together(dfs, live, q)
    BY <1>2
  <2>2. qs \subseteq active /\ \A q \in active : Owner(q) = o => q \in qs
    OBVIOUS
  <2>3. PICK k : k = Of(o)
    OBVIOUS
  <2>4. k = ClassesBy(dfs, live, o, qs)
    BY <2>3
  <2>. HIDE DEF qs, Of
  <2>5. /\ \A c \in k : /\ c = <<o, c[2]>> /\ c[1] = o
                        /\ \A e \in c[2] : \E q \in qs : e \in Ends(q)
                        /\ QueriesOf(qs, c) # {}
        /\ \A c, d \in k : c[2] \cap d[2] # {} => c = d
        /\ \A q \in qs : \E c \in k : Ends(q) \subseteq c[2]
    BY <2>1, <2>4, ClassesByFacts
  <2>6. \A c \in k : (\A e \in c[2] : e \in Vertices) /\ QueriesOf(active, c) # {} /\ c[2] # {}
    <3>1. ASSUME NEW b \in k
          PROVE  (\A e \in b[2] : e \in Vertices) /\ QueriesOf(active, b) # {} /\ b[2] # {}
      <4>1. PICK q \in QueriesOf(qs, b) : TRUE
        <5>1. QueriesOf(qs, b) # {}
          BY <2>5, <3>1
        <5>. QED
          BY <5>1
      <4>2. q \in QueriesOf(active, b) /\ q[2] \in b[2]
        BY <2>2, <4>1 DEF QueriesOf, Ends
      <4>3. \A e \in b[2] : e \in Vertices
        BY <1>2, <1>9, <2>2, <2>5, <3>1
      <4>. QED
        BY <4>2, <4>3
    <3>. QED
      BY <3>1
  <2>. QED
    BY <2>2, <2>3, <2>5, <2>6
<1>12. \A c \in cs : c = <<c[1], c[2]>> /\ c[1] \in Vertices /\ c[2] \subseteq Vertices /\ c[2] # {}
                     /\ QueriesOf(active, c) # {} /\ c \in Of(c[1])
  <2>1. ASSUME NEW c \in cs
        PROVE  c = <<c[1], c[2]>> /\ c[1] \in Vertices /\ c[2] \subseteq Vertices /\ c[2] # {}
               /\ QueriesOf(active, c) # {} /\ c \in Of(c[1])
    <3>1. PICK o \in Vertices : c \in Of(o)
      OBVIOUS
    <3>. HIDE DEF Of, cs
    <3>. QED
      BY <1>11, <3>1
  <2>. QED
    BY <2>1
<1>13. \A o \in Vertices : Of(o) \subseteq cs
  OBVIOUS
<1>14. watch \in SupportChoices(live, cs)
  BY <1>2
<1>. HIDE DEF Of, cs
<1>15. SupportChosen(watch, cs, live)
  <2>1. IsFiniteSet(cs)
    BY <1>12, ClassesFinite
  <2>. QED
    BY <1>14, <2>1, ChoicesSupport
<1>16. ClassInv(watch, active, live, alive)
  <2>1. DOMAIN watch = cs /\ \A c \in cs : watch[c] \subseteq Vertices /\ IsSupport(live, c, watch[c])
    BY <1>15 DEF SupportChosen, Supports
  <2>2. \A q \in active : \E c \in cs : Owner(q) = c[1] /\ Ends(q) \subseteq c[2]
    <3>1. ASSUME NEW q \in active PROVE \E c \in cs : Owner(q) = c[1] /\ Ends(q) \subseteq c[2]
      <4>1. Owner(q) \in Vertices
        BY <1>2, <1>9
      <4>2. PICK c \in Of(Owner(q)) : Ends(q) \subseteq c[2]
        BY <1>11, <4>1
      <4>. QED
        BY <1>11, <1>13, <4>1, <4>2
    <3>. QED
      BY <3>1
  <2>3. \A c, d \in cs : c[1] = d[1] /\ c[2] \cap d[2] # {} => c = d
    BY <1>11, <1>12
  <2>. QED
    BY <1>4, <1>12, <2>1, <2>2, <2>3 DEF ClassInv
<1>. QED
  BY <1>1, <1>2, <1>4, <1>5, <1>10, <1>16 DEF OracleInv

--------------------------------------------------------------------------------
(* What a deletion leaves of graph, artifact and queries. *)
LEMMA ErasedGraph ==
  ASSUME OracleInv, NEW x, EraseVertex(x)
  PROVE  /\ x \in alive /\ alive \subseteq Vertices /\ live \in SUBSET AllEdges
         /\ TopoInv'
         /\ live' = Without(live, x) /\ live' \in SUBSET AllEdges /\ live' \subseteq live
         /\ alive' = alive \ {x}
         /\ \A e \in live' : e[1] \in alive' /\ e[2] \in alive'
         /\ TopologyTouched(x) =>
              Searched(dfs', Left(x), AdjIn(Left(x), Without(live, x)))
<1>1. TopoInv /\ DeleteVertexAndSplit(x, TopologyTouched(x))
  BY DEF OracleInv, EraseVertex
<1>2. PICK touched : touched = TopologyTouched(x)
  OBVIOUS
<1>3. DeleteVertexAndSplit(x, touched)
  BY <1>1, <1>2
<1>4. x \in alive /\ TakeOut(x)
  BY <1>3 DEF DeleteVertexAndSplit, TouchedSplit, PathOrderedDelete, LeafyDelete, ConnectedDelete,
              UntouchedSplit
<1>5. TopoInv'
  BY <1>1, <1>3, DeletionFiles
<1>6. alive \subseteq Vertices /\ live \in SUBSET AllEdges
  BY <1>1 DEF TopoInv, Filing
<1>7. live' = Without(live, x) /\ alive' = alive \ {x}
  BY <1>4 DEF TakeOut, EdgesWithout, Without
<1>8. live' \in SUBSET AllEdges /\ \A e \in live' : e[1] \in alive' /\ e[2] \in alive'
  BY <1>5 DEF TopoInv, Filing
<1>9. ASSUME TopologyTouched(x)
      PROVE  Searched(dfs', Left(x), AdjIn(Left(x), Without(live, x)))
  <2>1. TouchedSplit(x)
    BY <1>2, <1>3, <1>9 DEF DeleteVertexAndSplit
  <2>2. EdgesWithout(x) = Without(live, x)
    BY DEF EdgesWithout, Without
  <2>3. Searched(dfs', Left(x), AdjIn(Left(x), EdgesWithout(x)))
    BY <1>1, <1>4, <2>1, TouchedFiles DEF TouchedSplit
  <2>. QED
    BY <2>2, <2>3
<1>. QED
  BY <1>4, <1>5, <1>6, <1>7, <1>8, <1>9 DEF Without

\* A class that watches x lives in the part the search looks at again.
LEMMA WatchersLeft ==
  ASSUME OracleInv, NEW x \in alive, NEW c \in TouchedClasses(x),
         NEW q \in QueriesOf(active, c), x \notin Ends(q)
  PROVE  {q[1], q[2], q[3]} \subseteq Left(x) /\ q[1] # x
<1>1. /\ TopoInv /\ queries \in SUBSET (Vertices \X Vertices \X Vertices)
      /\ EdgesLeft(queries, live, alive) /\ c \in DOMAIN watch /\ x \in watch[c]
      /\ q \in active /\ Owner(q) = c[1] /\ Ends(q) \subseteq c[2]
      /\ q \in BranchesOf(queries) /\ Joined(q, live, alive)
  BY DEF OracleInv, TouchedClasses, QueriesOf, QueriesTyped
<1>2. alive \subseteq Vertices /\ live \in SUBSET AllEdges
  BY <1>1 DEF TopoInv, Filing
<1>3. watch[c] \subseteq alive /\ c[2] \subseteq watch[c] /\ c[1] \notin watch[c]
      /\ Connected(live, watch[c])
  BY <1>1 DEF OracleInv, ClassInv, IsSupport
<1>4. PICK W, o : W = watch[c] /\ o = c[1]
  OBVIOUS
<1>5. \A u \in W : x \in Component(Without(live, o), u)
  <2>1. W \in SUBSET Vertices /\ Connected(live, W) /\ o \notin W /\ x \in W
    BY <1>1, <1>2, <1>3, <1>4
  <2>. QED
    BY ONLY <1>2, <2>1, SupportReaches
<1>6. \A u \in W : x \in Component(live, u)
  BY <1>5 DEF Component, Closed, Without
<1>7. \A u \in W : compOf[u] = compOf[x]
  BY <1>1, <1>3, <1>4, <1>6, FilingNeverSplits DEF NeverSplits
<1>8. /\ LeftWhole(x)
      /\ \A v : v \in Left(x) <=> v \in alive /\ v # x /\ compOf[v] = compOf[x]
  BY <1>1, LeftFacts
<1>9. q[2] \in Left(x) /\ q[3] \in Left(x)
  BY <1>1, <1>3, <1>4, <1>7, <1>8 DEF Ends
<1>10. {q[1], q[2], q[3]} \subseteq alive
  BY <1>1 DEF Joined
<1>11. q[2] \in Neighbours(live, q[1])
  BY <1>1, <1>10, EndsAround DEF Ends
<1>12. q[1] # x
  BY <1>1, <1>3 DEF Owner
<1>13. q[1] \in Left(x)
  BY <1>2, <1>8, <1>9, <1>10, <1>11, <1>12 DEF LeftWhole
<1>. QED
  BY <1>9, <1>12, <1>13

LEMMA TouchedExact ==
  ASSUME OracleInv, NEW x, EraseVertex(x), TopologyTouched(x), NEW c \in TouchedClasses(x),
         NEW q \in QueriesOf(active, c), x \notin Ends(q)
  PROVE  Together(dfs', live', q) <=> Joined(q, live', alive')
<1>1. PICK E, A, a : E = live' /\ A = alive' /\ a = dfs'
  OBVIOUS
<1>2. /\ x \in alive /\ alive \subseteq Vertices /\ E = Without(live, x) /\ E \in SUBSET AllEdges
      /\ E \subseteq live /\ A = alive \ {x} /\ \A e \in E : e[1] \in A /\ e[2] \in A
      /\ Searched(a, Left(x), AdjIn(Left(x), E))
  BY <1>1, ErasedGraph
<1>3. queries \in SUBSET (Vertices \X Vertices \X Vertices) /\ EdgesLeft(queries, live, alive)
      /\ TopoInv /\ q \in BranchesOf(queries)
  BY DEF OracleInv, QueriesTyped, QueriesOf
<1>4. EdgesLeft(queries, E, A)
  <2>1. ASSUME NEW e \in UndirectedEdges(queries), e[1] \in A, e[2] \in A PROVE e \in E
    BY <1>2, <1>3, <2>1 DEF EdgesLeft, Without, Touches
  <2>. QED
    BY <1>2, <1>3, <2>1 DEF EdgesLeft
<1>5. Closed(Left(x), E) /\ Left(x) \subseteq A
  <2>1. EdgesWithout(x) = E
    BY <1>2 DEF EdgesWithout, Without
  <2>2. Closed(Left(x), EdgesWithout(x))
        /\ \A v : v \in Left(x) <=> v \in alive /\ v # x /\ compOf[v] = compOf[x]
    BY <1>2, <1>3, LeftFacts
  <2>. QED
    BY <1>2, <2>1, <2>2
<1>6. {q[1], q[2], q[3]} \subseteq Left(x)
  BY <1>2, WatchersLeft
<1>7. PICK S : S = Left(x)
  OBVIOUS
<1>8. FreshOver(queries, E, A, S, a)
  BY <1>2, <1>3, <1>4, <1>5, <1>7 DEF FreshOver
<1>9. Together(a, E, q) <=> Joined(q, E, A)
  BY <1>3, <1>6, <1>7, <1>8, TogetherExact
<1>. QED
  BY <1>1, <1>9

(* A deletion resolves exactly the queries it separates. *)
LEMMA JoinedFewer ==
  ASSUME NEW q, NEW E, NEW F, F \subseteq E, NEW A, NEW B, B \subseteq A, Joined(q, F, B)
  PROVE  Joined(q, E, A)
BY DEF Joined, Component, Closed, Without

LEMMA ResolvedExact ==
  ASSUME OracleInv, NEW x, EraseVertex(x), NEW q \in active
  PROVE  /\ q \in Resolved(x) <=> ~Joined(q, live', alive')
         /\ q \notin Resolved(x) => Owner(q) # x /\ x \notin Ends(q)
<1>1. /\ x \in alive /\ alive \subseteq Vertices /\ live \in SUBSET AllEdges
      /\ live' = Without(live, x) /\ alive' = alive \ {x}
  BY ErasedGraph
<1>2. /\ ClassInv(watch, active, live, alive) /\ Joined(q, live, alive)
  BY DEF OracleInv
<1>3. CASE Owner(q) = x
  BY <1>1, <1>3 DEF Owner, Joined, Resolved
<1>4. CASE Owner(q) # x /\ \E c \in TouchedClasses(x) : q \in QueriesOf(active, c)
  <2>1. PICK c \in TouchedClasses(x) : q \in QueriesOf(active, c)
    BY <1>4
  <2>2. CASE x \in Ends(q)
    BY <1>1, <2>1, <2>2 DEF Resolved, Joined, Ends
  <2>3. CASE x \notin Ends(q)
    <3>1. ~DiesWith(x)
      BY <2>1, <2>3 DEF DiesWith
    <3>2. TopologyTouched(x)
      BY <2>1, <3>1 DEF TopologyTouched
    <3>3. Together(dfs', live', q) <=> Joined(q, live', alive')
      BY <2>1, <2>3, <3>2, TouchedExact
    <3>4. q \in Resolved(x) <=> ~Together(dfs', live', q)
      BY <1>4, <2>1, <2>3 DEF Resolved
    <3>. QED
      BY <1>4, <2>3, <3>3, <3>4
  <2>. QED
    BY <2>2, <2>3
<1>5. CASE Owner(q) # x /\ \A c \in TouchedClasses(x) : q \notin QueriesOf(active, c)
  <2>1. q \notin Resolved(x)
    BY <1>5 DEF Resolved
  <2>2. PICK c \in DOMAIN watch : Owner(q) = c[1] /\ Ends(q) \subseteq c[2]
    BY <1>2 DEF ClassInv
  <2>3. x \notin watch[c]
    BY <1>5, <2>2 DEF QueriesOf, TouchedClasses
  <2>4. watch[c] \subseteq alive /\ IsSupport(live, c, watch[c]) /\ c[1] \in alive
    BY <1>2, <2>2 DEF ClassInv
  <2>5. IsSupport(live', c, watch[c])
    BY <1>1, <2>3, <2>4, SupportKept
  <2>6. PICK E, W, o : E = live' /\ W = watch[c] /\ o = c[1]
    OBVIOUS
  <2>7. c[2] \subseteq W /\ o \notin W /\ Connected(E, W) /\ W \in SUBSET Vertices
    BY <1>1, <2>4, <2>5, <2>6 DEF IsSupport
  <2>8. E \in SUBSET AllEdges
    BY <2>6, ErasedGraph
  <2>9. q[2] \in W /\ q[3] \in W /\ q[1] = o
    BY <2>2, <2>6, <2>7 DEF Ends, Owner
  <2>10. q[3] \in Component(Without(E, o), q[2])
    BY <2>7, <2>8, <2>9, SupportReaches
  <2>11. {q[1], q[2], q[3]} \subseteq alive'
    BY <1>1, <1>5, <2>3, <2>4, <2>6, <2>9 DEF Owner
  <2>12. Joined(q, live', alive')
    BY <2>6, <2>9, <2>10, <2>11 DEF Joined
  <2>13. x \notin Ends(q)
    BY <2>3, <2>6, <2>9 DEF Ends
  <2>. QED
    BY <1>5, <2>1, <2>12, <2>13
<1>. QED
  BY <1>3, <1>4, <1>5

(* The classes after a deletion. *)
Remade(x, c) == ClassesBy(dfs', live', c[1], QueriesOf(active \ Resolved(x), c))

LEMMA RemadeFacts ==
  ASSUME OracleInv, NEW x, EraseVertex(x), NEW c \in TouchedClasses(x)
  PROVE  /\ c \in DOMAIN watch /\ c[1] \in alive' /\ c[2] \subseteq alive
         /\ \A n \in Remade(x, c) :
              /\ n = <<n[1], n[2]>> /\ n[1] = c[1] /\ n[2] \subseteq c[2] /\ n[2] \subseteq alive'
              /\ QueriesOf(active', n) # {} /\ n[2] # {}
         /\ \A m, n \in Remade(x, c) : m[2] \cap n[2] # {} => m = n
         /\ \A q \in QueriesOf(active', c) :
              \E n \in Remade(x, c) : Owner(q) = n[1] /\ Ends(q) \subseteq n[2]
<1>1. active' = active \ Resolved(x)
  BY DEF EraseVertex
<1>2. /\ c \in DOMAIN watch /\ x \in watch[c] /\ c[1] \in alive /\ watch[c] \subseteq alive
      /\ c[2] \subseteq watch[c] /\ c[1] \notin watch[c]
  BY DEF TouchedClasses, OracleInv, ClassInv, IsSupport
<1>3. alive' = alive \ {x}
  BY ErasedGraph
<1>4. PICK o, k, qs : o = c[1] /\ k = Remade(x, c) /\ qs = QueriesOf(active', c)
  OBVIOUS
<1>5. k = ClassesBy(dfs', live', o, qs)
  BY <1>1, <1>4 DEF Remade
<1>6. \A q \in qs : q \in active' /\ Owner(q) = o /\ Ends(q) \subseteq c[2]
  BY <1>4 DEF QueriesOf
<1>7. \A q \in qs : x \notin Ends(q) /\ Together(dfs', live', q)
  <2>1. ASSUME NEW q \in qs PROVE x \notin Ends(q) /\ Together(dfs', live', q)
    <3>1. q \in active /\ q \notin Resolved(x)
      BY <1>1, <1>6
    <3>2. q \in QueriesOf(active, c)
      BY <1>4, <3>1 DEF QueriesOf
    <3>. QED
      BY <3>1, <3>2 DEF Resolved
  <2>. QED
    BY <2>1
<1>8. PICK a, E : a = dfs' /\ E = live'
  OBVIOUS
<1>9. /\ \A n \in k : /\ n = <<o, n[2]>> /\ n[1] = o
                      /\ \A e \in n[2] : \E q \in qs : e \in Ends(q)
                      /\ QueriesOf(qs, n) # {}
      /\ \A m, n \in k : m[2] \cap n[2] # {} => m = n
      /\ \A q \in qs : \E n \in k : Ends(q) \subseteq n[2]
  <2>1. k = ClassesBy(a, E, o, qs) /\ \A q \in qs : Owner(q) = o /\ Together(a, E, q)
    BY <1>5, <1>6, <1>7, <1>8
  <2>. QED
    BY ONLY <2>1, ClassesByFacts
<1>10. ASSUME NEW n \in k
       PROVE  /\ n = <<n[1], n[2]>> /\ n[1] = o /\ n[2] \subseteq c[2] /\ x \notin n[2]
              /\ QueriesOf(active', n) # {} /\ n[2] # {}
  <2>1. n = <<o, n[2]>> /\ n[1] = o /\ n[2] \subseteq c[2] /\ x \notin n[2]
    BY <1>6, <1>7, <1>9, <1>10
  <2>2. QueriesOf(qs, n) # {}
    BY <1>9, <1>10
  <2>3. PICK q \in QueriesOf(qs, n) : TRUE
    BY <2>2
  <2>4. q \in QueriesOf(active', n) /\ q[2] \in n[2]
    BY <1>6, <2>3 DEF QueriesOf, Ends
  <2>. QED
    BY <2>1, <2>4
<1>11. \A n \in k : n[2] \subseteq alive'
  BY <1>2, <1>3, <1>10
<1>12. c[1] \in alive' /\ c[2] \subseteq alive
  BY <1>2, <1>3
<1>13. \A q \in qs : \E n \in k : Owner(q) = n[1] /\ Ends(q) \subseteq n[2]
  BY <1>6, <1>9, <1>10
<1>. QED
  BY <1>2, <1>4, <1>9, <1>10, <1>11, <1>12, <1>13

LEMMA NewClassesFacts ==
  ASSUME OracleInv, NEW x, EraseVertex(x), NEW N, N = NewClasses(x)
  PROVE  /\ IsFiniteSet(N)
         /\ \A n \in N : /\ n = <<n[1], n[2]>> /\ n[1] \in alive' /\ n[2] \subseteq alive'
                         /\ QueriesOf(active', n) # {} /\ n[2] # {}
                         /\ \E c \in TouchedClasses(x) : n[1] = c[1] /\ n[2] \subseteq c[2]
         /\ \A m, n \in N : m[1] = n[1] /\ m[2] \cap n[2] # {} => m = n
         /\ \A c \in TouchedClasses(x) : \A q \in QueriesOf(active', c) :
              \E n \in N : Owner(q) = n[1] /\ Ends(q) \subseteq n[2]
<1>1. N = UNION {Remade(x, c) : c \in TouchedClasses(x)}
  BY DEF NewClasses, Remade
<1>2. \A n \in N : \E c \in TouchedClasses(x) : n \in Remade(x, c)
  BY <1>1
<1>3. \A c \in TouchedClasses(x) : Remade(x, c) \subseteq N
  BY <1>1
<1>4. alive' \subseteq Vertices
  BY ErasedGraph
<1>5. ASSUME NEW n \in N
      PROVE  /\ n = <<n[1], n[2]>> /\ n[1] \in alive' /\ n[2] \subseteq alive'
             /\ QueriesOf(active', n) # {} /\ n[2] # {}
             /\ \E c \in TouchedClasses(x) : n[1] = c[1] /\ n[2] \subseteq c[2]
  <2>1. PICK c \in TouchedClasses(x) : n \in Remade(x, c)
    BY <1>2
  <2>2. /\ n = <<n[1], n[2]>> /\ n[1] = c[1] /\ n[2] \subseteq c[2] /\ n[2] \subseteq alive'
        /\ QueriesOf(active', n) # {} /\ n[2] # {} /\ c[1] \in alive'
    BY <2>1, RemadeFacts
  <2>. QED
    BY <2>2
<1>6. ASSUME NEW m \in N, NEW n \in N, m[1] = n[1], NEW e \in m[2], e \in n[2] PROVE m = n
  <2>1. PICK c \in TouchedClasses(x) : m \in Remade(x, c)
    BY <1>2
  <2>2. PICK d \in TouchedClasses(x) : n \in Remade(x, d)
    BY <1>2
  <2>3. m[1] = c[1] /\ e \in c[2] /\ c \in DOMAIN watch
    BY <1>6, <2>1, RemadeFacts
  <2>4. n[1] = d[1] /\ e \in d[2] /\ d \in DOMAIN watch
    BY <1>6, <2>2, RemadeFacts
  <2>5. c = d
    BY <1>6, <2>3, <2>4 DEF OracleInv, ClassInv
  <2>. QED
    BY <1>6, <2>1, <2>2, <2>5, RemadeFacts
<1>7. ASSUME NEW c \in TouchedClasses(x), NEW q \in QueriesOf(active', c)
      PROVE  \E n \in N : Owner(q) = n[1] /\ Ends(q) \subseteq n[2]
  BY <1>3, RemadeFacts
<1>8. IsFiniteSet(N)
  BY <1>4, <1>5, ClassesFinite
<1>. QED
  BY <1>5, <1>6, <1>7, <1>8

LEMMA ClassInvKept ==
  ASSUME OracleInv, NEW x, EraseVertex(x)
  PROVE  ClassInv(watch', active', live', alive')
<1>1. /\ alive \subseteq Vertices /\ live' = Without(live, x) /\ alive' = alive \ {x}
      /\ \A e \in live' : e[1] \in alive' /\ e[2] \in alive'
  BY ErasedGraph
<1>2. PICK N : N = NewClasses(x)
  OBVIOUS
<1>3. PICK chosen \in SupportChoices(live', N) :
        watch' = [c \in (DOMAIN watch \ (TouchedClasses(x) \cup OwnedClasses(x))) \cup N
                    |-> IF c \in N THEN chosen[c] ELSE watch[c]]
  BY <1>2 DEF EraseVertex
<1>4. /\ IsFiniteSet(N)
      /\ \A n \in N : /\ n = <<n[1], n[2]>> /\ n[1] \in alive' /\ n[2] \subseteq alive'
                      /\ QueriesOf(active', n) # {} /\ n[2] # {}
                      /\ \E c \in TouchedClasses(x) : n[1] = c[1] /\ n[2] \subseteq c[2]
      /\ \A m, n \in N : m[1] = n[1] /\ m[2] \cap n[2] # {} => m = n
      /\ \A c \in TouchedClasses(x) : \A q \in QueriesOf(active', c) :
           \E n \in N : Owner(q) = n[1] /\ Ends(q) \subseteq n[2]
  BY <1>2, NewClassesFacts
<1>5. SupportChosen(chosen, N, live')
  <2>1. PICK E : E = live'
    OBVIOUS
  <2>2. SupportChosen(chosen, N, E)
    BY <1>3, <1>4, <2>1, ChoicesSupport
  <2>. QED
    BY <2>1, <2>2
<1>6. PICK kept : kept = DOMAIN watch \ (TouchedClasses(x) \cup OwnedClasses(x))
  OBVIOUS
<1>7. DOMAIN watch' = kept \cup N /\ \A c \in kept \cup N :
        watch'[c] = IF c \in N THEN chosen[c] ELSE watch[c]
  BY <1>3, <1>6
<1>8. /\ active' = active \ Resolved(x) /\ active' \subseteq active
  BY DEF EraseVertex
<1>9. /\ \A c \in DOMAIN watch :
           /\ c = <<c[1], c[2]>> /\ c[1] \in alive /\ watch[c] \subseteq alive
           /\ IsSupport(live, c, watch[c]) /\ QueriesOf(active, c) # {}
      /\ \A c, d \in DOMAIN watch : c[1] = d[1] /\ c[2] \cap d[2] # {} => c = d
      /\ \A q \in active : \E c \in DOMAIN watch : Owner(q) = c[1] /\ Ends(q) \subseteq c[2]
  BY DEF OracleInv, ClassInv
<1>10. \A c \in TouchedClasses(x) : c \in DOMAIN watch
  BY DEF TouchedClasses
<1>11. ASSUME NEW c \in kept
       PROVE  /\ c \in DOMAIN watch /\ c \notin TouchedClasses(x) /\ x \notin watch[c] /\ c[1] # x
              /\ QueriesOf(active', c) # {}
  <2>1. c \in DOMAIN watch /\ c \notin TouchedClasses(x) /\ x \notin watch[c] /\ c[1] # x
    BY <1>6, <1>11 DEF TouchedClasses, OwnedClasses
  <2>2. PICK q \in QueriesOf(active, c) : TRUE
    BY <1>9, <2>1
  <2>3. q \in active /\ Owner(q) = c[1] /\ Ends(q) \subseteq c[2] /\ q[2] \in Ends(q)
    BY <2>2 DEF QueriesOf, Ends
  <2>4. \A d \in TouchedClasses(x) : q \notin QueriesOf(active, d)
    BY <1>9, <1>10, <2>1, <2>3 DEF QueriesOf
  <2>5. q \notin Resolved(x)
    BY <2>1, <2>3, <2>4 DEF Resolved
  <2>. QED
    BY <1>8, <2>1, <2>3, <2>5 DEF QueriesOf
<1>12. ASSUME NEW c \in DOMAIN watch'
       PROVE  /\ c = <<c[1], c[2]>> /\ c[1] \in alive' /\ watch'[c] \subseteq alive'
              /\ IsSupport(live', c, watch'[c]) /\ QueriesOf(active', c) # {}
  <2>1. CASE c \in N
    <3>1. PICK W, E, A : W = watch'[c] /\ E = live' /\ A = alive'
      OBVIOUS
    <3>2. W = chosen[c]
      BY <1>7, <2>1, <3>1
    <3>3. IsSupport(E, c, W)
      BY <1>5, <2>1, <3>1, <3>2 DEF SupportChosen, Supports
    <3>4. c[2] # {} /\ c[2] \subseteq A /\ \A e \in E : e[1] \in A /\ e[2] \in A
      BY <1>1, <1>4, <2>1, <3>1
    <3>5. W \subseteq A
      BY ONLY <3>3, <3>4, SupportAlive
    <3>. QED
      BY <1>4, <2>1, <3>1, <3>3, <3>5
  <2>2. CASE c \notin N
    <3>1. c \in kept /\ watch'[c] = watch[c]
      BY <1>7, <2>2
    <3>2. /\ c \in DOMAIN watch /\ x \notin watch[c] /\ c[1] # x /\ QueriesOf(active', c) # {}
      BY <1>11, <3>1
    <3>3. IsSupport(live', c, watch[c])
      BY <1>1, <1>9, <3>2, SupportKept
    <3>. QED
      BY <1>1, <1>9, <3>1, <3>2, <3>3
  <2>. QED
    BY <2>1, <2>2
<1>13. ASSUME NEW c \in DOMAIN watch', NEW d \in DOMAIN watch', c[1] = d[1],
              NEW e \in c[2], e \in d[2]
       PROVE  c = d
  <2>1. \A k \in kept : \A n \in N : k[1] = n[1] => e \notin k[2] \/ e \notin n[2]
    <3>1. ASSUME NEW k \in kept, NEW n \in N, k[1] = n[1], e \in k[2], e \in n[2] PROVE FALSE
      <4>1. PICK t \in TouchedClasses(x) : n[1] = t[1] /\ n[2] \subseteq t[2]
        BY <1>4
      <4>2. k \in DOMAIN watch /\ k \notin TouchedClasses(x) /\ t \in DOMAIN watch
        BY <1>10, <1>11
      <4>3. e \in k[2] \cap t[2] /\ k[1] = t[1]
        BY <3>1, <4>1
      <4>. QED
        BY <1>9, <4>2, <4>3
    <3>. QED
      BY <3>1
  <2>2. CASE c \in N /\ d \in N
    BY <1>4, <1>13, <2>2
  <2>3. CASE c \in kept /\ d \in kept
    BY <1>9, <1>11, <1>13, <2>3
  <2>. QED
    BY <1>7, <1>13, <2>1, <2>2, <2>3
<1>14. ASSUME NEW q \in active'
       PROVE  \E c \in DOMAIN watch' : Owner(q) = c[1] /\ Ends(q) \subseteq c[2]
  <2>1. PICK c \in DOMAIN watch : Owner(q) = c[1] /\ Ends(q) \subseteq c[2]
    BY <1>8, <1>9
  <2>2. Owner(q) # x
    BY <1>8, ResolvedExact
  <2>3. CASE c \in TouchedClasses(x)
    <3>1. q \in QueriesOf(active', c)
      BY <2>1 DEF QueriesOf
    <3>. QED
      BY <1>4, <1>7, <2>3, <3>1
  <2>4. CASE c \notin TouchedClasses(x)
    <3>1. c \in kept
      BY <1>6, <2>1, <2>2, <2>4 DEF OwnedClasses
    <3>. QED
      BY <1>7, <2>1, <3>1
  <2>. QED
    BY <2>3, <2>4
<1>. QED
  BY <1>12, <1>13, <1>14 DEF ClassInv

LEMMA OracleKept ==
  ASSUME OracleInv, NEW x, EraseVertex(x), UNCHANGED queries
  PROVE  OracleInv'
<1>1. /\ TopoInv' /\ live' = Without(live, x) /\ live' \subseteq live /\ alive' = alive \ {x}
  BY ErasedGraph
<1>2. /\ active' = active \ Resolved(x) /\ branches' = branches
  BY DEF EraseVertex
<1>3. /\ QueriesTyped' /\ branches' = BranchesOf(queries') /\ active' \subseteq branches'
      /\ EdgesLeft(queries', live, alive)
  BY <1>2 DEF OracleInv, QueriesTyped
<1>4. EdgesLeft(queries', live', alive')
  <2>1. ASSUME NEW e \in UndirectedEdges(queries'), e[1] \in alive', e[2] \in alive'
        PROVE  e \in live'
    BY <1>1, <1>3, <2>1 DEF EdgesLeft, Without, Touches
  <2>. QED
    BY <1>1, <1>3, <2>1 DEF EdgesLeft
<1>5. ASSUME NEW q \in branches'
      PROVE  q \in active' <=> Joined(q, live', alive')
  <2>1. CASE q \in active
    BY <1>2, <2>1, ResolvedExact
  <2>2. CASE q \notin active
    <3>1. ~Joined(q, live, alive)
      BY <1>2, <2>2 DEF OracleInv
    <3>2. ~Joined(q, live', alive')
      <4>1. PICK E, A, F, B : E = live /\ A = alive /\ F = live' /\ B = alive'
        OBVIOUS
      <4>2. F \subseteq E /\ B \subseteq A /\ ~Joined(q, E, A)
        BY <1>1, <3>1, <4>1
      <4>3. ~Joined(q, F, B)
        BY ONLY <4>2, JoinedFewer
      <4>. QED
        BY <4>1, <4>3
    <3>. QED
      BY <1>2, <2>2, <3>2
  <2>. QED
    BY <2>1, <2>2
<1>6. ClassInv(watch', active', live', alive')
  BY ClassInvKept
<1>. QED
  BY <1>1, <1>3, <1>4, <1>5, <1>6 DEF OracleInv

LEMMA OracleInvNext ==
  ASSUME OracleInv, [Next]_allVars
  PROVE  OracleInv'
<1>1. CASE PlaceRoot
  BY <1>1, OracleKept DEF PlaceRoot
<1>2. CASE \E v \in Vertices : Place(v)
  BY <1>2, OracleKept DEF Place
<1>3. CASE Terminating \/ UNCHANGED allVars
  BY <1>3 DEF Terminating, allVars, solverVars, oracleVars, nbVars, OracleInv, TopoInv, Reported,
              QueriesTyped
<1>. QED
  BY <1>1, <1>2, <1>3 DEF Next

LEMMA OracleInvariant == Spec => []OracleInv
<1>1. Init => OracleInv
  BY OracleInvInit
<1>2. OracleInv /\ [Next]_allVars => OracleInv'
  BY OracleInvNext
<1>. QED
  BY <1>1, <1>2, PTL DEF Spec

LEMMA OneClassEach ==
  ASSUME OracleInv, NEW q \in active
  PROVE  Cardinality({c \in DOMAIN watch : q \in QueriesOf({q}, c)}) = 1
<1>1. PICK c \in DOMAIN watch : Owner(q) = c[1] /\ Ends(q) \subseteq c[2]
  BY DEF OracleInv, ClassInv
<1>2. ASSUME NEW d \in DOMAIN watch
      PROVE  q \in QueriesOf({q}, d) <=> d = c
  <2>1. q[2] \in c[2] /\ q[2] \in Ends(q)
    BY <1>1 DEF Ends
  <2>2. \A b \in DOMAIN watch : b[1] = c[1] /\ b[2] \cap c[2] # {} => b = c
    BY DEF OracleInv, ClassInv
  <2>. QED
    BY <1>1, <2>1, <2>2 DEF QueriesOf
<1>3. {d \in DOMAIN watch : q \in QueriesOf({q}, d)} = {c}
  BY <1>1, <1>2
<1>. QED
  BY <1>3, FS_Singleton

(****************************************************************************)
(* For any input: a branch query is active exactly while its endpoints are  *)
(* joined without its owner, whichever supports the classes are given and   *)
(* whichever classes a deletion does not look at; and between deletions     *)
(* every active query is in one class, which watches a live support.        *)
(****************************************************************************)
THEOREM OracleStaysExact == Spec => []OracleExact
<1>1. ASSUME OracleInv PROVE OracleExact
  <2>1. ActiveExact
    BY <1>1 DEF OracleInv, Joined, ActiveExact, Without
  <2>2. \A c \in DOMAIN watch :
          /\ {c[1]} \cup watch[c] \subseteq alive
          /\ IsSupport(live, c, watch[c])
          /\ QueriesOf(active, c) # {}
    BY <1>1 DEF OracleInv, ClassInv
  <2>3. \A q \in active : Cardinality({c \in DOMAIN watch : q \in QueriesOf({q}, c)}) = 1
    BY <1>1, OneClassEach
  <2>. QED
    BY <2>1, <2>2, <2>3 DEF OracleExact, WatchesHold
<1>. QED
  BY <1>1, OracleInvariant, PTL

--------------------------------------------------------------------------------
(****************************************************************************)
(* The types of the solver's own state.  No counter goes below zero, not    *)
(* even for a vertex that is placed already (the root is placed with        *)
(* direct constraints still on it), because it stays a count; and a vertex  *)
(* taken from the queue has a handle that has a place to hang.              *)
(****************************************************************************)
CountersTyped ==
  /\ indeg = [v \in Vertices |-> indeg[v]] /\ bad = [v \in Vertices |-> bad[v]]
  /\ \A v \in Vertices : Counted(v)

Places == Vertices \cup {0, Unplaced}

TreeTyped ==
  /\ parent \in [Vertices -> Places]
  /\ Started => DOMAIN compParent = DOMAIN comps
  /\ ~Started => DOMAIN compParent = {}
  /\ \A h \in DOMAIN compParent : compParent[h] \in Places
  /\ ready \subseteq Vertices

SolverTyped == SolverInv /\ OracleInv /\ CountersTyped /\ TreeTyped

LEMMA HandlesTyped ==
  ASSUME TopoInv
  PROVE  /\ compOf \in [Vertices -> 0 .. Len(comps)] /\ DOMAIN comps = 1 .. Len(comps)
         /\ \A h \in DOMAIN comps : /\ comps[h].verts \in Seq(Vertices)
                                    /\ comps[h].open \in BOOLEAN /\ comps[h].ordered \in BOOLEAN
         /\ Range(created) \subseteq DOMAIN comps
<1>1. PICK h : h = Reported
  OBVIOUS
<1>2. h.of = compOf /\ h.comps = comps /\ h.created = created
  BY <1>1 DEF Reported
<1>3. Held(h)
  BY <1>1 DEF TopoInv, Filing
<1>4. /\ h.of \in [Vertices -> Nat] /\ h.comps \in Seq(CompRecord) /\ h.created \in Seq(Nat)
      /\ \A v \in Vertices : h.of[v] \in 0 .. Len(h.comps)
      /\ \A i \in 1 .. Len(h.created) : h.created[i] \in 1 .. Len(h.comps)
  BY <1>3 DEF Held, HeldBut, HandleRecord
<1>5. compOf \in [Vertices -> 0 .. Len(comps)]
  BY <1>2, <1>4
<1>6. DOMAIN comps = 1 .. Len(comps) /\ \A c \in DOMAIN comps : comps[c] \in CompRecord
  BY <1>2, <1>4
<1>7. Range(created) \subseteq DOMAIN comps
  BY <1>2, <1>4, <1>6 DEF Range
<1>. QED
  BY <1>5, <1>6, <1>7 DEF CompRecord

LEMMA SolverTypedInit == Init => SolverTyped
<1>. SUFFICES ASSUME Init PROVE SolverTyped
  OBVIOUS
<1>1. SolverInv /\ OracleInv
  BY InitHolds, OracleInvInit
<1>2. /\ indeg = [v \in Vertices |-> Cardinality({d \in DirectPairs(queries) : d[2] = v})]
      /\ bad = [v \in Vertices |-> Mass(queries, {q \in active : Owner(q) = v})]
      /\ parent = [v \in Vertices |-> Unplaced] /\ compParent = <<>> /\ ready = {}
  BY DEF Init
<1>3. alive = Vertices
  BY DEF Init, OracleInit, TopoInit
<1>4. ASSUME NEW v \in Vertices PROVE Counted(v)
  <2>1. Holding(v) = {d \in DirectPairs(queries) : d[2] = v}
    BY <1>1, <1>3, QueriesFinite DEF Holding, SolverInv, Typed
  <2>. QED
    BY <1>2, <2>1 DEF Counted, Failing
<1>5. CountersTyped
  BY <1>2, <1>4 DEF CountersTyped
<1>6. TreeTyped
  <2>1. 1 \in Vertices
    BY InputsAssumption
  <2>2. ~Started
    BY <1>2, <2>1 DEF Started
  <2>3. parent \in [Vertices -> Places]
    BY <1>2 DEF Places
  <2>4. DOMAIN compParent = {}
    BY <1>2
  <2>. QED
    BY <1>2, <2>2, <2>3, <2>4 DEF TreeTyped
<1>. QED
  BY <1>1, <1>5, <1>6 DEF SolverTyped

LEMMA CountersTypedKept ==
  ASSUME SolverInv, CountersTyped, NEW v, Erased(v), CountersAfter(v)
  PROVE  CountersTyped'
<1>1. /\ indeg' = [u \in Vertices |-> indeg'[u]] /\ bad' = [u \in Vertices |-> bad'[u]]
  BY DEF CountersAfter
<1>2. ASSUME NEW u \in Vertices PROVE Counted(u)'
  <2>1. bad'[u] = Mass(queries, Failing(u)') /\ indeg'[u] = Cardinality(Holding(u)')
    BY CountKept DEF SolverInv, CountersTyped
  <2>. QED
    BY <2>1 DEF Counted, Erased, Mass, BranchAt
<1>. QED
  BY <1>1, <1>2 DEF CountersTyped

LEMMA HangBelowTyped ==
  ASSUME TreeTyped, NEW v \in Vertices, NEW handles, HangBelow(v, handles)
  PROVE  DOMAIN compParent' = DOMAIN comps' /\ \A h \in DOMAIN compParent' : compParent'[h] \in Places
<1>1. v \in Places /\ Unplaced \in Places
  BY DEF Places
<1>. QED
  BY <1>1 DEF HangBelow, TreeTyped

LEMMA SolverTypedNext ==
  ASSUME SolverTyped, [Next]_allVars
  PROVE  SolverTyped'
<1>1. SolverInv /\ OracleInv /\ CountersTyped /\ TreeTyped
  BY DEF SolverTyped
<1>2. SolverInv' /\ OracleInv'
  BY <1>1, SolverInvNext, OracleInvNext
<1>3. CASE PlaceRoot
  <2>1. /\ parent' = [parent EXCEPT ![1] = 0] /\ EraseVertex(1) /\ CountersAfter(1)
        /\ UNCHANGED queries /\ ready' = {u \in Vertices : MayBePushed(u)}
    BY <1>3 DEF PlaceRoot
  <2>2. CountersTyped'
    BY <1>1, <2>1, EraseFacts, CountersTypedKept
  <2>3. 1 \in Vertices
    BY InputsAssumption
  <2>4. DOMAIN compParent' = DOMAIN comps' /\ \A h \in DOMAIN compParent' : compParent'[h] \in Places
    <3>1. PICK s : HangBelow(1, s)
      BY <1>3 DEF PlaceRoot
    <3>. QED
      BY <1>1, <2>3, <3>1, HangBelowTyped
  <2>5. parent' \in [Vertices -> Places] /\ parent'[1] = 0
    BY <1>1, <2>1, <2>3 DEF TreeTyped, Places
  <2>6. Started'
    BY <2>5 DEF Started, Unplaced
  <2>7. ready' \subseteq Vertices
    BY <2>1
  <2>8. TreeTyped'
    BY <2>4, <2>5, <2>6, <2>7 DEF TreeTyped, Places
  <2>. QED
    BY <1>2, <2>2, <2>8 DEF SolverTyped
<1>4. ASSUME NEW v \in Vertices, Place(v) PROVE SolverTyped'
  <2>1. /\ Started /\ v \in ready /\ compOf[v] # 0
        /\ parent' = [parent EXCEPT ![v] = compParent[compOf[v]]]
        /\ EraseVertex(v) /\ CountersAfter(v) /\ UNCHANGED queries
    BY <1>4 DEF Place, Started
  <2>2. CountersTyped'
    BY <1>1, <2>1, EraseFacts, CountersTypedKept
  <2>3. DOMAIN compParent' = DOMAIN comps' /\ \A h \in DOMAIN compParent' : compParent'[h] \in Places
    <3>1. PICK s : HangBelow(v, s)
      BY <1>4 DEF Place
    <3>. QED
      BY <1>1, <3>1, HangBelowTyped
  <2>4. compOf[v] \in DOMAIN comps
    <3>1. compOf \in [Vertices -> 0 .. Len(comps)] /\ DOMAIN comps = 1 .. Len(comps)
      BY <1>1, HandlesTyped DEF OracleInv
    <3>2. Len(comps) \in Nat
      BY <1>1, <2>1, OldHandle, EraseFacts DEF OracleInv, Erased
    <3>. QED
      BY <2>1, <3>1, <3>2
  <2>5. compParent[compOf[v]] \in Places
    BY <1>1, <2>1, <2>4 DEF TreeTyped
  <2>6. parent' \in [Vertices -> Places]
    BY <1>1, <2>1, <2>5 DEF TreeTyped
  <2>7. Started'
    <3>1. ready = {u \in alive : indeg[u] = 0 /\ bad[u] = 0} /\ 1 \notin alive
      BY <1>1, <2>1 DEF SolverInv, ReadyExact, PlacedForGood
    <3>2. v # 1
      BY <2>1, <3>1
    <3>. QED
      BY <2>1, <3>2 DEF Started
  <2>8. ready' \subseteq Vertices
    BY <1>1, <1>4 DEF Place, Below, TreeTyped
  <2>9. TreeTyped'
    BY <2>3, <2>6, <2>7, <2>8 DEF TreeTyped, Places
  <2>. QED
    BY <1>2, <2>2, <2>9 DEF SolverTyped
<1>5. CASE UNCHANGED allVars
  <2>1. /\ UNCHANGED <<alive, active, comps>>
        /\ UNCHANGED <<queries, indeg, bad, parent, compParent, ready>>
    BY <1>5 DEF allVars, solverVars, oracleVars, nbVars
  <2>2. \A u : Counted(u)' <=> Counted(u)
    BY <2>1 DEF Counted, Holding, Failing, DirectPairs, Owner, Mass, BranchAt
  <2>3. CountersTyped'
    BY <1>1, <2>1, <2>2 DEF CountersTyped
  <2>4. TreeTyped'
    BY <1>1, <2>1 DEF TreeTyped, Started, Places
  <2>. QED
    BY <1>2, <2>3, <2>4 DEF SolverTyped
<1>. QED
  BY <1>3, <1>4, <1>5 DEF Next, Terminating

(****************************************************************************)
(* For any input: the counters stay natural numbers, those of placed        *)
(* vertices too, every handle lists vertices, what a deletion reports       *)
(* exists, and a vertex that is placed hangs below a place the solver has   *)
(* recorded for its handle.                                                 *)
(****************************************************************************)
THEOREM SolverStaysTyped == Spec => []TypeOK
<1>1. Init => SolverTyped
  BY SolverTypedInit
<1>2. SolverTyped /\ [Next]_allVars => SolverTyped'
  BY SolverTypedNext
<1>3. ASSUME SolverTyped PROVE TypeOK
  <2>1. SolverInv /\ OracleInv /\ TopoInv /\ CountersTyped /\ TreeTyped
    BY <1>3 DEF SolverTyped, OracleInv
  <2>2. QueriesTyped /\ active \subseteq branches /\ IsFiniteSet(queries)
    BY <2>1, QueriesFinite DEF OracleInv, SolverInv, Typed
  <2>3. live \subseteq AllEdges /\ alive \subseteq Vertices /\ Seen(dfs) \subseteq alive
    BY <2>1 DEF TopoInv, Filing
  <2>4. /\ compOf \in [Vertices -> 0 .. Len(comps)]
        /\ \A h \in DOMAIN comps : /\ comps[h].verts \in Seq(Vertices)
                                   /\ comps[h].open \in BOOLEAN /\ comps[h].ordered \in BOOLEAN
        /\ Range(created) \subseteq DOMAIN comps
    BY <2>1, HandlesTyped
  <2>5. ASSUME NEW v \in Vertices PROVE indeg[v] \in Nat /\ bad[v] \in Nat
    <3>1. indeg[v] = Cardinality(Holding(v)) /\ bad[v] = Mass(queries, Failing(v))
      BY <2>1 DEF CountersTyped, Counted
    <3>2. IsFiniteSet(DirectPairs(queries)) /\ Holding(v) \in SUBSET DirectPairs(queries)
      BY <2>2, QueriesFinite DEF Holding
    <3>3. IsFiniteSet(Holding(v))
      BY <3>2, FS_Subset
    <3>. QED
      BY <2>2, <3>1, <3>3, FS_CardinalityType, MassTyped
  <2>6. indeg \in [Vertices -> Nat] /\ bad \in [Vertices -> Nat]
    BY <2>1, <2>5 DEF CountersTyped
  <2>7. parent \in [Vertices -> Vertices \cup {0, Unplaced}] /\ ready \subseteq Vertices
        /\ DOMAIN compParent \subseteq DOMAIN comps
    BY <2>1 DEF TreeTyped, Places
  <2>. QED
    BY <2>2, <2>3, <2>4, <2>6, <2>7 DEF TypeOK
<1>. QED
  BY <1>1, <1>2, <1>3, PTL DEF Spec
================================================================================
