-------------------------- MODULE AnalysisFlowProofs --------------------------
(***************************************************************************)
(* What AnalysisFlow promises for every set of plans and requests, every   *)
(* market and every bound: an answer rests on complete reads, a request    *)
(* fails only over a fault, and a validated plan is not passed over.       *)
(***************************************************************************)
EXTENDS AnalysisFlow, FiniteSetTheorems, WellFoundedInduction, TLAPS

-----------------------------------------------------------------------------
\* The plans in use.

\* Lookup in a record set: what replacing one field does to a plan.
LEMMA DowngradedPlan ==
    ASSUME NEW p, PlanType(p)
    PROVE  /\ PlanType(Downgraded(p))
           /\ Downgraded(p).contract = p.contract
           /\ p.shape = Downgraded(p).shape
<1>1. CASE ~(p.proxy /\ p.shape # "dag")
    BY <1>1 DEF Downgraded
<1>2. CASE p.proxy /\ p.shape # "dag"
    <2> DEFINE q == [p EXCEPT !.feasible = FALSE, !.limitations = 1, !.nodes = <<>>, !.uncovered = p.requirements]
    <2>1. q \in PlanRecord(<<>>) /\ q.nodes = <<>> /\ q.contract = p.contract /\ q.shape = p.shape
          /\ q.uses = p.uses /\ q.source = p.source
        BY DEF PlanType, PlanRecord
    <2>2. Downgraded(p) = q
        BY <1>2 DEF Downgraded
    <2> HIDE DEF q
    <2>3. DOMAIN <<>> = {}
        OBVIOUS
    <2>4. IsFiniteSet({})
        BY FS_EmptySet
    <2>5. Ids(q) = {}
        BY <2>1, <2>3 DEF Ids
    <2>6. p.shape = "pipeline" => p.source \in p.uses
        BY DEF PlanType
    <2>7. PlanType(q)
        BY <2>1, <2>4, <2>5, <2>6 DEF PlanType
    <2> QED BY <2>1, <2>2, <2>7
<1> QED BY <1>1, <1>2

LEMMA FinalResultNamed ==
    ASSUME NEW p, PlanType(p)
    PROVE  FinalResult(p) \in STRING
<1>1. p.result \in STRING /\ p.contract.result \in STRING
    BY DEF PlanType, PlanRecord, Contract
<1>2. Cardinality(Ids(p)) = 1 => Ids(p) # {}
    BY FS_EmptySet
<1>3. Ids(p) \subseteq STRING
    BY DEF PlanType
<1>4. Cardinality(Ids(p)) = 1 => (CHOOSE n \in Ids(p) : TRUE) \in STRING
    BY <1>2, <1>3
<1> QED BY <1>1, <1>4 DEF FinalResult

\* An aligned contract requires the result it names.
LEMMA AlignedPlan ==
    ASSUME NEW p, PlanType(p), Contracted(p) => WellFormedContract(p.contract)
    PROVE  /\ PlanType(Aligned(p))
           /\ Contracted(Aligned(p)) => Aligned(p).contract.result \in Required(Aligned(p).contract)
<1>1. CASE ~Contracted(p)
    BY <1>1 DEF Aligned
<1>2. CASE Contracted(p)
    <2> DEFINE names == {IF n = p.contract.result THEN FinalResult(p) ELSE n : n \in Required(p.contract)}
               c == [p.contract EXCEPT !.result = FinalResult(p), !.required = names,
                                       !.complete = p.contract.complete \/ p.contract.summary \/ Ranks(p)]
    <2>1. Aligned(p) = [p EXCEPT !.contract = c]
        BY <1>2 DEF Aligned
    <2>2. p.contract \in Contract /\ p \in PlanRecord(p.nodes)
        BY DEF PlanType, PlanRecord
    <2>3. FinalResult(p) \in STRING
        BY FinalResultNamed
    <2>4. Required(p.contract) \subseteq STRING
        BY <2>2 DEF Required, Contract
    <2>5. names \subseteq STRING
        BY <2>3, <2>4
    <2>6. FinalResult(p) \in names
        BY <1>2 DEF WellFormedContract
    <2> HIDE DEF names
    <2>7. (p.contract.complete \/ p.contract.summary \/ Ranks(p)) \in BOOLEAN
        OBVIOUS
    <2>8. c \in Contract /\ c.result = FinalResult(p) /\ c.required = names
        BY <2>2, <2>3, <2>5, <2>7 DEF Contract
    <2> HIDE DEF c
    <2> DEFINE q == [p EXCEPT !.contract = c]
    <2>9. q \in PlanRecord(p.nodes) /\ q.contract = c /\ q.nodes = p.nodes /\ q.shape = p.shape
          /\ q.source = p.source /\ q.uses = p.uses /\ q.result = p.result
        BY <2>2, <2>8 DEF PlanRecord
    <2> HIDE DEF q
    <2>10. PlanType(q)
        BY <2>9 DEF PlanType, Ids
    <2>11. q.contract.result \in Required(q.contract)
        BY <2>9, <2>8, <2>6 DEF Required
    <2> QED BY <2>1, <2>10, <2>11 DEF q
<1> QED BY <1>1, <1>2

\* A plan in use.
Planned(p) == PlanType(p) /\ (Contracted(p) => p.contract.result \in Required(p.contract))

LEMMA PlansInUse ==
    ASSUME NEW n \in Readable
    PROVE  Planned(CompiledPlans[n]) /\ Planned(AlignedPlans[n])
<1>1. n \in DOMAIN Plans /\ PlanType(Plans[n]) /\ WellFormedPlan(Plans[n])
    BY PlansTyped DEF Readable
<1> DEFINE p == Plans[n]
<1>2. Contracted(p) => WellFormedContract(p.contract)
    BY <1>1 DEF WellFormedPlan
<1>3. PlanType(Downgraded(p)) /\ Downgraded(p).contract = p.contract
    BY <1>1, DowngradedPlan
<1>4. Contracted(Downgraded(p)) => WellFormedContract(Downgraded(p).contract)
    BY <1>2, <1>3 DEF Contracted
<1>5. Planned(Aligned(p)) /\ Planned(Aligned(Downgraded(p)))
    <2> HIDE DEF p
    <2>1. PlanType(p)
        BY <1>1 DEF p
    <2> QED BY <2>1, <1>2, <1>3, <1>4, AlignedPlan DEF Planned
<1>6. CompiledPlans[n] = Aligned(Downgraded(p)) /\ AlignedPlans[n] = Aligned(p)
    BY <1>1 DEF CompiledPlans, AlignedPlans
<1> QED BY <1>5, <1>6

LEMMA ThePlanIsPlanned ==
    ASSUME plan \in Readable
    PROVE  Planned(ThePlan)
BY PlansInUse DEF ThePlan

LEMMA SamePlan ==
    ASSUME UNCHANGED <<request, plan>>
    PROVE  ThePlan' = ThePlan
BY DEF ThePlan

-----------------------------------------------------------------------------
\* The comparison of plans.

LEMMA ScoreIs ==
    ASSUME NEW p, PlanType(p)
    PROVE  \E a, b, c, d \in Int : Score(p) = <<a, b, c, d>>
<1>1. p.requirements \in Nat /\ p.uncovered \in Nat /\ p.limitations \in Nat /\ p.steps \in Nat
    BY DEF PlanType, PlanRecord
<1>2. Cardinality(Ids(p)) \in Nat
    BY FS_CardinalityType DEF PlanType
<1>3. (IF p.feasible THEN 1 ELSE 0) \in Int /\ p.requirements - p.uncovered \in Int /\ 0 - p.limitations \in Int
      /\ 0 - (Cardinality(Ids(p)) + p.steps) \in Int
    BY <1>1, <1>2
<1> QED BY <1>3 DEF Score

LEMMA BetterIs ==
    ASSUME NEW a1 \in Int, NEW a2 \in Int, NEW a3 \in Int, NEW a4 \in Int,
           NEW b1 \in Int, NEW b2 \in Int, NEW b3 \in Int, NEW b4 \in Int
    PROVE  Better(<<a1, a2, a3, a4>>, <<b1, b2, b3, b4>>) <=>
              \/ a1 > b1
              \/ a1 = b1 /\ a2 > b2
              \/ a1 = b1 /\ a2 = b2 /\ a3 > b3
              \/ a1 = b1 /\ a2 = b2 /\ a3 = b3 /\ a4 > b4
<1> DEFINE a == <<a1, a2, a3, a4>>
           b == <<b1, b2, b3, b4>>
           B(i) == a[i] > b[i] /\ \A j \in 1..(i - 1) : a[j] = b[j]
<1>1. DOMAIN a = {1, 2, 3, 4}
    OBVIOUS
<1>2. a[1] = a1 /\ a[2] = a2 /\ a[3] = a3 /\ a[4] = a4 /\ b[1] = b1 /\ b[2] = b2 /\ b[3] = b3 /\ b[4] = b4
    OBVIOUS
<1>3. 1..(1 - 1) = {} /\ 1..(2 - 1) = {1} /\ 1..(3 - 1) = {1, 2} /\ 1..(4 - 1) = {1, 2, 3}
    OBVIOUS
<1>4. /\ B(1) <=> a1 > b1
      /\ B(2) <=> a2 > b2 /\ a1 = b1
      /\ B(3) <=> a3 > b3 /\ a1 = b1 /\ a2 = b2
      /\ B(4) <=> a4 > b4 /\ a1 = b1 /\ a2 = b2 /\ a3 = b3
    BY <1>2, <1>3
<1>5. Better(a, b) <=> B(1) \/ B(2) \/ B(3) \/ B(4)
    BY <1>1 DEF Better
<1> QED BY <1>4, <1>5

LEMMA BetterOrders ==
    ASSUME NEW p, NEW q, NEW r, PlanType(p), PlanType(q), PlanType(r)
    PROVE  /\ ~Better(Score(p), Score(p))
           /\ Better(Score(p), Score(q)) /\ Better(Score(q), Score(r)) => Better(Score(p), Score(r))
<1>1. PICK a1, a2, a3, a4 \in Int : Score(p) = <<a1, a2, a3, a4>>
    BY ScoreIs
<1>2. PICK b1, b2, b3, b4 \in Int : Score(q) = <<b1, b2, b3, b4>>
    BY ScoreIs
<1>3. PICK c1, c2, c3, c4 \in Int : Score(r) = <<c1, c2, c3, c4>>
    BY ScoreIs
<1>4. ~Better(Score(p), Score(p))
    BY <1>1, BetterIs
<1>5. Better(Score(p), Score(q)) <=>
         \/ a1 > b1
         \/ a1 = b1 /\ a2 > b2
         \/ a1 = b1 /\ a2 = b2 /\ a3 > b3
         \/ a1 = b1 /\ a2 = b2 /\ a3 = b3 /\ a4 > b4
    <2>1. Better(<<a1, a2, a3, a4>>, <<b1, b2, b3, b4>>) <=>
             \/ a1 > b1
             \/ a1 = b1 /\ a2 > b2
             \/ a1 = b1 /\ a2 = b2 /\ a3 > b3
             \/ a1 = b1 /\ a2 = b2 /\ a3 = b3 /\ a4 > b4
        BY BetterIs
    <2> QED BY <2>1, <1>1, <1>2
<1>6. Better(Score(q), Score(r)) <=>
         \/ b1 > c1
         \/ b1 = c1 /\ b2 > c2
         \/ b1 = c1 /\ b2 = c2 /\ b3 > c3
         \/ b1 = c1 /\ b2 = c2 /\ b3 = c3 /\ b4 > c4
    <2>1. Better(<<b1, b2, b3, b4>>, <<c1, c2, c3, c4>>) <=>
             \/ b1 > c1
             \/ b1 = c1 /\ b2 > c2
             \/ b1 = c1 /\ b2 = c2 /\ b3 > c3
             \/ b1 = c1 /\ b2 = c2 /\ b3 = c3 /\ b4 > c4
        BY BetterIs
    <2> QED BY <2>1, <1>2, <1>3
<1>7. Better(Score(p), Score(r)) <=>
         \/ a1 > c1
         \/ a1 = c1 /\ a2 > c2
         \/ a1 = c1 /\ a2 = c2 /\ a3 > c3
         \/ a1 = c1 /\ a2 = c2 /\ a3 = c3 /\ a4 > c4
    <2>1. Better(<<a1, a2, a3, a4>>, <<c1, c2, c3, c4>>) <=>
             \/ a1 > c1
             \/ a1 = c1 /\ a2 > c2
             \/ a1 = c1 /\ a2 = c2 /\ a3 > c3
             \/ a1 = c1 /\ a2 = c2 /\ a3 = c3 /\ a4 > c4
        BY BetterIs
    <2> QED BY <2>1, <1>1, <1>3
<1> QED BY <1>4, <1>5, <1>6, <1>7

\* Among finitely many plans one is not surpassed: of the sets of the plans that are better than
\* one of them, take a smallest.
LEMMA BestExists ==
    ASSUME NEW S \in SUBSET Readable, IsFiniteSet(S), S # {}
    PROVE  BestOf(S) \in S /\ \A m \in S : ~Better(Score(Compiled(m)), Score(Compiled(BestOf(S))))
<1> DEFINE Up(n) == {m \in S : Better(Score(Compiled(m)), Score(Compiled(n)))}
           R == StrictSubsetOrdering(S)
           U == {Up(n) : n \in S}
<1>1. \A n \in S : PlanType(Compiled(n))
    BY PlansInUse DEF Compiled, Planned
<1>2. U \subseteq FiniteSubsetsOf(S) /\ U # {}
    <2>1. \A n \in S : IsFiniteSet(Up(n)) /\ Up(n) \in SUBSET S
        BY FS_Subset
    <2> QED BY <2>1 DEF FiniteSubsetsOf
<1>3. IsWellFoundedOn(R, FiniteSubsetsOf(S))
    BY FS_StrictSubsetOrderingWellFounded
<1>4. \E x \in U : \A y \in U : ~ (<<y, x>> \in R)
    <2> HIDE DEF R, U
    <2> QED BY <1>2, <1>3, WFMin
<1>5. PICK n \in S : \A m \in S : ~ (<<Up(m), Up(n)>> \in R)
    BY <1>4
<1>6. ASSUME NEW m \in S, Better(Score(Compiled(m)), Score(Compiled(n)))
      PROVE  FALSE
    <2>1. m \in Up(n) /\ m \notin Up(m)
        BY <1>6, <1>1, BetterOrders
    <2>2. Up(m) \subseteq Up(n)
        <3>1. SUFFICES ASSUME NEW x \in S, Better(Score(Compiled(x)), Score(Compiled(m)))
                       PROVE  Better(Score(Compiled(x)), Score(Compiled(n)))
            OBVIOUS
        <3>2. PlanType(Compiled(x)) /\ PlanType(Compiled(m)) /\ PlanType(Compiled(n))
            BY <3>1, <1>1
        <3> QED BY <3>1, <3>2, <1>6, BetterOrders
    <2>3. Up(m) \in SUBSET S /\ Up(n) \in SUBSET S
        OBVIOUS
    <2> HIDE DEF Up
    <2>4. <<Up(m), Up(n)>> \in R
        BY <2>1, <2>2, <2>3 DEF StrictSubsetOrdering
    <2> QED BY <2>4, <1>5
<1>7. \E x \in S : \A m \in S : ~Better(Score(Compiled(m)), Score(Compiled(x)))
    BY <1>6
<1> QED BY <1>7 DEF BestOf

-----------------------------------------------------------------------------
\* A set of natural numbers has a least element.  (The intervals 1..n are finite sets,
\* which strict inclusion orders well.)
LEMMA Least ==
    ASSUME NEW T \in SUBSET Nat, T # {}
    PROVE  \E x \in T : \A y \in T : x <= y
<1> DEFINE R == StrictSubsetOrdering(Nat)
           U == {1..n : n \in T}
<1>1. \A n \in T : IsFiniteSet(1..n) /\ 1..n \in SUBSET Nat
    <2> TAKE n \in T
    <2>1. n \in Nat
        OBVIOUS
    <2> QED BY <2>1, FS_Interval
<1>2. U \subseteq FiniteSubsetsOf(Nat) /\ U # {}
    BY <1>1 DEF FiniteSubsetsOf
<1>3. IsWellFoundedOn(R, FiniteSubsetsOf(Nat))
    BY FS_StrictSubsetOrderingWellFounded
<1>4. \E x \in U : \A y \in U : ~ (<<y, x>> \in R)
    <2> HIDE DEF R, U
    <2> QED BY <1>2, <1>3, WFMin
<1>5. PICK x \in T : \A y \in T : ~ (<<1..y, 1..x>> \in R)
    BY <1>4
<1>6. ASSUME NEW y \in T
      PROVE  x <= y
    <2>0. x \in Nat /\ y \in Nat
        OBVIOUS
    <2>1. SUFFICES ASSUME y < x
                   PROVE  FALSE
        BY <2>0
    <2>2. 1..y \in SUBSET Nat /\ 1..x \in SUBSET Nat
        BY <1>1
    <2>3. 1..y \subseteq 1..x
        BY <2>0, <2>1
    <2>4. x \in 1..x /\ x \notin 1..y
        BY <2>0, <2>1
    <2> QED BY <1>5, <2>2, <2>3, <2>4 DEF StrictSubsetOrdering
<1> QED BY <1>6

\* The rounds of the validator's check that a graph can be run: each adds the nodes whose inputs
\* the one before has resolved.
Resolves(f, p, n) ==
    f = [k \in 0..n |-> IF k = 0 THEN {} ELSE {m \in Ids(p) : Inputs(p, m) \subseteq f[k - 1]}]

LEMMA RoundsExist ==
    ASSUME NEW p, NEW N \in Nat
    PROVE  \E f : Resolves(f, p, N)
<1> DEFINE Bad == {n \in Nat : ~ \E f : Resolves(f, p, n)}
<1>1. SUFFICES ASSUME Bad # {}
               PROVE  FALSE
    OBVIOUS
<1>2. PICK n \in Bad : \A m \in Bad : n <= m
    <2>1. Bad \in SUBSET Nat
        OBVIOUS
    <2> HIDE DEF Bad
    <2> QED BY <1>1, <2>1, Least
<1>3. n # 0
    <2>1. Resolves([k \in 0..0 |-> {}], p, 0)
        BY DEF Resolves
    <2> QED BY <2>1
<1>4. n \in Nat /\ n - 1 \in Nat /\ n - 1 \notin Bad
    <2>1. n \in Nat /\ n - 1 \in Nat
        BY <1>3
    <2>2. ~(n <= n - 1)
        BY <2>1
    <2> QED BY <2>1, <2>2, <1>2
<1>5. PICK g : Resolves(g, p, n - 1)
    BY <1>4
<1> DEFINE h == [k \in 0..n |-> IF k = n THEN {m \in Ids(p) : Inputs(p, m) \subseteq g[n - 1]} ELSE g[k]]
<1>6. ASSUME NEW k \in 0..n
      PROVE  h[k] = IF k = 0 THEN {} ELSE {m \in Ids(p) : Inputs(p, m) \subseteq h[k - 1]}
    <2>1. CASE k = n
        <3>1. k # 0 /\ n - 1 \in 0..n /\ n - 1 # n
            BY <2>1, <1>3, <1>4
        <3>2. h[k - 1] = g[n - 1]
            BY <2>1, <3>1
        <3> QED BY <2>1, <3>1, <3>2
    <2>2. CASE k # n
        <3>1. k \in 0..(n - 1) /\ (k # 0 => k - 1 \in 0..n /\ k - 1 # n)
            BY <2>2, <1>4
        <3>2. h[k] = g[k] /\ (k # 0 => h[k - 1] = g[k - 1])
            BY <2>2, <3>1
        <3>3. g[k] = IF k = 0 THEN {} ELSE {m \in Ids(p) : Inputs(p, m) \subseteq g[k - 1]}
            BY <3>1, <1>5 DEF Resolves
        <3> QED BY <3>2, <3>3
    <2> QED BY <2>1, <2>2
<1>7. Resolves(h, p, n)
    <2>1. h = [k \in 0..n |-> h[k]]
        OBVIOUS
    <2> HIDE DEF h
    <2>2. [k \in 0..n |-> h[k]] = [k \in 0..n |-> IF k = 0 THEN {} ELSE {m \in Ids(p) : Inputs(p, m) \subseteq h[k - 1]}]
        BY <1>6
    <2> QED BY <2>1, <2>2 DEF Resolves
<1> QED BY <1>7

\* A set of nodes that holds every node whose inputs it holds, holds every node that is resolvable.
LEMMA ResolvableIsRun ==
    ASSUME NEW p, IsFiniteSet(Ids(p)), NEW D,
           \A m \in Ids(p) : Inputs(p, m) \subseteq D => m \in D
    PROVE  Resolvable(p) \subseteq D
<1> DEFINE N == Cardinality(Ids(p))
           f == CHOOSE g : Resolves(g, p, N)
<1>1. N \in Nat
    BY FS_CardinalityType
<1>2. Resolves(f, p, N)
    BY <1>1, RoundsExist
<1>3. Resolvable(p) = f[N]
    BY DEF Resolvable, Resolves, Rounds
<1> HIDE DEF f, N
<1> DEFINE Bad == {k \in 0..N : ~(f[k] \subseteq D)}
<1>4. SUFFICES ASSUME Bad # {}
               PROVE  FALSE
    <2>1. N \in 0..N
        BY <1>1
    <2> QED BY <2>1, <1>3
<1>5. PICK k \in Bad : \A j \in Bad : k <= j
    <2>1. Bad \in SUBSET Nat
        BY <1>1
    <2> HIDE DEF Bad
    <2> QED BY <1>4, <2>1, Least
<1>6. f[k] = IF k = 0 THEN {} ELSE {m \in Ids(p) : Inputs(p, m) \subseteq f[k - 1]}
    BY <1>2 DEF Resolves
<1>7. k # 0 /\ k - 1 \in 0..N /\ k - 1 \notin Bad
    <2>1. k # 0
        BY <1>6
    <2>2. k - 1 \in 0..N /\ ~(k <= k - 1)
        BY <1>1, <2>1
    <2> QED BY <2>1, <2>2, <1>5
<1>8. f[k - 1] \subseteq D
    BY <1>7
<1>9. f[k] \subseteq D
    BY <1>6, <1>7, <1>8
<1> QED BY <1>9

-----------------------------------------------------------------------------
\* Plans that are executed.

\* The result that answers the request is one it requires.
LEMMA AnswerIsRequired ==
    ASSUME NEW p, Planned(p), AnswerId(p) # ""
    PROVE  AnswerId(p) \in RequiredResults(p)
BY DEF AnswerId, RequiredResults, Planned

LEMMA QueryStrategy ==
    ASSUME NEW p, PlanType(p), NEW n \in Queries(p)
    PROVE  n \in Ids(p) /\ Strategy(p, n) \in Strategies
<1>1. n \in Ids(p) /\ p.nodes[n].kind = "query" /\ p.nodes[n] \in Node
    BY DEF Queries, PlanType
<1>2. p.nodes[n].reads \in Strategies
    BY <1>1 DEF Node
<1> QED BY <1>1, <1>2 DEF Strategy, Strategies

-----------------------------------------------------------------------------
\* Windows.

LEMMA FirstTiling == Tiling({<<c, 1, LastDay>> : c \in Codes})
<1> DEFINE ws == {<<c, 1, LastDay>> : c \in Codes}
<1>1. 1 \in Days /\ LastDay \in Days /\ 1 <= LastDay /\ \A d \in Days : 1 <= d /\ d <= LastDay
    BY Market DEF Days
<1>2. ws \subseteq Window
    BY <1>1 DEF Window
<1>3. ASSUME NEW c \in Codes, NEW d \in Days
      PROVE  \E w \in ws : w[1] = c /\ Within(d, w)
    <2>1. <<c, 1, LastDay>> \in ws
        OBVIOUS
    <2> QED BY <2>1, <1>1 DEF Within
<1>4. \A v, w \in ws : v[1] = w[1] => v = w
    OBVIOUS
<1> QED BY <1>2, <1>3, <1>4 DEF Tiling

\* A window that is halved leaves a day to each half and none between them.
LEMMA HalvesTile ==
    ASSUME NEW w \in Window, w[2] < w[3]
    PROVE  /\ Halves(w) \subseteq Window
           /\ \A v \in Halves(w) : v[1] = w[1]
           /\ \A v \in Halves(w), d \in Days : Within(d, v) => Within(d, w)
           /\ \A d \in Days : Within(d, w) => \E v \in Halves(w) : Within(d, v)
           /\ \A u, v \in Halves(w), d \in Days : Within(d, u) /\ Within(d, v) => u = v
<1> DEFINE c == w[1]
           a == w[2]
           b == w[3]
           mid == a + (b - a) \div 2
           u == <<c, a, mid>>
           v == <<c, mid + 1, b>>
<1>1. c \in Codes /\ a \in Days /\ b \in Days
    BY DEF Window
<1>2. a \in Nat /\ b \in Nat /\ a < b /\ 1 <= a /\ b <= LastDay /\ LastDay \in Nat
    BY <1>1, Market DEF Days
<1>3. mid \in Nat /\ a <= mid /\ mid < b
    <2>1. \A k \in Nat : k > 0 => k \div 2 \in Nat /\ k \div 2 < k
        OBVIOUS
    <2>2. b - a \in Nat /\ b - a > 0
        BY <1>2
    <2>3. (b - a) \div 2 \in Nat /\ (b - a) \div 2 < b - a
        BY <2>1, <2>2
    <2> QED BY <2>3, <1>2
<1>4. Halves(w) = {u, v}
    BY DEF Halves
<1>5. mid \in Days /\ mid + 1 \in Days
    BY <1>2, <1>3 DEF Days
<1>6. u[1] = c /\ u[2] = a /\ u[3] = mid /\ v[1] = c /\ v[2] = mid + 1 /\ v[3] = b
    OBVIOUS
<1>7. mid + 1 <= b
    BY <1>2, <1>3
<1> HIDE DEF mid
<1>8. u \in Codes \X Days \X Days /\ v \in Codes \X Days \X Days
    BY <1>1, <1>5
<1> HIDE DEF u, v
<1>9. u \in Window /\ v \in Window
    BY <1>6, <1>7, <1>8, <1>3 DEF Window
<1>10. \A d \in Days : /\ Within(d, u) <=> a <= d /\ d <= mid
                       /\ Within(d, v) <=> mid + 1 <= d /\ d <= b
                       /\ Within(d, w) <=> a <= d /\ d <= b
    BY <1>6 DEF Within
<1>11. \A d \in Days : d \in Nat
    BY DEF Days
<1>12. \A d \in Days : /\ Within(d, w) <=> Within(d, u) \/ Within(d, v)
                       /\ ~(Within(d, u) /\ Within(d, v))
    <2> TAKE d \in Days
    <2>1. d \in Nat
        BY <1>11
    <2>2. (a <= d /\ d <= b <=> (a <= d /\ d <= mid) \/ (mid + 1 <= d /\ d <= b)) /\ ~(d <= mid /\ mid + 1 <= d)
        BY <2>1, <1>2, <1>3
    <2> QED BY <2>2, <1>10
<1> QED BY <1>4, <1>6, <1>9, <1>12

LEMMA BisectTiles ==
    ASSUME NEW ws, Tiling(ws), NEW w \in ws, w[2] < w[3]
    PROVE  Tiling((ws \ {w}) \cup Halves(w))
<1> DEFINE new == (ws \ {w}) \cup Halves(w)
<1>0. w \in Window
    BY DEF Tiling
<1>1. /\ Halves(w) \subseteq Window
      /\ \A v \in Halves(w) : v[1] = w[1]
      /\ \A v \in Halves(w), d \in Days : Within(d, v) => Within(d, w)
      /\ \A d \in Days : Within(d, w) => \E v \in Halves(w) : Within(d, v)
      /\ \A u, v \in Halves(w), d \in Days : Within(d, u) /\ Within(d, v) => u = v
    BY <1>0, HalvesTile
<1>2. new \subseteq Window
    BY <1>1 DEF Tiling
<1>3. ASSUME NEW c \in Codes, NEW d \in Days
      PROVE  \E v \in new : v[1] = c /\ Within(d, v)
    <2>1. PICK x \in ws : x[1] = c /\ Within(d, x)
        BY DEF Tiling
    <2>2. CASE x = w
        <3>1. PICK v \in Halves(w) : Within(d, v)
            BY <2>1, <2>2, <1>1
        <3>2. v[1] = c
            BY <2>1, <2>2, <1>1
        <3> QED BY <3>1, <3>2
    <2>3. CASE x # w
        BY <2>1, <2>3
    <2> QED BY <2>2, <2>3
<1>4. ASSUME NEW u \in new, NEW v \in new, NEW d \in Days, u[1] = v[1], Within(d, u), Within(d, v)
      PROVE  u = v
    <2>1. \A x, y \in ws : x[1] = y[1] /\ Within(d, x) /\ Within(d, y) => x = y
        BY DEF Tiling
    <2>2. CASE u \in Halves(w) /\ v \in Halves(w)
        BY <2>2, <1>1, <1>4
    <2>3. CASE u \in ws \ {w} /\ v \in ws \ {w}
        BY <2>1, <2>3, <1>4
    <2>4. CASE u \in ws \ {w} /\ v \in Halves(w)
        <3>1. Within(d, w) /\ w[1] = u[1]
            BY <2>4, <1>1, <1>4
        <3> QED BY <2>1, <2>4, <3>1, <1>4
    <2>5. CASE v \in ws \ {w} /\ u \in Halves(w)
        <3>1. Within(d, w) /\ w[1] = v[1]
            BY <2>5, <1>1, <1>4
        <3> QED BY <2>1, <2>5, <3>1, <1>4
    <2> QED BY <2>2, <2>3, <2>4, <2>5
<1> HIDE DEF new
<1>5. Tiling(new)
    BY <1>2, <1>3, <1>4 DEF Tiling
<1> QED BY <1>5 DEF new

-----------------------------------------------------------------------------
\* The result of a query.

\* The calls of a query that have ended cover it exactly when none of them ended badly; of a range
\* that is read by security, because its windows do not overlap.
LEMMA CoveredIsUnfailed ==
    ASSUME NEW n, n \in Running, CallsOf(Strategy(ThePlan, n), calls[n]), Strategy(ThePlan, n) \in Strategies,
           Ended(n), Recovering(n) => Windows(n) # {} \/ calls[n][Catalog] = "failed"
    PROVE  Covered(n) <=> CallsThat(n, {"failed", "lost", "saturated", "none"}) = {}
<1> DEFINE c == calls[n]
           s == Strategy(ThePlan, n)
           bad == {"failed", "lost", "saturated", "none"}
<1>1. \A part \in DOMAIN c : c[part] \in Statuses(s) /\ c[part] \notin {"open", "again"}
    BY DEF CallsOf, Ended, CallsThat
<1>2. \A part \in DOMAIN c : c[part] \in bad \cup {"full", "bare", "missing"}
    <2>1. Statuses(s) \subseteq bad \cup {"full", "bare", "missing", "open", "again"}
        BY DEF Statuses, Endings
    <2> QED BY <2>1, <1>1
<1>3. CallsThat(n, bad) = {} <=> \A part \in DOMAIN c : c[part] \notin bad
    BY DEF CallsThat
<1>4. CASE ~Recovering(n)
    <2>1. Covered(n) <=> \A part \in DOMAIN c : c[part] \in {"full", "bare", "missing"}
        BY <1>4 DEF Covered, Answered
    <2> QED BY <2>1, <1>2, <1>3
<1>5. CASE Recovering(n)
    <2>0. s = "unlocks" /\ Catalog \in DOMAIN c
        BY <1>5 DEF Recovering
    <2>1. \A part \in DOMAIN c : c[part] \in bad \cup {"full"}
        <3>1. Statuses("unlocks") \subseteq {"full", "failed", "saturated", "open"}
            BY DEF Statuses, Endings
        <3> QED BY <3>1, <2>0, <1>1
    <2>2. DOMAIN c # {Catalog} => c[Catalog] = "full" /\ Tiling(Windows(n))
        BY <2>0 DEF CallsOf, Windows
    <2>3. Covered(n) <=> \A code \in Codes, d \in Days :
                            \E w \in Windows(n) : w[1] = code /\ d \in w[2]..w[3] /\ c[w] = "full"
        BY <1>5 DEF Covered
    <2>4. Windows(n) = {} <=> DOMAIN c = {Catalog}
        BY <2>0 DEF Windows
    <2>5. \A w \in Window, d \in Days : d \in w[2]..w[3] <=> Within(d, w)
        <3>1. \A d \in Days : d \in Int
            BY DEF Days
        <3> QED BY <3>1 DEF Window, Within, Days
    <2>6. ASSUME CallsThat(n, bad) = {}
          PROVE  Covered(n)
        <3>1. Windows(n) # {}
            <4>1. c[Catalog] # "failed"
                BY <2>6, <1>3, <2>0
            <4> QED BY <4>1, <1>5
        <3>2. Tiling(Windows(n))
            BY <3>1, <2>4, <2>2
        <3>3. SUFFICES ASSUME NEW code \in Codes, NEW d \in Days
                       PROVE  \E w \in Windows(n) : w[1] = code /\ d \in w[2]..w[3] /\ c[w] = "full"
            BY <2>3
        <3>4. PICK w \in Windows(n) : w[1] = code /\ Within(d, w)
            BY <3>2 DEF Tiling
        <3>5. w \in Window /\ w \in DOMAIN c
            BY <3>2 DEF Tiling, Windows
        <3>6. c[w] = "full"
            BY <3>5, <2>1, <2>6, <1>3
        <3> QED BY <3>4, <3>5, <3>6, <2>5
    <2>7. ASSUME Covered(n)
          PROVE  CallsThat(n, bad) = {}
        <3>1. Windows(n) # {}
            <4>1. PICK code \in Codes : TRUE
                BY Market
            <4>2. 1 \in Days
                BY Market DEF Days
            <4> QED BY <4>1, <4>2, <2>7, <2>3
        <3>2. c[Catalog] = "full" /\ Tiling(Windows(n))
            BY <3>1, <2>4, <2>2
        <3>3. ASSUME NEW v \in Windows(n)
              PROVE  c[v] = "full"
            <4>1. v \in Window /\ v[1] \in Codes /\ v[2] \in Days /\ Within(v[2], v)
                <5>1. v \in Window
                    BY <3>2 DEF Tiling
                <5>2. v[2] \in Days /\ v[1] \in Codes /\ v[2] <= v[3]
                    BY <5>1 DEF Window
                <5>3. v[2] <= v[2]
                    BY <5>2 DEF Days
                <5> QED BY <5>1, <5>2, <5>3 DEF Within
            <4>2. PICK w \in Windows(n) : w[1] = v[1] /\ v[2] \in w[2]..w[3] /\ c[w] = "full"
                BY <4>1, <2>7, <2>3
            <4>3. w \in Window
                BY <3>2 DEF Tiling
            <4>4. Within(v[2], w)
                BY <4>1, <4>2, <4>3, <2>5
            <4>5. v = w
                BY <4>1, <4>2, <4>4, <3>2 DEF Tiling
            <4> QED BY <4>2, <4>5
        <3>4. \A part \in DOMAIN c : c[part] = "full"
            BY <3>2, <3>3 DEF Windows
        <3> QED BY <3>4, <1>3
    <2> QED BY <2>6, <2>7
<1> QED BY <1>4, <1>5

LEMMA QueryResult ==
    ASSUME NEW n, n \in Running, CallsOf(Strategy(ThePlan, n), calls[n]), Strategy(ThePlan, n) \in Strategies,
           Ended(n), Recovering(n) => Windows(n) # {} \/ calls[n][Catalog] = "failed"
    PROVE  /\ Result(n) \in ResultType
           /\ Sound(Result(n))
           /\ Result(n).complete \/ ~Result(n).proved \/ Strategy(ThePlan, n) = "candidates"
<1> DEFINE s == Strategy(ThePlan, n)
           bare == CallsThat(n, {"bare"}) # {}
<1>1. Covered(n) <=> CallsThat(n, {"failed", "lost", "saturated", "none"}) = {}
    BY CoveredIsUnfailed
<1>2. Succeeds(n) <=> Covered(n) /\ (s = "market" => ~bare)
    BY <1>1 DEF Succeeds
<1>3. Proved(n) <=> Covered(n) /\ (s \in {"securities", "dates", "boundaries"} \/ ~bare)
    BY DEF Proved, Trusting
<1>4. Claims(n) <=> s # "candidates" /\ (s \in {"read", "universe"} => ~bare)
    BY DEF Claims
<1>5. s = "unlocks" => ~bare
    <2>1. "bare" \notin Statuses("unlocks")
        BY DEF Statuses, Endings
    <2> QED BY <2>1 DEF CallsOf, CallsThat
<1>6. Succeeds(n) \in BOOLEAN /\ Claims(n) \in BOOLEAN /\ Covered(n) \in BOOLEAN /\ Proved(n) \in BOOLEAN
    BY DEF Succeeds, Claims, Covered, Proved
<1>7. /\ Result(n).ok = Succeeds(n) /\ Result(n).complete = (Succeeds(n) /\ Claims(n))
      /\ Result(n).whole = Covered(n) /\ Result(n).proved = Proved(n) /\ Result(n).broke = FALSE
    BY DEF Result
<1>8. Result(n) \in ResultType
    BY <1>6 DEF Result, ResultType
<1>9. s \in {"read", "universe", "securities", "candidates", "dates", "unlocks", "market", "boundaries"}
    BY DEF Strategies
<1> HIDE DEF s, bare
<1>10. /\ Succeeds(n) => Covered(n)
       /\ Succeeds(n) /\ Claims(n) => Proved(n)
       /\ Succeeds(n) \/ ~Proved(n)
       /\ (Succeeds(n) /\ Claims(n)) \/ ~Proved(n) \/ s = "candidates"
    BY <1>2, <1>3, <1>4, <1>5, <1>9
<1> QED BY <1>7, <1>8, <1>10 DEF Sound, s

\* A step is given when its inputs are, and no better than they are.
LEMMA ConsumesSound ==
    ASSUME NEW ids, results \in [DOMAIN results -> ResultType], ids \subseteq DOMAIN results,
           \A m \in ids : Sound(results[m])
    PROVE  /\ Consumes(ids) \in ResultType
           /\ Sound(Consumes(ids))
           /\ Consumes(ids).complete \/ ~Consumes(ids).proved \/ \E m \in ids : ~results[m].complete
<1>1. \A m \in ids : results[m] \in ResultType
    OBVIOUS
<1>2. CASE \E m \in ids : ~results[m].ok
    BY <1>2 DEF Consumes, FailedResult, ResultType, Sound
<1>3. CASE ~ \E m \in ids : ~results[m].ok
    <2> DEFINE C == \A m \in ids : results[m].complete
               W == \A m \in ids : results[m].whole
               P == \A m \in ids : results[m].proved
    <2>1. Consumes(ids) = [ok |-> TRUE, complete |-> C, whole |-> W, proved |-> P, broke |-> FALSE]
        BY <1>3 DEF Consumes
    <2>2. W /\ (C => P)
        BY <1>3 DEF Sound
    <2>3. C \/ \E m \in ids : ~results[m].complete
        OBVIOUS
    <2>4. C \in BOOLEAN /\ W \in BOOLEAN /\ P \in BOOLEAN
        OBVIOUS
    <2> HIDE DEF C, W, P
    <2> QED BY <2>1, <2>2, <2>3, <2>4 DEF ResultType, Sound
<1> QED BY <1>2, <1>3

LEMMA FailuresSound ==
    /\ FailedResult \in ResultType /\ Sound(FailedResult) /\ ~FailedResult.proved
    /\ Broken \in ResultType /\ Sound(Broken) /\ Broken.broke
<1>1. FailedResult \in ResultType /\ Sound(FailedResult) /\ ~FailedResult.proved
    BY DEF FailedResult, ResultType, Sound
<1>2. Broken \in ResultType /\ Broken.ok = FALSE /\ Broken.complete = FALSE /\ Broken.broke = TRUE
    <2>1. FailedResult.ok = FALSE /\ FailedResult.complete = FALSE
        BY DEF FailedResult
    <2> QED BY <1>1, <2>1 DEF Broken, ResultType
<1> QED BY <1>1, <1>2 DEF Sound

-----------------------------------------------------------------------------
\* Planning.

\* Nothing but the planners' own state changes, and the request goes on or is chosen for.
LEMMA PlanningKeeps ==
    ASSUME IInv, stage \in {"received", "vertex", "deepseek"}, UNCHANGED <<request, calls, results, outcome>>,
           stage' \in {"vertex", "deepseek", "chosen"},
           attempts' \in 0..(MaxAttempts + MaxVertexAttempts), candidates' \in [DOMAIN Plans -> 0..MaxIdentical],
           plan' \in Readable \cup {NoPlan}, stage' = "chosen" => plan' # NoPlan,
           PlansKept', ValidPlansAreUsed'
    PROVE  IInv'
<1>1. calls' = <<>> /\ results' = <<>> /\ outcome' = Pending
    BY DEF IInv, TypeOK, Admitted
<1>2. TypeOK'
    BY <1>1 DEF IInv, TypeOK, Stages
<1>3. Admitted' /\ Reads'
    BY <1>1 DEF Admitted, Reads
<1>4. DOMAIN results' = {}
    BY <1>1
<1>5. ResultsSound'
    BY <1>4 DEF ResultsSound
<1>6. AnswersRestOnTheirReads' /\ OnlyFaultsFail'
    BY DEF AnswersRestOnTheirReads, OnlyFaultsFail
<1> QED BY <1>2, <1>3, <1>5, <1>6 DEF IInv

LEMMA PendingStatus == Pending.status = "pending" /\ Pending.reason = ""
BY DEF Pending

\* An answer that no results stand for.
LEMMA AnswerKeeps ==
    ASSUME IInv, stage # "answered", NEW o, Answer(o), o # Pending,
           o.status \notin {"success", "partial_success"} \/ o.reason = "preview",
           o.reason \notin {"missing", "failed", "incomplete", "unrunnable"},
           o.reason = "planner_gave_up" => candidates = NoCandidates
    PROVE  IInv'
<1>1. stage' = "answered" /\ outcome' = o /\ UNCHANGED <<request, attempts, candidates, plan, calls, results>>
    BY DEF Answer
<1>2. TypeOK'
    BY <1>1 DEF IInv, TypeOK, Stages
<1>3. PlansKept'
    BY <1>1 DEF IInv, PlansKept
<1>4. Admitted' /\ Reads'
    BY <1>1 DEF Admitted, Reads
<1>5. ResultsSound'
    BY <1>1 DEF IInv, ResultsSound
<1>6. AnswersRestOnTheirReads' /\ OnlyFaultsFail' /\ ValidPlansAreUsed'
    BY <1>1 DEF AnswersRestOnTheirReads, OnlyFaultsFail, ValidPlansAreUsed
<1> QED BY <1>2, <1>3, <1>4, <1>5, <1>6 DEF IInv

LEMMA ErrorKeeps ==
    ASSUME IInv, stage # "answered", NEW reason \in {"unexpected", "planner_refused", "validation", "unsupported", "background"},
           Answer(Error(reason))
    PROVE  IInv'
<1>1. Error(reason).status = "error" /\ Error(reason).reason = reason
    BY DEF Error
<1>2. Error(reason) # Pending
    BY <1>1, PendingStatus
<1> QED BY <1>1, <1>2, AnswerKeeps

LEMMA NothingKept ==
    /\ NoCandidates \in [DOMAIN Plans -> 0..MaxIdentical]
    /\ Distinct(NoCandidates) = {}
    /\ \A n \in DOMAIN Plans : NoCandidates[n] < MaxIdentical
<1>1. MaxIdentical \in Nat /\ MaxIdentical > 0
    BY BoundsArePositive
<1> QED BY <1>1 DEF NoCandidates, Distinct

\* A plan is chosen.
LEMMA ChosenKeeps ==
    ASSUME IInv, stage \in {"received", "vertex", "deepseek"}, UNCHANGED <<request, attempts, calls, results, outcome>>,
           stage' = "chosen", plan' \in Readable, candidates' \in [DOMAIN Plans -> 0..MaxIdentical],
           IsFiniteSet(Distinct(candidates')), Distinct(candidates') \subseteq Usable,
           ValidPlansAreUsed'
    PROVE  IInv'
<1>1. attempts' \in 0..(MaxAttempts + MaxVertexAttempts)
    BY DEF IInv, TypeOK
<1>2. PlansKept'
    BY DEF PlansKept
<1>3. plan' # NoPlan
    BY NoPlanIsNew DEF Readable
<1> QED BY <1>1, <1>2, <1>3, PlanningKeeps

LEMMA ChooseUnrivalled ==
    ASSUME IInv, stage \in {"received", "vertex", "deepseek"}, UNCHANGED <<request, attempts, candidates, calls, results, outcome>>,
           stage' = "chosen", plan' \in Readable,
           candidates = NoCandidates \/ ~(ThePlan'.requirements > 1)
    PROVE  IInv'
<1>1. IsFiniteSet(Distinct(candidates)) /\ Distinct(candidates) \subseteq Usable
      /\ candidates \in [DOMAIN Plans -> 0..MaxIdentical]
    BY DEF IInv, PlansKept, TypeOK
<1>2. outcome = Pending
    BY DEF IInv, TypeOK
<1>3. outcome.reason # "planner_gave_up"
    BY <1>2 DEF Pending
<1>4. candidates = NoCandidates => Distinct(candidates) = {}
    BY NothingKept
<1>5. ValidPlansAreUsed'
    BY <1>3, <1>4 DEF ValidPlansAreUsed
<1> QED BY <1>1, <1>5, ChosenKeeps

LEMMA PrepareKeeps ==
    ASSUME IInv, Prepare
    PROVE  IInv'
<1>1. stage = "received" /\ UNCHANGED <<request, attempts, candidates, calls, results, outcome>>
    BY DEF Prepare
<1>2. candidates = NoCandidates
    BY <1>1 DEF IInv, PlansKept
<1>3. request \in [mode : {"execute", "plan"}, background : BOOLEAN, plan : Readable \cup {NoPlan}, confirmed : BOOLEAN]
    BY RequestsTyped DEF IInv, TypeOK
<1>4. CASE request.plan = NoPlan
    <2>1. stage' = "vertex" /\ plan' = plan
        BY <1>4 DEF Prepare
    <2>2. PlansKept' /\ TypeOK
        BY <1>1, <1>2, <1>4, <2>1 DEF IInv, PlansKept
    <2>3. outcome = Pending
        BY <1>1 DEF IInv, TypeOK
    <2>4. ValidPlansAreUsed'
        BY <1>1, <2>1, <2>3 DEF ValidPlansAreUsed, Pending
    <2> QED BY <1>1, <2>1, <2>2, <2>4, PlanningKeeps DEF TypeOK
<1>5. CASE request.plan # NoPlan
    <2>1. stage' = "chosen" /\ plan' = request.plan /\ plan' \in Readable
        BY <1>3, <1>5 DEF Prepare
    <2> QED BY <1>1, <1>2, <2>1, ChooseUnrivalled
<1> QED BY <1>4, <1>5

LEMMA FallBackKeeps ==
    ASSUME IInv, stage = "vertex", FallBack
    PROVE  IInv'
<1>1. stage' = "deepseek" /\ attempts' = 0 /\ UNCHANGED <<request, candidates, plan, calls, results, outcome>>
    BY DEF FallBack
<1>2. candidates = NoCandidates /\ request.plan = NoPlan /\ TypeOK /\ outcome = Pending
    BY DEF IInv, PlansKept, TypeOK
<1>3. attempts' \in 0..(MaxAttempts + MaxVertexAttempts) /\ attempts' <= MaxAttempts
    BY <1>1, BoundsArePositive
<1>4. PlansKept'
    BY <1>1, <1>2, <1>3, NothingKept DEF IInv, PlansKept
<1>5. ValidPlansAreUsed'
    BY <1>1, <1>2 DEF ValidPlansAreUsed, Pending
<1> QED BY <1>1, <1>2, <1>3, <1>4, <1>5, PlanningKeeps DEF TypeOK

LEMMA VertexKeeps ==
    ASSUME IInv, VertexPlans \/ VertexRefuses \/ VertexUnreadable \/ VertexWithoutCredentials
    PROVE  IInv'
<1>0. stage = "vertex"
    BY DEF VertexPlans, VertexRefuses, VertexUnreadable, VertexWithoutCredentials
<1>1. candidates = NoCandidates /\ request.plan = NoPlan /\ TypeOK /\ outcome = Pending /\ attempts < MaxVertexAttempts
    BY <1>0 DEF IInv, PlansKept, TypeOK
<1>2. CASE VertexPlans
    <2>1. PICK n \in Readable : IF n \in Promised \cap ValidPlans THEN Choose(n) ELSE FallBack
        BY <1>2 DEF VertexPlans
    <2>2. CASE Choose(n)
        <3>1. stage' = "chosen" /\ plan' = n /\ UNCHANGED <<request, attempts, candidates, calls, results, outcome>>
            BY <2>2 DEF Choose
        <3> QED BY <3>1, <1>0, <1>1, ChooseUnrivalled
    <2> QED BY <2>1, <2>2, <1>0, FallBackKeeps
<1>3. CASE VertexRefuses
    BY <1>3, <1>0, FallBackKeeps DEF VertexRefuses
<1>4. CASE VertexUnreadable /\ attempts + 1 < MaxVertexAttempts
    <2>1. attempts' = attempts + 1 /\ UNCHANGED <<request, stage, candidates, plan, calls, results, outcome>>
        BY <1>4 DEF VertexUnreadable
    <2>2. attempts' \in 0..(MaxAttempts + MaxVertexAttempts) /\ attempts' < MaxVertexAttempts
        BY <1>1, <1>4, <2>1, BoundsArePositive DEF TypeOK
    <2>3. PlansKept'
        BY <1>0, <1>1, <2>1, <2>2 DEF IInv, PlansKept
    <2>4. ValidPlansAreUsed'
        BY <1>0, <1>1, <2>1 DEF ValidPlansAreUsed, Pending
    <2> QED BY <1>0, <1>1, <2>1, <2>2, <2>3, <2>4, PlanningKeeps DEF TypeOK
<1>5. CASE VertexUnreadable /\ ~(attempts + 1 < MaxVertexAttempts)
    BY <1>5, <1>0, FallBackKeeps DEF VertexUnreadable
<1>6. CASE VertexWithoutCredentials
    BY <1>6, <1>0, ErrorKeeps DEF VertexWithoutCredentials
<1> QED BY <1>2, <1>3, <1>4, <1>5, <1>6

\* Keeping one more plan.
LEMMA KeptIs ==
    ASSUME IInv, stage = "deepseek", NEW n \in Usable
    PROVE  /\ Kept(n) \in [DOMAIN Plans -> 0..MaxIdentical]
           /\ \A m \in DOMAIN Plans : Kept(n)[m] = IF m = n THEN candidates[n] + 1 ELSE candidates[m]
           /\ Distinct(Kept(n)) = Distinct(candidates) \cup {n}
           /\ IsFiniteSet(Distinct(Kept(n))) /\ Distinct(Kept(n)) \subseteq Usable
<1>1. candidates \in [DOMAIN Plans -> 0..MaxIdentical] /\ \A m \in DOMAIN Plans : candidates[m] < MaxIdentical
    BY DEF IInv, TypeOK, PlansKept
<1>2. n \in DOMAIN Plans
    BY DEF Usable, Promised
<1>3. candidates[n] + 1 \in 0..MaxIdentical /\ candidates[n] + 1 > 0
    BY <1>1, <1>2, BoundsArePositive
<1>4. Kept(n) \in [DOMAIN Plans -> 0..MaxIdentical]
    BY <1>1, <1>3 DEF Kept
<1>5. \A m \in DOMAIN Plans : Kept(n)[m] = IF m = n THEN candidates[n] + 1 ELSE candidates[m]
    BY <1>1, <1>2 DEF Kept
<1>6. Distinct(Kept(n)) = Distinct(candidates) \cup {n}
    BY <1>2, <1>3, <1>5 DEF Distinct
<1>7. IsFiniteSet(Distinct(candidates)) /\ Distinct(candidates) \subseteq Usable
    BY DEF IInv, PlansKept
<1> QED BY <1>4, <1>5, <1>6, <1>7, FS_AddElement

\* The best of the plans kept is chosen.
LEMMA SelectedKeeps ==
    ASSUME IInv, stage = "deepseek", UNCHANGED <<request, attempts, calls, results, outcome>>, stage' = "chosen",
           candidates' \in [DOMAIN Plans -> 0..MaxIdentical], IsFiniteSet(Distinct(candidates')),
           Distinct(candidates') \subseteq Usable, Distinct(candidates') # {}, plan' = Selected(candidates')
    PROVE  IInv'
<1>1. Usable \subseteq Readable
    BY DEF Usable, ValidPlans
<1> DEFINE S == Distinct(candidates')
<1>2. BestOf(S) \in S /\ \A m \in S : ~Better(Score(Compiled(m)), Score(Compiled(BestOf(S))))
    <2>1. S \in SUBSET Readable /\ IsFiniteSet(S) /\ S # {}
        BY <1>1
    <2> HIDE DEF S
    <2> QED BY <2>1, BestExists
<1>3. plan' = BestOf(S) /\ plan' \in Readable
    BY <1>1, <1>2 DEF Selected
<1>4. request.plan = NoPlan /\ outcome = Pending
    BY DEF IInv, PlansKept, TypeOK
<1>5. ThePlan' = Compiled(BestOf(S))
    BY <1>3, <1>4 DEF ThePlan, Compiled
<1>6. ValidPlansAreUsed'
    BY <1>2, <1>4, <1>5 DEF ValidPlansAreUsed, Pending
<1> QED BY <1>3, <1>6, ChosenKeeps

LEMMA AskAgainKeeps ==
    ASSUME IInv, Asking, NEW kept, AskAgain(kept), kept \in [DOMAIN Plans -> 0..MaxIdentical],
           IsFiniteSet(Distinct(kept)), Distinct(kept) \subseteq Usable, \A n \in DOMAIN Plans : kept[n] < MaxIdentical
    PROVE  IInv'
<1>1. stage = "deepseek" /\ attempts < MaxAttempts /\ attempts' = attempts + 1 /\ candidates' = kept
      /\ UNCHANGED <<request, stage, plan, calls, results, outcome>>
    BY DEF Asking, AskAgain
<1>2. request.plan = NoPlan /\ TypeOK /\ outcome = Pending
    BY <1>1 DEF IInv, PlansKept, TypeOK
<1>3. attempts' \in 0..(MaxAttempts + MaxVertexAttempts) /\ attempts' <= MaxAttempts
    BY <1>1, <1>2, BoundsArePositive DEF TypeOK
<1>4. PlansKept'
    BY <1>1, <1>2, <1>3 DEF PlansKept
<1>5. ValidPlansAreUsed'
    BY <1>1, <1>2 DEF ValidPlansAreUsed, Pending
<1> QED BY <1>1, <1>2, <1>3, <1>4, <1>5, PlanningKeeps DEF TypeOK

LEMMA DeepSeekKeeps ==
    ASSUME IInv, \/ DeepSeekPlans \/ DeepSeekUnreadable \/ DeepSeekRejected \/ DeepSeekRefuses \/ DeepSeekExhausted
    PROVE  IInv'
<1>0. stage = "deepseek"
    BY DEF DeepSeekPlans, DeepSeekUnreadable, DeepSeekRejected, DeepSeekRefuses, DeepSeekExhausted, Asking
<1>1. /\ candidates \in [DOMAIN Plans -> 0..MaxIdentical] /\ IsFiniteSet(Distinct(candidates))
      /\ Distinct(candidates) \subseteq Usable /\ \A n \in DOMAIN Plans : candidates[n] < MaxIdentical
      /\ request.plan = NoPlan /\ outcome = Pending
    BY <1>0 DEF IInv, TypeOK, PlansKept
<1>2. CASE DeepSeekUnreadable \/ DeepSeekRejected
    <2>1. Asking /\ AskAgain(candidates)
        BY <1>2 DEF DeepSeekUnreadable, DeepSeekRejected
    <2> QED BY <2>1, <1>1, AskAgainKeeps
<1>3. CASE DeepSeekRefuses
    BY <1>3, <1>0, ErrorKeeps DEF DeepSeekRefuses
<1>4. CASE DeepSeekPlans
    <2>1. PICK n \in Usable :
              IF Compiled(n).requirements <= 1 THEN Choose(n)
              ELSE IF ~Enough(Kept(n), n) THEN AskAgain(Kept(n))
              ELSE /\ stage' = "chosen"
                   /\ plan' = Selected(Kept(n))
                   /\ candidates' = Kept(n)
                   /\ UNCHANGED <<request, attempts, calls, results, outcome>>
        BY <1>4 DEF DeepSeekPlans
    <2>2. n \in Readable /\ n \in DOMAIN Plans
        BY DEF Usable, ValidPlans, Readable
    <2>3. /\ Kept(n) \in [DOMAIN Plans -> 0..MaxIdentical]
          /\ \A m \in DOMAIN Plans : Kept(n)[m] = IF m = n THEN candidates[n] + 1 ELSE candidates[m]
          /\ Distinct(Kept(n)) = Distinct(candidates) \cup {n}
          /\ IsFiniteSet(Distinct(Kept(n))) /\ Distinct(Kept(n)) \subseteq Usable
        BY <1>0, KeptIs
    <2>4. CASE Compiled(n).requirements <= 1
        <3>1. stage' = "chosen" /\ plan' = n /\ UNCHANGED <<request, attempts, candidates, calls, results, outcome>>
            BY <2>1, <2>4 DEF Choose
        <3>2. ThePlan' = Compiled(n)
            BY <3>1, <1>1 DEF ThePlan, Compiled
        <3>3. Compiled(n).requirements \in Nat
            BY <2>2, PlansInUse DEF Compiled, Planned, PlanType, PlanRecord
        <3>4. ~(ThePlan'.requirements > 1)
            BY <3>2, <3>3, <2>4
        <3> QED BY <3>1, <3>4, <1>0, <2>2, ChooseUnrivalled
    <2>5. CASE ~(Compiled(n).requirements <= 1) /\ ~Enough(Kept(n), n)
        <3>1. AskAgain(Kept(n)) /\ Asking
            BY <2>1, <2>5, <1>4 DEF DeepSeekPlans
        <3>2. Kept(n)[n] < MaxIdentical
            BY <2>2, <2>3, <2>5, BoundsArePositive DEF Enough
        <3>3. \A m \in DOMAIN Plans : Kept(n)[m] < MaxIdentical
            BY <3>2, <2>3, <1>1
        <3> QED BY <3>1, <3>3, <2>3, AskAgainKeeps
    <2>6. CASE ~(Compiled(n).requirements <= 1) /\ Enough(Kept(n), n)
        <3>1. stage' = "chosen" /\ plan' = Selected(Kept(n)) /\ candidates' = Kept(n)
              /\ UNCHANGED <<request, attempts, calls, results, outcome>>
            BY <2>1, <2>6
        <3> QED BY <3>1, <2>3, <1>0, SelectedKeeps
    <2> QED BY <2>4, <2>5, <2>6
<1>5. CASE DeepSeekExhausted
    <2>1. GiveUp(candidates)
        BY <1>5 DEF DeepSeekExhausted
    <2>2. CASE Distinct(candidates) # {}
        <3>1. stage' = "chosen" /\ plan' = Selected(candidates) /\ UNCHANGED <<request, attempts, candidates, calls, results, outcome>>
            BY <2>1, <2>2 DEF GiveUp, Choose
        <3> QED BY <3>1, <2>2, <1>0, <1>1, SelectedKeeps
    <2>3. CASE Distinct(candidates) = {}
        <3>1. Answer(Error("planner_gave_up"))
            BY <2>1, <2>3 DEF GiveUp
        <3>2. \A n \in DOMAIN Plans : candidates[n] = 0
            BY <2>3, <1>1, BoundsArePositive DEF Distinct
        <3>3. candidates = NoCandidates
            BY <3>2, <1>1 DEF NoCandidates
        <3>4. Error("planner_gave_up").status = "error" /\ Error("planner_gave_up").reason = "planner_gave_up"
            BY DEF Error
        <3>5. Error("planner_gave_up") # Pending
            BY <3>4, PendingStatus
        <3> QED BY <3>1, <3>3, <3>4, <3>5, <1>0, AnswerKeeps
    <2> QED BY <2>2, <2>3
<1> QED BY <1>2, <1>3, <1>4, <1>5

LEMMA CheckKeeps ==
    ASSUME IInv, Check \/ CheckFails
    PROVE  IInv'
<1>0. stage = "chosen"
    BY DEF Check, CheckFails
<1>1. CASE CheckFails
    BY <1>0, <1>1, ErrorKeeps DEF CheckFails
<1>2. CASE Check /\ Launch /\ Accepts(ThePlan, MaxQueries) /\ ThePlan.feasible
    <2>1. stage' = "executing" /\ candidates' = NoCandidates /\ attempts' = 0 /\ UNCHANGED <<request, plan, calls, results, outcome>>
        BY <1>2 DEF Launch
    <2>2. calls = <<>> /\ results = <<>> /\ outcome = Pending /\ plan \in Readable /\ plan # NoPlan
        BY <1>0 DEF IInv, Admitted, TypeOK
    <2>3. ThePlan' = ThePlan
        BY <2>1, SamePlan
    <2>4. DOMAIN results' = {} /\ DOMAIN calls' = {}
        BY <2>1, <2>2
    <2>5. attempts' \in 0..(MaxAttempts + MaxVertexAttempts)
        BY <2>1, BoundsArePositive
    <2>6. TypeOK'
        BY <2>1, <2>2, <2>4, <2>5, NothingKept DEF IInv, TypeOK, Stages, Running
    <2>7. PlansKept'
        BY <2>1, NothingKept, FS_EmptySet DEF PlansKept
    <2>8. Admitted' /\ Reads'
        BY <1>2, <2>1, <2>3, <2>4 DEF Admitted, Reads, Running
    <2>9. ResultsSound'
        BY <2>4 DEF ResultsSound, Excused
    <2>10. AnswersRestOnTheirReads' /\ OnlyFaultsFail'
        BY <2>1 DEF AnswersRestOnTheirReads, OnlyFaultsFail
    <2>11. ValidPlansAreUsed'
        BY <2>1, <2>2 DEF ValidPlansAreUsed, Pending
    <2> QED BY <2>6, <2>7, <2>8, <2>9, <2>10, <2>11 DEF IInv
<1>3. CASE Check /\ Answer([status |-> "success", reason |-> "preview"])
    <2> DEFINE o == [status |-> "success", reason |-> "preview"]
    <2>1. o.reason = "preview" /\ o.status = "success"
        OBVIOUS
    <2>2. o # Pending
        BY <2>1 DEF Pending
    <2>3. Answer(o)
        BY <1>3
    <2> HIDE DEF o
    <2> QED BY <2>1, <2>2, <2>3, <1>0, AnswerKeeps
<1>4. CASE Check /\ \E reason \in {"validation", "unsupported", "background"} : Answer(Error(reason))
    BY <1>0, <1>4, ErrorKeeps
<1>5. Check => \/ Launch /\ Accepts(ThePlan, MaxQueries) /\ ThePlan.feasible
               \/ Answer([status |-> "success", reason |-> "preview"])
               \/ \E reason \in {"validation", "unsupported", "background"} : Answer(Error(reason))
    BY DEF Check
<1> QED BY <1>1, <1>2, <1>3, <1>4, <1>5

LEMMA PlanningStep ==
    ASSUME IInv, Planning
    PROVE  IInv'
<1>1. PrepareFails => stage = "received" /\ Answer(Error("unexpected"))
    BY DEF PrepareFails
<1>2. CASE PrepareFails
    BY <1>1, <1>2, ErrorKeeps
<1> QED BY <1>2, PrepareKeeps, VertexKeeps, DeepSeekKeeps, CheckKeeps DEF Planning

-----------------------------------------------------------------------------
\* Execution.

\* The plan that is executed.
LEMMA ThePlanIsExecuted ==
    ASSUME IInv, stage = "executing"
    PROVE  /\ Planned(ThePlan)
           /\ Accepts(ThePlan, MaxQueries)
           /\ \A n \in Ids(ThePlan) : n = ThePlan.result => ThePlan.shape = "dag"
           /\ \A n \in Queries(ThePlan) : n \in Ids(ThePlan) /\ Strategy(ThePlan, n) \in Strategies
           /\ Running \subseteq Queries(ThePlan) \ DOMAIN results
           /\ DOMAIN results \subseteq Ids(ThePlan) \cup {ThePlan.result}
           /\ results \in [DOMAIN results -> ResultType]
           /\ \A n \in DOMAIN results : Sound(results[n])
           /\ \A n \in Running : CallsOf(Strategy(ThePlan, n), calls[n])
<1>1. plan \in Readable
    BY DEF IInv, TypeOK
<1>2. Planned(ThePlan)
    BY <1>1, ThePlanIsPlanned
<1>3. PlanType(ThePlan)
    BY <1>2 DEF Planned
<1>4. \A n \in Ids(ThePlan) : n = ThePlan.result => ThePlan.shape = "dag"
    BY <1>3 DEF PlanType
<1>5. \A n \in Queries(ThePlan) : n \in Ids(ThePlan) /\ Strategy(ThePlan, n) \in Strategies
    BY <1>3, QueryStrategy
<1> QED BY <1>2, <1>4, <1>5 DEF IInv, TypeOK, Admitted, ResultsSound, Reads

\* A step of the execution touches the calls and the results only.
LEMMA ExecutionKeeps ==
    ASSUME IInv, stage = "executing", Stay,
           Running' \subseteq Queries(ThePlan) \ DOMAIN results',
           \A n \in Running' : CallsOf(Strategy(ThePlan, n), calls'[n]),
           results' \in [DOMAIN results' -> ResultType],
           DOMAIN results' \subseteq Ids(ThePlan) \cup {ThePlan.result},
           \A n \in DOMAIN results' : Sound(results'[n]),
           Excused',
           ThePlan.result \in DOMAIN results' => ThePlan.shape # "queries"
    PROVE  IInv'
<1>1. UNCHANGED <<request, stage, attempts, candidates, plan, outcome>>
    BY DEF Stay
<1>2. ThePlan' = ThePlan
    BY <1>1, SamePlan
<1>3. TypeOK'
    BY <1>1, <1>2 DEF IInv, TypeOK
<1>4. PlansKept'
    BY <1>1 DEF IInv, PlansKept
<1>5. Admitted'
    BY <1>1, <1>2 DEF IInv, Admitted
<1>6. Reads'
    BY <1>2 DEF Reads
<1>7. ResultsSound'
    BY <1>2 DEF ResultsSound
<1>8. AnswersRestOnTheirReads' /\ OnlyFaultsFail'
    BY <1>1 DEF AnswersRestOnTheirReads, OnlyFaultsFail
<1>9. ValidPlansAreUsed'
    BY <1>1 DEF IInv, ValidPlansAreUsed
<1> QED BY <1>3, <1>4, <1>5, <1>6, <1>7, <1>8, <1>9 DEF IInv

LEMMA SetCallsKeeps ==
    ASSUME IInv, stage = "executing", NEW n \in Queries(ThePlan) \ DOMAIN results, NEW c,
           CallsOf(Strategy(ThePlan, n), c), SetCalls(n, c), UNCHANGED results, Stay
    PROVE  IInv'
<1>1. calls' = [m \in Running \cup {n} |-> IF m = n THEN c ELSE calls[m]]
    BY DEF SetCalls
<1>2. DOMAIN calls' = Running \cup {n} /\ \A m \in Running \cup {n} : calls'[m] = IF m = n THEN c ELSE calls[m]
    BY <1>1
<1>3. Running' = Running \cup {n}
    BY <1>2 DEF Running
<1>4. \A m \in Running' : CallsOf(Strategy(ThePlan, m), calls'[m])
    BY <1>2, <1>3, ThePlanIsExecuted
<1>5. Running' \subseteq Queries(ThePlan) \ DOMAIN results'
    BY <1>3, ThePlanIsExecuted
<1>6. ThePlan' = ThePlan
    BY SamePlan DEF Stay
<1>7. Excused'
    BY <1>6 DEF IInv, ResultsSound, Excused
<1>8. ThePlan.result \in DOMAIN results' => ThePlan.shape # "queries"
    BY DEF IInv, ResultsSound
<1>9. /\ results' \in [DOMAIN results' -> ResultType]
      /\ DOMAIN results' \subseteq Ids(ThePlan) \cup {ThePlan.result}
      /\ \A m \in DOMAIN results' : Sound(results'[m])
    BY ThePlanIsExecuted
<1> QED BY <1>4, <1>5, <1>7, <1>8, <1>9, ExecutionKeeps

LEMMA PutKeeps ==
    ASSUME IInv, stage = "executing", Stay,
           NEW n \in Ids(ThePlan) \cup {ThePlan.result}, n \notin DOMAIN results, n = ThePlan.result => ThePlan.shape # "queries",
           NEW r \in ResultType, Sound(r), Put(n, r), Drop(n) \/ (n \notin Running /\ UNCHANGED calls),
           \/ r.complete \/ ~r.proved \/ r.broke
           \/ Reading(ThePlan, {"candidates"}) # {}
           \/ \E m \in DOMAIN results : ~results[m].complete
    PROVE  IInv'
<1>1. results' = [m \in DOMAIN results \cup {n} |-> IF m = n THEN r ELSE results[m]]
    BY DEF Put
<1>2. /\ DOMAIN results' = DOMAIN results \cup {n}
      /\ results'[n] = r
      /\ \A m \in DOMAIN results : results'[m] = results[m]
    BY <1>1
<1>3. Running' \subseteq Running \ {n} /\ \A m \in Running' : calls'[m] = calls[m]
    <2>1. CASE Drop(n)
        BY <2>1 DEF Drop, Running
    <2>2. CASE n \notin Running /\ UNCHANGED calls
        BY <2>2 DEF Running
    <2> QED BY <2>1, <2>2
<1>4. Running' \subseteq Queries(ThePlan) \ DOMAIN results'
    BY <1>2, <1>3, ThePlanIsExecuted
<1>5. \A m \in Running' : CallsOf(Strategy(ThePlan, m), calls'[m])
    BY <1>3, ThePlanIsExecuted
<1>6. results' \in [DOMAIN results' -> ResultType]
    <2>1. \A m \in DOMAIN results : results[m] \in ResultType
        BY ThePlanIsExecuted
    <2>2. \A m \in DOMAIN results \cup {n} : (IF m = n THEN r ELSE results[m]) \in ResultType
        BY <2>1
    <2> QED BY <1>1, <1>2, <2>2
<1>7. DOMAIN results' \subseteq Ids(ThePlan) \cup {ThePlan.result}
    BY <1>2, ThePlanIsExecuted
<1>8. \A m \in DOMAIN results' : Sound(results'[m])
    BY <1>2, ThePlanIsExecuted
<1>9. ThePlan' = ThePlan
    BY SamePlan DEF Stay
<1>10. Excused'
    <2>1. Excused
        BY DEF IInv, ResultsSound
    <2>2. CASE \E m \in DOMAIN results : ~results[m].proved \/ results[m].broke
        BY <2>2, <1>2 DEF Excused
    <2>3. CASE Reading(ThePlan, {"candidates"}) # {}
        BY <2>3, <1>9 DEF Excused
    <2>4. CASE \A m \in DOMAIN results : results[m].complete
        <3>1. CASE r.complete
            <4>1. \A m \in DOMAIN results' : results'[m].complete
                BY <3>1, <2>4, <1>2
            <4> QED BY <4>1 DEF Excused
        <3>2. CASE ~r.proved \/ r.broke
            <4>1. \E m \in DOMAIN results' : ~results'[m].proved \/ results'[m].broke
                BY <3>2, <1>2
            <4> QED BY <4>1 DEF Excused
        <3> QED BY <3>1, <3>2, <2>3, <2>4
    <2> QED BY <2>1, <2>2, <2>3, <2>4 DEF Excused
<1>11. ThePlan.result \in DOMAIN results' => ThePlan.shape # "queries"
    BY <1>2 DEF IInv, ResultsSound
<1> QED BY <1>4, <1>5, <1>6, <1>7, <1>8, <1>10, <1>11, ExecutionKeeps

-----------------------------------------------------------------------------
\* The calls of a query.

LEMMA CatalogIsNoWindow ==
    /\ Catalog \notin Window
    /\ \A d \in Days : Catalog # <<d>>
    /\ Catalog # <<>>
<1>1. Catalog = <<0>> /\ Len(Catalog) = 1
    BY DEF Catalog
<1>2. \A c \in Codes, d, e \in Days : <<c, d, e>> # Catalog
    BY <1>1
<1>3. \A w \in Codes \X Days \X Days : \E c \in Codes, d, e \in Days : w = <<c, d, e>>
    OBVIOUS
<1>4. Catalog \notin Window
    BY <1>2, <1>3 DEF Window
<1>5. \A d \in Days : Catalog # <<d>>
    <2> TAKE d \in Days
    <2>1. d # 0
        BY DEF Days
    <2>2. Catalog[1] = 0 /\ <<d>>[1] = d
        BY <1>1
    <2> QED BY <2>1, <2>2
<1>6. Catalog # <<>>
    BY <1>1
<1> QED BY <1>4, <1>5, <1>6

LEMMA StartQueryKeeps ==
    ASSUME IInv, NEW n, StartQuery(n)
    PROVE  IInv'
<1>1. stage = "executing" /\ n \in Queries(ThePlan) \ DOMAIN results /\ UNCHANGED results /\ Stay
    BY DEF StartQuery, Open
<1> DEFINE s == Strategy(ThePlan, n)
           c == [p \in Parts(s) |-> "open"]
<1>2. SetCalls(n, c)
    BY DEF StartQuery
<1>3. s = "unlocks" => Catalog \notin DOMAIN c
    BY CatalogIsNoWindow DEF Parts
<1>4. CallsOf(s, c)
    BY <1>3 DEF CallsOf, Statuses
<1> HIDE DEF c
<1> QED BY <1>1, <1>2, <1>4, SetCallsKeeps

\* The frame of an action that writes the calls of a query that is being read.
LEMMA CallsKeep ==
    ASSUME IInv, stage = "executing", NEW n \in Running, NEW c,
           CallsOf(Strategy(ThePlan, n), c), SetCalls(n, c), UNCHANGED results, Stay
    PROVE  IInv'
<1>1. n \in Queries(ThePlan) \ DOMAIN results
    BY ThePlanIsExecuted
<1> QED BY <1>1, SetCallsKeeps

LEMMA CallEndsKeeps ==
    ASSUME IInv, NEW n, CallEnds(n)
    PROVE  IInv'
<1>1. stage = "executing" /\ n \in Running /\ UNCHANGED results /\ Stay
    BY DEF CallEnds
<1> DEFINE s == Strategy(ThePlan, n)
<1>a. PICK part \in CallsThat(n, {"open"}) : \E e \in Endings(s, part) : SetCalls(n, [calls[n] EXCEPT ![part] = e])
    BY DEF CallEnds
<1>2. PICK e \in Endings(s, part) : SetCalls(n, [calls[n] EXCEPT ![part] = e])
    BY <1>a
<1> DEFINE b == calls[n]
           c == [b EXCEPT ![part] = e]
<1>3. part \in DOMAIN b /\ b[part] = "open"
    BY <1>a DEF CallsThat
<1>4. CallsOf(s, b)
    BY <1>1, ThePlanIsExecuted
<1>5. DOMAIN c = DOMAIN b /\ c[part] = e /\ \A p \in DOMAIN b : p # part => c[p] = b[p]
    BY <1>3
<1>6. e \in Endings(s, <<>>)
    BY <1>2, CatalogIsNoWindow DEF Endings
<1>7. \A p \in DOMAIN c : c[p] \in Statuses(s)
    BY <1>4, <1>5, <1>6 DEF CallsOf, Statuses
<1>8. ASSUME s = "unlocks", Catalog \in DOMAIN c
      PROVE  /\ c[Catalog] # "saturated"
             /\ DOMAIN c # {Catalog} => c[Catalog] = "full" /\ Tiling(DOMAIN c \ {Catalog})
    <2>1. /\ b[Catalog] # "saturated"
          /\ DOMAIN b # {Catalog} => b[Catalog] = "full" /\ Tiling(DOMAIN b \ {Catalog})
        BY <1>4, <1>5, <1>8 DEF CallsOf
    <2>2. part = Catalog => e \in {"full", "failed"}
        BY <1>2, <1>8 DEF Endings
    <2> HIDE DEF b, c
    <2>3. c[Catalog] # "saturated"
        BY <2>1, <2>2, <1>5, <1>8
    <2>4. DOMAIN b # {Catalog} => part # Catalog
        BY <2>1, <1>3
    <2> QED BY <2>1, <2>3, <2>4, <1>5, <1>8
<1> HIDE DEF s, c
<1>9. CallsOf(s, c)
    BY <1>7, <1>8 DEF CallsOf
<1> QED BY <1>1, <1>2, <1>9, CallsKeep DEF s, c

LEMMA RetrySecuritiesKeeps ==
    ASSUME IInv, NEW n, RetrySecurities(n)
    PROVE  IInv'
<1>1. stage = "executing" /\ n \in Running /\ UNCHANGED results /\ Stay /\ Strategy(ThePlan, n) = "securities"
    BY DEF RetrySecurities
<1> DEFINE c == [p \in DOMAIN calls[n] |-> IF calls[n][p] = "failed" THEN "again" ELSE calls[n][p]]
<1>2. SetCalls(n, c)
    BY DEF RetrySecurities
<1>3. CallsOf("securities", calls[n])
    BY <1>1, ThePlanIsExecuted
<1>4. CallsOf("securities", c)
    BY <1>3 DEF CallsOf, Statuses
<1> HIDE DEF c
<1> QED BY <1>1, <1>2, <1>4, CallsKeep

LEMMA RetryEndsKeeps ==
    ASSUME IInv, NEW n, RetryEnds(n)
    PROVE  IInv'
<1>1. stage = "executing" /\ n \in Running /\ UNCHANGED results /\ Stay
    BY DEF RetryEnds
<1>2. PICK part \in CallsThat(n, {"again"}), e \in {"full", "bare", "lost"} : SetCalls(n, [calls[n] EXCEPT ![part] = e])
    BY DEF RetryEnds
<1> DEFINE s == Strategy(ThePlan, n)
           b == calls[n]
           c == [b EXCEPT ![part] = e]
<1>3. part \in DOMAIN b /\ b[part] = "again"
    BY <1>2 DEF CallsThat
<1>4. CallsOf(s, b)
    BY <1>1, ThePlanIsExecuted
<1>5. s = "securities"
    <2>1. "again" \in Statuses(s)
        BY <1>3, <1>4 DEF CallsOf
    <2> HIDE DEF s
    <2> QED BY <2>1 DEF Statuses, Endings
<1>6. DOMAIN c = DOMAIN b /\ c[part] = e /\ \A p \in DOMAIN b : p # part => c[p] = b[p]
    BY <1>3
<1>7. e \in Statuses("securities")
    BY <1>2 DEF Statuses, Endings
<1>8. \A p \in DOMAIN c : c[p] \in Statuses("securities")
    BY <1>4, <1>5, <1>6, <1>7 DEF CallsOf
<1> HIDE DEF s, c
<1>9. CallsOf(s, c)
    BY <1>5, <1>8 DEF CallsOf
<1> QED BY <1>1, <1>2, <1>9, CallsKeep DEF s, c

LEMMA ReadBySecurityKeeps ==
    ASSUME IInv, NEW n, ReadBySecurity(n)
    PROVE  IInv'
<1>1. stage = "executing" /\ n \in Running /\ UNCHANGED results /\ Stay /\ Strategy(ThePlan, n) = "unlocks"
    BY DEF ReadBySecurity, Recoverable
<1> DEFINE c == [p \in {Catalog} |-> "open"]
<1>2. SetCalls(n, c)
    BY DEF ReadBySecurity
<1>3. CallsOf("unlocks", c)
    BY DEF CallsOf, Statuses
<1> HIDE DEF c
<1> QED BY <1>1, <1>2, <1>3, CallsKeep

LEMMA CatalogReadKeeps ==
    ASSUME IInv, NEW n, CatalogRead(n)
    PROVE  IInv'
<1>1. stage = "executing" /\ n \in Running /\ UNCHANGED results /\ Stay /\ Strategy(ThePlan, n) = "unlocks"
    BY DEF CatalogRead, Recovering
<1> DEFINE ws == {<<c, 1, LastDay>> : c \in Codes}
           c == [p \in {Catalog} \cup ws |-> IF p = Catalog THEN "full" ELSE "open"]
<1>2. SetCalls(n, c)
    BY DEF CatalogRead
<1>3. Tiling(ws)
    BY FirstTiling
<1> HIDE DEF ws
<1>4. Catalog \notin ws
    BY <1>3, CatalogIsNoWindow DEF Tiling
<1>5. DOMAIN c = {Catalog} \cup ws /\ c[Catalog] = "full" /\ \A p \in DOMAIN c : c[p] \in {"full", "open"}
    OBVIOUS
<1>6. DOMAIN c \ {Catalog} = ws
    BY <1>4, <1>5
<1>7. {"full", "open"} \subseteq Statuses("unlocks")
    BY DEF Statuses, Endings
<1> HIDE DEF c
<1>8. CallsOf("unlocks", c)
    BY <1>3, <1>5, <1>6, <1>7 DEF CallsOf
<1> QED BY <1>1, <1>2, <1>8, CallsKeep

LEMMA BisectKeeps ==
    ASSUME IInv, NEW n, Bisect(n)
    PROVE  IInv'
<1>1. stage = "executing" /\ n \in Running /\ UNCHANGED results /\ Stay
    BY DEF Bisect
<1>2. PICK w \in Halvable(n) :
        SetCalls(n, [v \in (DOMAIN calls[n] \ {w}) \cup Halves(w) |-> IF v \in Halves(w) THEN "open" ELSE calls[n][v]])
    BY DEF Bisect
<1> DEFINE b == calls[n]
           new == (DOMAIN b \ {w}) \cup Halves(w)
           c == [v \in new |-> IF v \in Halves(w) THEN "open" ELSE b[v]]
<1>3. /\ Strategy(ThePlan, n) = "unlocks" /\ Catalog \in DOMAIN b
      /\ w \in DOMAIN b /\ b[w] = "saturated" /\ w[2] < w[3]
    BY <1>2 DEF Halvable, Recovering, CallsThat
<1>4. CallsOf("unlocks", b)
    BY <1>1, <1>3, ThePlanIsExecuted
<1>5. w # Catalog
    BY <1>3, <1>4 DEF CallsOf
<1>6. b[Catalog] = "full" /\ Tiling(DOMAIN b \ {Catalog})
    BY <1>3, <1>4, <1>5 DEF CallsOf
<1>7. Tiling(((DOMAIN b \ {Catalog}) \ {w}) \cup Halves(w))
    <2> DEFINE ws == DOMAIN b \ {Catalog}
    <2>1. Tiling(ws) /\ w \in ws
        BY <1>3, <1>5, <1>6
    <2> HIDE DEF ws
    <2>2. Tiling((ws \ {w}) \cup Halves(w))
        BY <2>1, <1>3, BisectTiles
    <2> QED BY <2>2 DEF ws
<1>8. Catalog \notin Halves(w)
    BY <1>7, CatalogIsNoWindow DEF Tiling
<1>9. new \ {Catalog} = ((DOMAIN b \ {Catalog}) \ {w}) \cup Halves(w) /\ Catalog \in new
    BY <1>3, <1>5, <1>8
<1>10. DOMAIN c = new /\ c[Catalog] = "full"
    BY <1>6, <1>8, <1>9
<1>11. \A v \in DOMAIN c : c[v] \in Statuses("unlocks")
    <2>1. "open" \in Statuses("unlocks")
        BY DEF Statuses
    <2>2. \A v \in DOMAIN b : b[v] \in Statuses("unlocks")
        BY <1>4 DEF CallsOf
    <2> QED BY <2>1, <2>2
<1>12. SetCalls(n, c)
    BY <1>2
<1> HIDE DEF new, c
<1>13. CallsOf("unlocks", c)
    BY <1>7, <1>9, <1>10, <1>11 DEF CallsOf
<1> QED BY <1>1, <1>3, <1>12, <1>13, CallsKeep

-----------------------------------------------------------------------------
\* The results of a plan.

LEMMA QueryEndsKeeps ==
    ASSUME IInv, NEW n, QueryEnds(n)
    PROVE  IInv'
<1>1. /\ stage = "executing" /\ n \in Running /\ Ended(n) /\ Put(n, Result(n)) /\ Drop(n) /\ Stay
      /\ Recovering(n) => Windows(n) # {} \/ calls[n][Catalog] = "failed"
    BY DEF QueryEnds
<1>2. /\ n \in Queries(ThePlan) /\ n \notin DOMAIN results /\ n \in Ids(ThePlan)
      /\ Strategy(ThePlan, n) \in Strategies /\ CallsOf(Strategy(ThePlan, n), calls[n])
      /\ n = ThePlan.result => ThePlan.shape = "dag"
    BY <1>1, ThePlanIsExecuted
<1>3. /\ Result(n) \in ResultType /\ Sound(Result(n))
      /\ Result(n).complete \/ ~Result(n).proved \/ Strategy(ThePlan, n) = "candidates"
    BY <1>1, <1>2, QueryResult
<1>4. Strategy(ThePlan, n) = "candidates" => Reading(ThePlan, {"candidates"}) # {}
    BY <1>2 DEF Reading
<1> DEFINE r == Result(n)
<1> HIDE DEF r
<1>5. r \in ResultType /\ Sound(r) /\ Put(n, r)
      /\ (r.complete \/ ~r.proved \/ Reading(ThePlan, {"candidates"}) # {})
    BY <1>1, <1>3, <1>4 DEF r
<1> QED BY <1>1, <1>2, <1>5, PutKeeps

LEMMA ComputeEndsKeeps ==
    ASSUME IInv, NEW n, ComputeEnds(n)
    PROVE  IInv'
<1>1. /\ stage = "executing" /\ n \in Ids(ThePlan) /\ n \notin DOMAIN results /\ n \notin Running
      /\ n \notin Queries(ThePlan) /\ UNCHANGED calls /\ Stay /\ MayStart(n)
    BY DEF ComputeEnds, Open, Running
<1>2. ThePlan.shape = "dag"
    BY <1>1, ThePlanIsExecuted DEF Planned, PlanType, Queries
<1>3. Inputs(ThePlan, n) \subseteq DOMAIN results
    BY <1>1, <1>2 DEF MayStart
<1> DEFINE ids == Inputs(ThePlan, n)
<1>4. /\ Consumes(ids) \in ResultType
      /\ Sound(Consumes(ids))
      /\ Consumes(ids).complete \/ ~Consumes(ids).proved \/ \E m \in ids : ~results[m].complete
    <2>1. \A m \in ids : Sound(results[m])
        BY <1>1, <1>3, ThePlanIsExecuted
    <2>2. results \in [DOMAIN results -> ResultType] /\ ids \subseteq DOMAIN results
        BY <1>1, <1>3, ThePlanIsExecuted
    <2> HIDE DEF ids
    <2> QED BY <2>1, <2>2, ConsumesSound
<1>5. PICK r \in {Consumes(ids), Broken} : Put(n, r)
    BY DEF ComputeEnds
<1>6. r \in ResultType /\ Sound(r)
      /\ (r.complete \/ ~r.proved \/ r.broke \/ \E m \in DOMAIN results : ~results[m].complete)
    BY <1>3, <1>4, <1>5, FailuresSound
<1> QED BY <1>1, <1>2, <1>5, <1>6, PutKeeps

LEMMA CandidatesSkippedKeeps ==
    ASSUME IInv, NEW n, CandidatesSkipped(n)
    PROVE  IInv'
<1>1. /\ stage = "executing" /\ n \in Ids(ThePlan) /\ n \notin DOMAIN results /\ n \notin Running
      /\ UNCHANGED calls /\ Stay /\ Put(n, FailedResult)
    BY DEF CandidatesSkipped, Open, Running
<1>2. n = ThePlan.result => ThePlan.shape # "queries"
    BY <1>1, ThePlanIsExecuted
<1> QED BY <1>1, <1>2, FailuresSound, PutKeeps

\* A plan that has been executed without its universe failing has all its results.
LEMMA ExecutedIsComplete ==
    ASSUME Executed, ~UniverseFailed
    PROVE  Ids(ThePlan) \subseteq DOMAIN results
BY DEF Executed, Open, Running

LEMMA TransformsKeeps ==
    ASSUME IInv, Transforms
    PROVE  IInv'
<1>1. /\ stage = "executing" /\ Executed /\ ThePlan.shape = "pipeline" /\ ThePlan.result \notin DOMAIN results
      /\ SourceOk(ThePlan) /\ UNCHANGED calls /\ Stay /\ Running = {}
    BY DEF Transforms, Executed
<1> DEFINE ids == ThePlan.uses
<1>2. ids \subseteq DOMAIN results
    <2>1. ids \subseteq Ids(ThePlan)
        BY <1>1, ThePlanIsExecuted DEF Accepts, ValidQueries
    <2>2. Ids(ThePlan) \subseteq DOMAIN results
        BY <1>1, ExecutedIsComplete DEF SourceOk
    <2> QED BY <2>1, <2>2
<1>3. /\ Consumes(ids) \in ResultType
      /\ Sound(Consumes(ids))
      /\ Consumes(ids).complete \/ ~Consumes(ids).proved \/ \E m \in ids : ~results[m].complete
    <2>1. \A m \in ids : Sound(results[m])
        BY <1>1, <1>2, ThePlanIsExecuted
    <2>2. results \in [DOMAIN results -> ResultType] /\ ids \subseteq DOMAIN results
        BY <1>1, <1>2, ThePlanIsExecuted
    <2> HIDE DEF ids
    <2> QED BY <2>1, <2>2, ConsumesSound
<1>4. PICK r \in {Consumes(ids), Broken} : Put(ThePlan.result, r)
    BY DEF Transforms
<1>5. r \in ResultType /\ Sound(r)
      /\ (r.complete \/ ~r.proved \/ r.broke \/ \E m \in DOMAIN results : ~results[m].complete)
    BY <1>2, <1>3, <1>4, FailuresSound
<1>6. ThePlan.result \notin Running
    BY <1>1
<1> DEFINE n == ThePlan.result
<1>7. n \in Ids(ThePlan) \cup {ThePlan.result} /\ n \notin DOMAIN results /\ Put(n, r) /\ n \notin Running
    BY <1>1, <1>4, <1>6
<1> QED BY <1>1, <1>5, <1>7, PutKeeps
-----------------------------------------------------------------------------
\* The answer of an execution.

\* A graph that the validator accepted always has a node that can run.
LEMMA NeverStuck ==
    ASSUME IInv, stage = "executing", Running = {}
    PROVE  ~Stuck
<1>1. SUFFICES ASSUME Stuck
               PROVE  FALSE
    OBVIOUS
<1>2. ThePlan.shape = "dag" /\ Open # {} /\ \A n \in Open : ~MayStart(n)
    BY <1>1 DEF Stuck
<1>3. Open = Ids(ThePlan) \ DOMAIN results
    BY DEF Open, Running
<1>4. ASSUME NEW m \in Ids(ThePlan), Inputs(ThePlan, m) \subseteq DOMAIN results
      PROVE  m \in DOMAIN results
    <2>1. MayStart(m)
        BY <1>2, <1>4 DEF MayStart, NeedsFanout
    <2> QED BY <2>1, <1>2, <1>3
<1>5. Resolvable(ThePlan) = Ids(ThePlan) /\ IsFiniteSet(Ids(ThePlan))
    BY <1>2, ThePlanIsExecuted DEF Accepts, ValidGraph, Planned, PlanType
<1>6. Resolvable(ThePlan) \subseteq DOMAIN results
    BY <1>4, <1>5, ResolvableIsRun
<1> QED BY <1>2, <1>3, <1>5, <1>6

LEMMA ReturnedIsKnown ==
    ASSUME IInv, stage = "executing", Executed
    PROVE  Returned \subseteq DOMAIN results
<1>1. CASE ThePlan.shape = "dag"
    <2>1. ThePlan.result \in Ids(ThePlan)
        BY <1>1, ThePlanIsExecuted DEF Accepts, ValidGraph
    <2>2. Ids(ThePlan) \subseteq DOMAIN results
        BY <1>1, ExecutedIsComplete DEF UniverseFailed
    <2> QED BY <1>1, <2>1, <2>2 DEF Returned
<1>2. CASE ThePlan.shape # "dag"
    BY <1>2 DEF Returned
<1> QED BY <1>1, <1>2

\* A result that a contract requires and the answer lacks has met a fault, unless no execution of
\* the plan returns it.
LEMMA MissingIsExcused ==
    ASSUME IInv, stage = "executing", Executed,
           ThePlan.shape = "pipeline" /\ SourceOk(ThePlan) => ThePlan.result \in DOMAIN results,
           ~(RequiredResults(ThePlan) \subseteq Returned)
    PROVE  (\E n \in DOMAIN results : ~results[n].proved \/ results[n].broke) \/ RequiresUnreturned(ThePlan)
<1> DEFINE p == ThePlan
<1>0. /\ PlanType(p) /\ Accepts(p, MaxQueries) /\ p.shape \in Shapes
      /\ \A n \in Ids(p) : n = p.result => p.shape = "dag"
    BY ThePlanIsExecuted DEF Planned, PlanType, PlanRecord
<1>1. SUFFICES ASSUME \A n \in DOMAIN results : results[n].ok
               PROVE  RequiresUnreturned(p)
    BY ThePlanIsExecuted DEF Sound
<1>2. ~UniverseFailed
    BY <1>1 DEF UniverseFailed
<1>3. Ids(p) \subseteq DOMAIN results /\ DOMAIN results \subseteq Ids(p) \cup {p.result}
    BY <1>2, ExecutedIsComplete, ThePlanIsExecuted
<1>4. CASE p.shape = "dag"
    <2>1. Returned = {p.result}
        BY <1>4 DEF Returned
    <2> QED BY <1>4, <2>1 DEF RequiresUnreturned
<1>5. CASE p.shape = "pipeline"
    <2>1. p.source \in Ids(p)
        BY <1>0, <1>5 DEF Accepts, ValidQueries, PlanType
    <2>2. SourceOk(p)
        BY <2>1, <1>1, <1>2, <1>3 DEF SourceOk
    <2>3. p.result \in DOMAIN results /\ p.result # p.source
        BY <2>1, <2>2, <1>0, <1>5
    <2>4. Returned = DOMAIN results \ {p.source}
        BY <2>3, <1>2, <1>5 DEF Returned
    <2>5. (Ids(p) \ {p.source}) \cup {p.result} \subseteq Returned
        BY <2>3, <2>4, <1>3
    <2> QED BY <2>5, <1>5 DEF RequiresUnreturned
<1>6. CASE p.shape = "queries"
    <2>1. RequiredResults(p) \subseteq Ids(p)
        <3>1. CASE Contracted(p)
            BY <3>1, <1>0, <1>6 DEF RequiredResults, Accepts, ValidQueries, ContractKnown
        <3>2. CASE ~Contracted(p)
            BY <3>2, <1>6 DEF RequiredResults
        <3> QED BY <3>1, <3>2
    <2>2. p.result \notin DOMAIN results
        BY <1>6 DEF IInv, ResultsSound
    <2>3. Returned = DOMAIN results
        BY <2>2, <1>2, <1>6 DEF Returned
    <2> QED BY <2>1, <2>3, <1>3
<1> QED BY <1>0, <1>4, <1>5, <1>6 DEF Shapes

\* What _classify_execution_status makes of the results.
LEMMA ClassifyIs ==
    ASSUME NEW p
    PROVE  LET failing == {n \in Returned : ~results[n].ok}
               o == Classify(p)
           IN  /\ o \in [status : {"error", "success", "partial_success"}, reason : {"missing", "failed", "incomplete", "satisfied", "advisory"}]
               /\ o.status # "error" =>
                     /\ RequiredResults(p) \subseteq Returned \ failing
                     /\ AnswerId(p) # "" /\ p.contract.complete => results[AnswerId(p)].complete
               /\ o.status = "success" => failing = {}
               /\ o.reason = "missing" => ~(RequiredResults(p) \subseteq Returned)
               /\ o.reason = "failed" => failing # {}
               /\ o.reason = "incomplete" => /\ AnswerId(p) # "" /\ p.contract.complete /\ ~results[AnswerId(p)].complete
                                             /\ RequiredResults(p) \subseteq Returned
<1> DEFINE failing == {n \in Returned : ~results[n].ok}
           o == Classify(p)
           lacks == ~(RequiredResults(p) \subseteq Returned)
           fails == RequiredResults(p) \cap failing # {}
           short == AnswerId(p) # "" /\ p.contract.complete /\ ~results[AnswerId(p)].complete
           none == AnswerId(p) = "" /\ failing = Returned
<1>1. o = IF lacks THEN Status("error", "missing")
          ELSE IF fails THEN Status("error", "failed")
          ELSE IF short THEN Status("error", "incomplete")
          ELSE IF failing = {} THEN Status("success", "satisfied")
          ELSE IF none THEN Status("error", "failed")
          ELSE Status("partial_success", "advisory")
    BY DEF Classify
<1>2. /\ ~lacks /\ ~fails => RequiredResults(p) \subseteq Returned \ failing
      /\ fails => failing # {}
      /\ lacks <=> ~(RequiredResults(p) \subseteq Returned)
      /\ short <=> AnswerId(p) # "" /\ p.contract.complete /\ ~results[AnswerId(p)].complete
    OBVIOUS
<1> HIDE DEF o, lacks, fails, short, none, failing
<1>3. /\ o \in [status : {"error", "success", "partial_success"}, reason : {"missing", "failed", "incomplete", "satisfied", "advisory"}]
      /\ o.status # "error" => ~lacks /\ ~fails /\ ~short
      /\ o.status = "success" => failing = {}
      /\ o.reason = "missing" => lacks
      /\ o.reason = "failed" => fails \/ failing # {}
      /\ o.reason = "incomplete" => short /\ ~lacks
    BY <1>1 DEF Status
<1>4. /\ o \in [status : {"error", "success", "partial_success"}, reason : {"missing", "failed", "incomplete", "satisfied", "advisory"}]
      /\ o.status # "error" =>
            /\ RequiredResults(p) \subseteq Returned \ failing
            /\ AnswerId(p) # "" /\ p.contract.complete => results[AnswerId(p)].complete
      /\ o.status = "success" => failing = {}
      /\ o.reason = "missing" => ~(RequiredResults(p) \subseteq Returned)
      /\ o.reason = "failed" => failing # {}
      /\ o.reason = "incomplete" => /\ AnswerId(p) # "" /\ p.contract.complete /\ ~results[AnswerId(p)].complete
                                    /\ RequiredResults(p) \subseteq Returned
    BY <1>2, <1>3
<1> QED BY <1>4 DEF o, failing

LEMMA ClassifySound ==
    ASSUME IInv, stage = "executing", Executed,
           ThePlan.shape = "pipeline" /\ SourceOk(ThePlan) => ThePlan.result \in DOMAIN results
    PROVE  LET o == Classify(ThePlan)
           IN  /\ o.status \in {"error", "success", "partial_success"}
               /\ o.reason \in {"missing", "failed", "incomplete", "satisfied", "advisory"}
               /\ o.status \in {"success", "partial_success"} =>
                     /\ AnswerId(ThePlan) # "" => results[AnswerId(ThePlan)].whole
                     /\ AnswerId(ThePlan) # "" /\ ThePlan.contract.complete => results[AnswerId(ThePlan)].proved
                     /\ o.status = "success" => \A n \in Returned : results[n].whole
               /\ o.reason \in {"missing", "failed", "incomplete"} =>
                     \/ \E n \in DOMAIN results : ~results[n].proved \/ results[n].broke
                     \/ RequiresUnreturned(ThePlan)
                     \/ ThePlan.contract.complete /\ Reading(ThePlan, {"candidates"}) # {}
<1> DEFINE p == ThePlan
           failing == {n \in Returned : ~results[n].ok}
           o == Classify(p)
<1>1. /\ o \in [status : {"error", "success", "partial_success"}, reason : {"missing", "failed", "incomplete", "satisfied", "advisory"}]
      /\ o.status # "error" =>
            /\ RequiredResults(p) \subseteq Returned \ failing
            /\ AnswerId(p) # "" /\ p.contract.complete => results[AnswerId(p)].complete
      /\ o.status = "success" => failing = {}
      /\ o.reason = "missing" => ~(RequiredResults(p) \subseteq Returned)
      /\ o.reason = "failed" => failing # {}
      /\ o.reason = "incomplete" => /\ AnswerId(p) # "" /\ p.contract.complete /\ ~results[AnswerId(p)].complete
                                    /\ RequiredResults(p) \subseteq Returned
    BY ClassifyIs
<1>2. Returned \subseteq DOMAIN results /\ \A n \in DOMAIN results : Sound(results[n])
    BY ReturnedIsKnown, ThePlanIsExecuted
<1>3. AnswerId(p) # "" => AnswerId(p) \in RequiredResults(p)
    BY ThePlanIsExecuted, AnswerIsRequired
<1>4. o.status \in {"error", "success", "partial_success"}
      /\ o.reason \in {"missing", "failed", "incomplete", "satisfied", "advisory"}
    <2> HIDE DEF o
    <2> QED BY <1>1
<1>5. ASSUME o.status \in {"success", "partial_success"}
      PROVE  /\ AnswerId(p) # "" => results[AnswerId(p)].whole
             /\ AnswerId(p) # "" /\ p.contract.complete => results[AnswerId(p)].proved
             /\ o.status = "success" => \A n \in Returned : results[n].whole
    <2>1. o.status # "error"
        BY <1>5
    <2>2. AnswerId(p) # "" => AnswerId(p) \in DOMAIN results /\ results[AnswerId(p)].ok
        BY <2>1, <1>1, <1>2, <1>3
    <2>3. o.status = "success" => \A n \in Returned : results[n].ok
        BY <1>1
    <2> HIDE DEF o, p
    <2> QED BY <2>1, <2>2, <2>3, <1>1, <1>2 DEF Sound
<1>6. CASE o.reason = "missing"
    <2>1. ~(RequiredResults(ThePlan) \subseteq Returned)
        BY <1>1, <1>6
    <2> QED BY <2>1, <1>4, <1>5, MissingIsExcused
<1>7. CASE o.reason = "failed"
    <2>1. PICK n \in Returned : ~results[n].ok
        BY <1>1, <1>7
    <2>2. n \in DOMAIN results /\ (~results[n].proved \/ results[n].broke)
        BY <2>1, <1>2 DEF Sound
    <2> QED BY <2>2, <1>4, <1>5
<1>8. CASE o.reason = "incomplete"
    <2>1. AnswerId(p) \in DOMAIN results /\ ~results[AnswerId(p)].complete /\ p.contract.complete
        BY <1>1, <1>2, <1>3, <1>8
    <2>2. Excused
        BY DEF IInv, ResultsSound
    <2>3. (\E n \in DOMAIN results : ~results[n].proved \/ results[n].broke) \/ Reading(p, {"candidates"}) # {}
        BY <2>1, <2>2 DEF Excused
    <2> QED BY <2>1, <2>3, <1>4, <1>5
<1>9. CASE o.reason \notin {"missing", "failed", "incomplete"}
    BY <1>9, <1>4, <1>5
<1> QED BY <1>6, <1>7, <1>8, <1>9

\* The response after an execution, which leaves the results as they are.
LEMMA AnsweredKeeps ==
    ASSUME IInv, stage = "executing", stage' = "answered", UNCHANGED <<request, attempts, candidates, plan, results>>,
           outcome' # Pending, outcome'.reason # "planner_gave_up",
           AnswersRestOnTheirReads', OnlyFaultsFail'
    PROVE  IInv'
<1>1. TypeOK'
    BY DEF IInv, TypeOK, Stages
<1>2. PlansKept'
    BY DEF IInv, PlansKept
<1>3. Admitted' /\ Reads'
    BY DEF Admitted, Reads
<1>4. ResultsSound'
    BY DEF IInv, ResultsSound
<1>5. ValidPlansAreUsed'
    BY DEF ValidPlansAreUsed
<1> QED BY <1>1, <1>2, <1>3, <1>4, <1>5 DEF IInv

LEMMA CalendarFailsKeeps ==
    ASSUME IInv, NEW n, CalendarFails(n)
    PROVE  IInv'
<1>1. stage = "executing" /\ stage' = "answered" /\ outcome' = [status |-> "raised", reason |-> "calendar"]
      /\ UNCHANGED <<request, attempts, candidates, plan, results>>
    BY DEF CalendarFails
<1>2. outcome'.status = "raised" /\ outcome'.reason = "calendar"
    BY <1>1
<1>3. outcome' # Pending
    BY <1>2, PendingStatus
<1>4. AnswersRestOnTheirReads' /\ OnlyFaultsFail'
    BY <1>2 DEF AnswersRestOnTheirReads, OnlyFaultsFail
<1> QED BY <1>1, <1>2, <1>3, <1>4, AnsweredKeeps

LEMMA RespondKeeps ==
    ASSUME IInv, Respond
    PROVE  IInv'
<1>1. /\ stage = "executing" /\ stage' = "answered" /\ Running = {} /\ (Executed \/ Stuck)
      /\ ThePlan.shape = "pipeline" /\ SourceOk(ThePlan) => ThePlan.result \in DOMAIN results
      /\ UNCHANGED <<request, attempts, candidates, plan, results>>
      /\ outcome' = IF Stuck THEN Status("raised", "unrunnable") ELSE Classify(ThePlan)
    BY DEF Respond
<1>2. Executed /\ outcome' = Classify(ThePlan)
    BY <1>1, NeverStuck
<1> DEFINE o == Classify(ThePlan)
<1>3. /\ o.status \in {"error", "success", "partial_success"}
      /\ o.reason \in {"missing", "failed", "incomplete", "satisfied", "advisory"}
      /\ o.status \in {"success", "partial_success"} =>
            /\ AnswerId(ThePlan) # "" => results[AnswerId(ThePlan)].whole
            /\ AnswerId(ThePlan) # "" /\ ThePlan.contract.complete => results[AnswerId(ThePlan)].proved
            /\ o.status = "success" => \A n \in Returned : results[n].whole
      /\ o.reason \in {"missing", "failed", "incomplete"} =>
            \/ \E n \in DOMAIN results : ~results[n].proved \/ results[n].broke
            \/ RequiresUnreturned(ThePlan)
            \/ ThePlan.contract.complete /\ Reading(ThePlan, {"candidates"}) # {}
    BY <1>1, <1>2, ClassifySound
<1>4. outcome' = o
    BY <1>2
<1> HIDE DEF o
<1>5. ThePlan' = ThePlan /\ results' = results
    BY <1>1, SamePlan
<1>6. Returned' = Returned
    BY <1>5 DEF Returned, UniverseFailed
<1>7. outcome' # Pending /\ outcome'.reason # "planner_gave_up"
    BY <1>3, <1>4, PendingStatus
<1>8. AnswersRestOnTheirReads'
    BY <1>3, <1>4, <1>5, <1>6 DEF AnswersRestOnTheirReads
<1>9. OnlyFaultsFail'
    BY <1>3, <1>4, <1>5 DEF OnlyFaultsFail
<1> QED BY <1>1, <1>7, <1>8, <1>9, AnsweredKeeps

LEMMA ExecutingStep ==
    ASSUME IInv, Executing
    PROVE  IInv'
<1>1. CASE \E n \in Ids(ThePlan) : NodeStep(n)
    <2>1. PICK n \in Ids(ThePlan) : NodeStep(n)
        BY <1>1
    <2> QED BY <2>1, StartQueryKeeps, CallEndsKeeps, RetrySecuritiesKeeps, RetryEndsKeeps, ReadBySecurityKeeps,
               CatalogReadKeeps, BisectKeeps, QueryEndsKeeps, CalendarFailsKeeps, ComputeEndsKeeps,
               CandidatesSkippedKeeps DEF NodeStep
<1> QED BY <1>1, TransformsKeeps, RespondKeeps DEF Executing

-----------------------------------------------------------------------------
\* The theorems.

\* A request begins with nothing planned and nothing read.
THEOREM InitInvariant == Init => IInv
<1>1. SUFFICES ASSUME Init
               PROVE  IInv
    OBVIOUS
<1>2. /\ request \in Requests /\ stage = "received" /\ attempts = 0 /\ candidates = NoCandidates
      /\ plan = NoPlan /\ calls = <<>> /\ results = <<>> /\ outcome = Pending
    BY <1>1 DEF Init
<1>3. DOMAIN results = {} /\ DOMAIN calls = {}
    BY <1>2
<1>4. attempts \in 0..(MaxAttempts + MaxVertexAttempts) /\ attempts < MaxVertexAttempts
    BY <1>2, BoundsArePositive
<1>5. TypeOK
    BY <1>2, <1>3, <1>4, NothingKept DEF TypeOK, Stages
<1>6. PlansKept
    BY <1>2, <1>4, NothingKept, FS_EmptySet DEF PlansKept
<1>7. Admitted /\ Reads
    BY <1>2 DEF Admitted, Reads
<1>8. ResultsSound
    BY <1>2, <1>3 DEF ResultsSound
<1>9. AnswersRestOnTheirReads /\ OnlyFaultsFail /\ ValidPlansAreUsed
    BY <1>2, PendingStatus DEF AnswersRestOnTheirReads, OnlyFaultsFail, ValidPlansAreUsed
<1> QED BY <1>5, <1>6, <1>7, <1>8, <1>9 DEF IInv

\* Every step of the analysis keeps the invariant.
THEOREM StepInvariant == IInv /\ [Next]_vars => IInv'
<1>1. SUFFICES ASSUME IInv, [Next]_vars
               PROVE  IInv'
    OBVIOUS
<1>2. CASE Next
    BY <1>2, <1>1, PlanningStep, ExecutingStep DEF Next
<1>3. CASE UNCHANGED vars
    <2>1. UNCHANGED <<request, stage, attempts, candidates, plan, calls, results, outcome>>
        BY <1>3 DEF vars
    <2>2. ThePlan' = ThePlan
        BY <2>1, SamePlan
    <2>3. TypeOK' /\ PlansKept'
        BY <2>1, <2>2, <1>1 DEF IInv, TypeOK, PlansKept, Running
    <2>4. Admitted' /\ Reads' /\ ResultsSound'
        BY <2>1, <2>2, <1>1 DEF IInv, Admitted, Reads, ResultsSound, Excused, Running
    <2>5. Returned' = Returned
        BY <2>1, <2>2 DEF Returned, UniverseFailed
    <2>6. AnswersRestOnTheirReads' /\ OnlyFaultsFail' /\ ValidPlansAreUsed'
        BY <2>1, <2>2, <2>5, <1>1 DEF IInv, AnswersRestOnTheirReads, OnlyFaultsFail, ValidPlansAreUsed
    <2> QED BY <2>3, <2>4, <2>6 DEF IInv
<1> QED BY <1>1, <1>2, <1>3

\* The request, its plans, its calls and its results are of their types, and nothing is executed
\* but a plan that was read and chosen.
THEOREM TypeCorrect == Spec => []TypeOK
<1>1. IInv => TypeOK
    BY DEF IInv
<1> QED BY <1>1, InitInvariant, StepInvariant, PTL DEF Spec

\* However the calls of a fan-out end (AnalysisService._execute_with_fanout), an answer rests on
\* results none of whose calls was lost, and on proofs of completeness where the contract asks.
THEOREM AnswersAreRead == Spec => []AnswersRestOnTheirReads
<1>1. IInv => AnswersRestOnTheirReads
    BY DEF IInv
<1> QED BY <1>1, InitInvariant, StepInvariant, PTL DEF Spec

\* _classify_execution_status refuses an answer over a fault only, and an accepted graph is never
\* without a node to run.
THEOREM FailuresAreExcused == Spec => []OnlyFaultsFail
<1>1. IInv => OnlyFaultsFail
    BY DEF IInv
<1> QED BY <1>1, InitInvariant, StepInvariant, PTL DEF Spec

\* DeepSeekPlanner gives up when it kept no plan, and returns one that none it kept surpasses.
THEOREM BestPlanWins == Spec => []ValidPlansAreUsed
<1>1. IInv => ValidPlansAreUsed
    BY DEF IInv
<1> QED BY <1>1, InitInvariant, StepInvariant, PTL DEF Spec
=============================================================================
