--------------------------- MODULE Reports_proofs ---------------------------
(***************************************************************************)
(* Theorems about what is reported, with TLAPS: that the sections of the   *)
(* statistics, the views and the aggregates of LifecycleView agree, and    *)
(* that the administrators' reports of AdminService and AdminDetail add up *)
(* and tell what happened, for every table, caller and filter.             *)
(***************************************************************************)
EXTENDS OrderReads_proofs, LifecycleView, AdminDetail, SequenceTheorems

-----------------------------------------------------------------------------

(***************************************************************************)
(* Sums.  A set of numbers that holds 0 and all that a step by one reaches *)
(* stands in for induction.                                                *)
(***************************************************************************)

LEMMA StepByStep ==
    ASSUME NEW S, NEW n \in Nat, 0 \in S, \A m \in 0 .. n - 1 : m \in S => m + 1 \in S
    PROVE  n \in S
<1> SUFFICES ASSUME n \notin S
             PROVE  FALSE
  OBVIOUS
<1> DEFINE T == {m \in 0 .. n : m \notin S}
<1>1. T \in SUBSET Nat /\ n \in T
  OBVIOUS
<1> HIDE DEF T
<1>2. PICK m \in T : \A x \in T : m <= x
  BY <1>1, OldestOf
<1>3. m \in 0 .. n /\ m \notin S /\ m # 0
  BY DEF T
<1>4. m - 1 \in S
  <2>1. m - 1 \notin T
    BY <1>1, <1>2, <1>3
  <2> QED
    BY <1>3, <2>1 DEF T
<1> QED
  BY <1>3, <1>4

\* The element a fold takes out first, and what the fold makes of the rest.
Taken(s) == CHOOSE x \in s : TRUE

SumStep(f, g, s) == IF s = {} THEN 0 ELSE f[Taken(s)] + g[s \ {Taken(s)}]

\* g holds the sum of f over every set of its arguments.
Summing(f, g) == \A s \in SUBSET DOMAIN f : g[s] = SumStep(f, g, s)

\* Taking one element out of a finite set.
LEMMA TakeOut ==
    ASSUME NEW S, IsFiniteSet(S), NEW s \in SUBSET S, NEW x \in s
    PROVE  /\ s \ {x} \in SUBSET S
           /\ Cardinality(s) \in Nat \ {0}
           /\ Cardinality(s \ {x}) = Cardinality(s) - 1
<1>1. IsFiniteSet(s) /\ Cardinality(s) \in Nat
  BY FS_Subset, FS_CardinalityType
<1>2. Cardinality(s \ {x}) = Cardinality(s) - 1 /\ IsFiniteSet(s \ {x})
  BY <1>1, FS_RemoveElement
<1>3. Cardinality(s \ {x}) \in Nat
  BY <1>2, FS_CardinalityType
<1> QED
  BY <1>1, <1>2, <1>3

LEMMA Sizes ==
    ASSUME NEW S, IsFiniteSet(S), NEW s \in SUBSET S
    PROVE  /\ Cardinality(s) \in 0 .. Cardinality(S)
           /\ Cardinality(S) \in Nat
           /\ Cardinality(s) = 0 <=> s = {}
<1>1. IsFiniteSet(s) /\ Cardinality(s) \in Nat /\ Cardinality(S) \in Nat
  BY FS_Subset, FS_CardinalityType
<1>2. Cardinality(s) <= Cardinality(S)
  BY FS_Subset
<1> QED
  BY <1>1, <1>2, FS_EmptySet

LEMMA Disjoint ==
    ASSUME NEW S, IsFiniteSet(S), NEW T, IsFiniteSet(T), S \cap T = {}
    PROVE  Cardinality(S \cup T) = Cardinality(S) + Cardinality(T)
<1>1. Cardinality(S \cap T) = 0
  BY FS_EmptySet
<1>2. Cardinality(S) \in Nat /\ Cardinality(T) \in Nat
  BY FS_CardinalityType
<1>3. Cardinality(S \cup T) = Cardinality(S) + Cardinality(T) - Cardinality(S \cap T)
  BY FS_Union
<1> QED
  BY <1>1, <1>2, <1>3

\* The recursive function of the fold exists, by a function right for sets of
\* at most n elements for each n.
LEMMA SumUnfolds ==
    ASSUME NEW f, IsFiniteSet(DOMAIN f)
    PROVE  \E g : Summing(f, g) /\ SumFunction(f) = g[DOMAIN f]
<1> DEFINE D == DOMAIN f
           Upto(g, n) == /\ DOMAIN g = SUBSET D
                         /\ \A s \in SUBSET D : Cardinality(s) <= n => g[s] = SumStep(f, g, s)
           S == {n \in Nat : \E g : Upto(g, n)}
           last == Cardinality(D)
<1>1. last \in Nat
  BY FS_CardinalityType
<1>2. 0 \in S
  <2> DEFINE g == [s \in SUBSET D |-> 0]
  <2>1. ASSUME NEW s \in SUBSET D, Cardinality(s) <= 0
        PROVE  g[s] = SumStep(f, g, s)
    <3>1. s = {}
      BY <2>1, Sizes
    <3> QED
      BY <3>1 DEF SumStep
  <2>2. DOMAIN g = SUBSET D
    OBVIOUS
  <2> HIDE DEF g
  <2>3. Upto(g, 0)
    BY <2>1, <2>2
  <2> QED
    BY <2>3
<1>3. ASSUME NEW n \in 0 .. last - 1, n \in S
      PROVE  n + 1 \in S
  <2>1. PICK g : Upto(g, n)
    BY <1>3
  <2> DEFINE h == [s \in SUBSET D |-> IF Cardinality(s) <= n THEN g[s] ELSE SumStep(f, g, s)]
  <2>2. \A s \in SUBSET D : h[s] = SumStep(f, g, s)
    BY <2>1
  <2>3. \A s \in SUBSET D : Cardinality(s) <= n => h[s] = g[s]
    OBVIOUS
  <2>4. DOMAIN h = SUBSET D
    OBVIOUS
  <2> HIDE DEF h
  <2>5. ASSUME NEW s \in SUBSET D, Cardinality(s) <= n + 1
        PROVE  h[s] = SumStep(f, h, s)
    <3>1. CASE s = {}
      BY <2>2, <3>1 DEF SumStep
    <3>2. CASE s # {}
      <4>1. Taken(s) \in s
        BY <3>2 DEF Taken
      <4>2. s \ {Taken(s)} \in SUBSET D /\ Cardinality(s \ {Taken(s)}) <= n
        <5>1. /\ s \ {Taken(s)} \in SUBSET D
              /\ Cardinality(s) \in Nat \ {0}
              /\ Cardinality(s \ {Taken(s)}) = Cardinality(s) - 1
          BY <4>1, TakeOut
        <5> QED
          BY <1>1, <1>3, <2>5, <5>1
      <4>3. h[s \ {Taken(s)}] = g[s \ {Taken(s)}]
        BY <2>3, <4>2
      <4> QED
        BY <2>2, <3>2, <4>3 DEF SumStep
    <3> QED
      BY <3>1, <3>2
  <2>6. Upto(h, n + 1) /\ n + 1 \in Nat
    BY <1>1, <1>3, <2>4, <2>5
  <2> QED
    BY <2>6
<1>4. last \in S
  <2> HIDE DEF S
  <2> QED
    BY <1>1, <1>2, <1>3, StepByStep
<1>5. PICK g : Upto(g, last)
  BY <1>4
<1>6. \A s \in SUBSET D : g[s] = SumStep(f, g, s)
  <2>1. \A s \in SUBSET D : Cardinality(s) <= last
    BY <1>1, Sizes
  <2> QED
    BY <1>5, <2>1
<1> DEFINE h == [s \in SUBSET D |-> SumStep(f, g, s)]
<1>7. \A s \in SUBSET D : SumStep(f, g, s) = SumStep(f, h, s)
  <2>1. \A s \in SUBSET D : h[s] = g[s]
    BY <1>6
  <2> HIDE DEF h
  <2> QED
    BY <2>1 DEF SumStep
<1>8. h = [s \in SUBSET D |-> SumStep(f, h, s)]
  BY <1>7
<1> HIDE DEF h
<1> DEFINE it == CHOOSE i : i = [s \in SUBSET DOMAIN f |-> SumStep(f, i, s)]
<1>9. it = [s \in SUBSET DOMAIN f |-> SumStep(f, it, s)]
  BY <1>8
<1>10. SumFunction(f) = it[DOMAIN f]
  BY DEF SumFunction, SumFunctionOnSet, FoldFunctionOnSet, MapThenFoldSet, SumStep, Taken
<1>11. \A s \in SUBSET DOMAIN f : it[s] = SumStep(f, it, s)
  <2> DEFINE e == [s \in SUBSET D |-> SumStep(f, it, s)]
  <2>1. \A s \in SUBSET D : e[s] = SumStep(f, it, s)
    OBVIOUS
  <2>2. it = e
    BY <1>9
  <2> HIDE DEF e, it
  <2> QED
    BY <2>1, <2>2
<1> HIDE DEF it
<1> QED
  BY <1>10, <1>11 DEF Summing

\* The elements may be added in any order.
LEMMA AnyOrder ==
    ASSUME NEW f, IsFiniteSet(DOMAIN f), \A x \in DOMAIN f : f[x] \in Nat,
           NEW g, Summing(f, g),
           NEW s \in SUBSET DOMAIN f
    PROVE  /\ g[s] \in Nat
           /\ s = {} => g[s] = 0
           /\ \A x \in s : g[s] = f[x] + g[s \ {x}]
<1> DEFINE D == DOMAIN f
           Good(t) == /\ g[t] \in Nat
                      /\ \A x \in t : g[t] = f[x] + g[t \ {x}]
           S == {n \in Nat : \A t \in SUBSET D : Cardinality(t) <= n => Good(t)}
<1>2. g[{}] = 0
  BY DEF SumStep, Summing
<1>3. 0 \in S
  <2>1. ASSUME NEW t \in SUBSET D, Cardinality(t) <= 0
        PROVE  Good(t)
    <3>1. t = {}
      BY <2>1, Sizes
    <3> QED
      BY <1>2, <3>1
  <2> HIDE DEF Good
  <2> QED
    BY <2>1
<1>4. ASSUME NEW n \in Nat, n \in S
      PROVE  n + 1 \in S
  <2>1. ASSUME NEW t \in SUBSET D, Cardinality(t) <= n + 1, t # {}
        PROVE  Good(t)
    <3> DEFINE c == Taken(t)
    <3>1. c \in t /\ g[t] = f[c] + g[t \ {c}]
      BY <2>1 DEF SumStep, Summing, Taken
    <3> HIDE DEF c
    <3>2. ASSUME NEW u \in SUBSET t, u # t
          PROVE  Good(u)
      <4>1. PICK x \in t : u \subseteq t \ {x}
        BY <3>2
      <4>2. /\ t \ {x} \in SUBSET D
            /\ Cardinality(t) \in Nat \ {0}
            /\ Cardinality(t \ {x}) = Cardinality(t) - 1
        BY TakeOut
      <4>3. IsFiniteSet(t \ {x})
        BY <4>2, FS_Subset
      <4>4. Cardinality(u) \in 0 .. Cardinality(t \ {x})
        BY <4>1, <4>3, Sizes
      <4>5. Cardinality(u) <= n
        BY <1>4, <2>1, <4>2, <4>4
      <4> QED
        BY <1>4, <4>5
    <3>3. g[t] \in Nat
      <4>1. g[t \ {c}] \in Nat /\ f[c] \in Nat
        BY <3>1, <3>2
      <4> QED
        BY <3>1, <4>1
    <3>4. ASSUME NEW x \in t, x # c
          PROVE  g[t] = f[x] + g[t \ {x}]
      <4>1. g[t \ {c}] = f[x] + g[(t \ {c}) \ {x}]
        BY <3>1, <3>2, <3>4
      <4>2. g[t \ {x}] = f[c] + g[(t \ {x}) \ {c}]
        BY <3>1, <3>2, <3>4
      <4>3. (t \ {c}) \ {x} = (t \ {x}) \ {c}
        OBVIOUS
      <4>4. g[(t \ {c}) \ {x}] \in Nat
        BY <3>1, <3>2
      <4>5. f[c] \in Nat /\ f[x] \in Nat
        BY <3>1
      <4> DEFINE rest == g[(t \ {c}) \ {x}]
      <4>6. g[t \ {c}] = f[x] + rest /\ g[t \ {x}] = f[c] + rest /\ rest \in Nat
        BY <4>1, <4>2, <4>3, <4>4
      <4> HIDE DEF rest
      <4> QED
        BY <3>1, <4>5, <4>6
    <3>5. \A x \in t : g[t] = f[x] + g[t \ {x}]
      BY <3>1, <3>4
    <3> QED
      BY <3>3, <3>5
  <2>2. Good({})
    BY <1>2
  <2> HIDE DEF Good
  <2> QED
    BY <2>1, <2>2
<1>5. Cardinality(s) \in S
  <2> HIDE DEF S
  <2>1. Cardinality(s) \in Nat
    BY Sizes
  <2> QED
    BY <1>3, <1>4, <2>1, StepByStep
<1>6. Good(s)
  <2>1. Cardinality(s) \in Nat
    BY Sizes
  <2> HIDE DEF Good
  <2> QED
    BY <1>5, <2>1
<1> QED
  BY <1>2, <1>6

(***************************************************************************)
(* Things counted by a key of theirs are, all together, counted once.      *)
(***************************************************************************)
LEMMA CountedOnce ==
    ASSUME NEW D, IsFiniteSet(D), NEW key, NEW f, IsFiniteSet(DOMAIN f),
           \A d \in D : key[d] \in DOMAIN f,
           \A k \in DOMAIN f : f[k] = Cardinality({d \in D : key[d] = k})
    PROVE  SumFunction(f) = Cardinality(D)
<1>1. \A k \in DOMAIN f : f[k] \in Nat
  BY FS_Subset, FS_CardinalityType
<1>2. PICK g : Summing(f, g) /\ SumFunction(f) = g[DOMAIN f]
  BY SumUnfolds
<1>3. \A s \in SUBSET DOMAIN f : /\ g[s] \in Nat
                                 /\ s = {} => g[s] = 0
                                 /\ \A x \in s : g[s] = f[x] + g[s \ {x}]
  <2> SUFFICES ASSUME NEW s \in SUBSET DOMAIN f
               PROVE  /\ g[s] \in Nat
                      /\ s = {} => g[s] = 0
                      /\ \A x \in s : g[s] = f[x] + g[s \ {x}]
    OBVIOUS
  <2> QED
    BY <1>1, <1>2, AnyOrder
<1> DEFINE Of(s) == {d \in D : key[d] \in s}
           S == {n \in Nat : \A s \in SUBSET DOMAIN f :
                               Cardinality(s) = n => g[s] = Cardinality(Of(s))}
<1>4. 0 \in S
  <2>1. ASSUME NEW s \in SUBSET DOMAIN f, Cardinality(s) = 0
        PROVE  g[s] = Cardinality(Of(s))
    <3>1. s = {}
      BY <2>1, Sizes
    <3>2. Of(s) = {}
      BY <3>1
    <3> HIDE DEF Of
    <3> QED
      BY <1>3, <3>1, <3>2, FS_EmptySet
  <2> QED
    BY <2>1
<1>5. ASSUME NEW n \in Nat, n \in S
      PROVE  n + 1 \in S
  <2>1. ASSUME NEW s \in SUBSET DOMAIN f, Cardinality(s) = n + 1
        PROVE  g[s] = Cardinality(Of(s))
    <3>1. PICK x \in s : TRUE
      BY <2>1, FS_EmptySet
    <3> DEFINE these == {d \in D : key[d] = x}
               others == Of(s \ {x})
    <3>2. g[s \ {x}] = Cardinality(others)
      <4>1. s \ {x} \in SUBSET DOMAIN f /\ Cardinality(s \ {x}) = n
        BY <1>5, <2>1, TakeOut
      <4> HIDE DEF Of
      <4> QED
        BY <1>5, <4>1
    <3>3. Of(s) = these \cup others /\ these \cap others = {}
      OBVIOUS
    <3>4. IsFiniteSet(these) /\ IsFiniteSet(others)
      BY FS_Subset
    <3>5. f[x] = Cardinality(these)
      OBVIOUS
    <3>6. g[s] = f[x] + g[s \ {x}]
      BY <1>3
    <3> HIDE DEF these, others, Of
    <3>7. Cardinality(these \cup others) = Cardinality(these) + Cardinality(others)
      BY <3>3, <3>4, Disjoint
    <3> QED
      BY <3>2, <3>3, <3>5, <3>6, <3>7
  <2> QED
    BY <2>1
<1>6. Of(DOMAIN f) = D
  OBVIOUS
<1>7. Cardinality(DOMAIN f) \in S
  <2> HIDE DEF S
  <2>1. Cardinality(DOMAIN f) \in Nat
    BY FS_CardinalityType
  <2> QED
    BY <1>4, <1>5, <2>1, StepByStep
<1> HIDE DEF Of
<1> QED
  BY <1>2, <1>6, <1>7

\* The values of a function on a finite set are finitely many.
LEMMA ValuesFinite ==
    ASSUME NEW key, IsFiniteSet(DOMAIN key)
    PROVE  /\ IsFiniteSet({key[d] : d \in DOMAIN key})
           /\ Cardinality({key[d] : d \in DOMAIN key}) <= Cardinality(DOMAIN key)
<1> DEFINE K == {key[d] : d \in DOMAIN key}
           g == [d \in DOMAIN key |-> key[d]]
<1>1. g \in Surjection(DOMAIN key, K)
  BY DEF Surjection
<1> QED
  BY <1>1, FS_Surjection

\* Counts by a key that every counted thing has.
LEMMA CountSums ==
    ASSUME NEW key, IsFiniteSet(DOMAIN key)
    PROVE  SumFunction(Count(key)) = Cardinality(DOMAIN key)
<1> DEFINE f == Count(key)
           K == {key[d] : d \in DOMAIN key}
<1>1. IsFiniteSet(K)
  BY ValuesFinite
<1>2. /\ DOMAIN f = K
      /\ \A k \in DOMAIN f : f[k] = Cardinality({d \in DOMAIN key : key[d] = k})
      /\ \A d \in DOMAIN key : key[d] \in DOMAIN f
  BY DEF Count
<1> HIDE DEF f, K
<1>3. SumFunction(f) = Cardinality(DOMAIN key)
  BY <1>1, <1>2, CountedOnce
<1> QED
  BY <1>3 DEF f

-----------------------------------------------------------------------------

(***************************************************************************)
(* The invariant of a request: while nothing moved, the sections counted   *)
(* so far are those of the table as it is; the last one always is.         *)
(***************************************************************************)

CountedSections ==
    request.route = "statistics" =>
        /\ moved = 0 =>
              /\ request.at \in {"byChannel", "byStatus", "lifecycle", "answered"} =>
                    report.total = Cardinality(Sold)
              /\ request.at \in {"byStatus", "lifecycle", "answered"} =>
                    report.channels = Count([o \in Sold |-> table[o].channel])
              /\ request.at \in {"lifecycle", "answered"} =>
                    report.statuses = Count([o \in Sold |-> table[o].status])
        /\ request.at = "answered" => report.stages = Count([o \in Sample |-> SoldStage(o)])

\* A listing filtered by stage answers with orders of that stage.
PageOfStage ==
    request.at = "answered" /\ request.route = "admin" /\ request.stage # "any" =>
        \A o \in page : StageOf(o) = request.stage

ViewInvariant == ReadsInvariant /\ CountedSections /\ PageOfStage

LEMMA ViewInit == Init => ViewInvariant
<1>1. Init => CountedSections /\ PageOfStage
  BY DEF Init, NoRequest, CountedSections, PageOfStage
<1> QED
  BY <1>1, InitInvariant DEF ViewInvariant

\* A request that is passed on, or refused, has nothing counted.
LEMMA ViewAdvances ==
    ASSUME ViewInvariant, NEW from, NEW to \in {"read", "refused", "answered"},
           Advance(from, to), to = "answered" => request.route \in WriteRoute
    PROVE  CountedSections' /\ PageOfStage'
<1>1. request'.at = to /\ request'.route = request.route
  BY DEF ViewInvariant, ReadsInvariant, Shapes, Advance
<1> QED
  BY <1>1 DEF CountedSections, PageOfStage, WriteRoute

LEMMA ViewAnswers ==
    ASSUME ViewInvariant, NEW orders, Answer(orders), request.route # "statistics",
           request.route = "admin" => orders = Page
    PROVE  CountedSections' /\ PageOfStage'
<1>1. /\ request'.at = "answered" /\ request'.route = request.route
      /\ request'.stage = request.stage /\ page' = orders /\ table' = table
  BY DEF ViewInvariant, ReadsInvariant, Shapes, Answer
<1>2. ASSUME request.route = "admin", request.stage # "any", NEW o \in Page
      PROVE  StageOf(o) = request.stage
  BY <1>2 DEF Page, Newest
<1> QED
  BY <1>1, <1>2 DEF CountedSections, PageOfStage, StageOf

\* What is counted does not depend on how far the request is.
LEMMA SameSold ==
    ASSUME table' = table, request'.channel = request.channel
    PROVE  Sold' = Sold /\ Sample' = Sample /\ \A o : SoldStage(o)' = SoldStage(o)
BY DEF Sold, Sample, Newest, Stored, SoldStage

LEMMA ViewStep == ViewInvariant /\ [ViewNext]_vars => ViewInvariant'
<1> SUFFICES ASSUME ViewInvariant, [ViewNext]_vars
             PROVE  ViewInvariant'
  OBVIOUS
<1>r. ReadsInvariant'
  <2>1. CASE [Next]_vars
    BY <2>1, StepInvariant DEF ViewInvariant
  <2>2. CASE RefuseFilters \/ RefuseStatistics
    BY <2>2, AdvanceStep DEF ViewInvariant, RefuseFilters, RefuseStatistics
  <2> QED
    BY <2>1, <2>2 DEF ViewNext
<1>t. ReadsInvariant /\ Shapes /\ TypeOK
  BY DEF ViewInvariant, ReadsInvariant
<1>1. ASSUME Ask
      PROVE  CountedSections' /\ PageOfStage'
  BY <1>1 DEF Ask, CountedSections, PageOfStage
<1>2. ASSUME Unauthorized \/ Authorize \/ Forbid \/ RefuseFilters \/ RefuseStatistics
      PROVE  CountedSections' /\ PageOfStage'
  BY <1>2, ViewAdvances
     DEF Unauthorized, Authorize, Forbid, RefuseFilters, RefuseStatistics
<1>3. ASSUME ServeOrder \/ ServeItems \/ ServeShipments \/ ServePricing
      PROVE  CountedSections' /\ PageOfStage'
  BY <1>3, ViewAdvances DEF ServeOrder, ServeItems, ServeShipments, ServePricing, WriteRoute
<1>4. ASSUME CustomerLifecycle
      PROVE  CountedSections' /\ PageOfStage'
  BY <1>4, ViewAdvances, ViewAnswers DEF CustomerLifecycle
<1>5. ASSUME AdminLifecycle
      PROVE  CountedSections' /\ PageOfStage'
  BY <1>5, ViewAnswers DEF AdminLifecycle
<1>6. ASSUME FindAll
      PROVE  CountedSections' /\ PageOfStage'
  BY <1>6, ViewAnswers DEF FindAll
<1>7. ASSUME FindOne
      PROVE  CountedSections' /\ PageOfStage'
  BY <1>7, ViewAdvances, ViewAnswers DEF FindOne
<1>8. ASSUME FindParts
      PROVE  CountedSections' /\ PageOfStage'
  BY <1>8, ViewAnswers DEF FindParts
<1>9. ASSUME CountTotals \/ CountByChannel \/ CountByStatus \/ CountByStage
      PROVE  CountedSections' /\ PageOfStage'
  <2>1. /\ request'.route = "statistics" /\ request.route = "statistics"
        /\ table' = table /\ request'.channel = request.channel
    BY <1>9, <1>t
       DEF CountTotals, CountByChannel, CountByStatus, CountByStage, Continue, Shapes,
           ReadsInvariant, Progress, CountingAt
  <2>2. Sold' = Sold /\ Sample' = Sample /\ \A o : SoldStage(o)' = SoldStage(o)
    BY <2>1, SameSold
  <2>3. PageOfStage'
    BY <2>1 DEF PageOfStage
  <2>4. CASE CountTotals
    <3>1. request'.at = "byChannel" /\ report'.total = Cardinality(Sold)
      BY <1>t, <2>4 DEF CountTotals, Continue, Shapes, NoReport
    <3> QED
      BY <2>2, <2>3, <3>1 DEF CountedSections
  <2>5. CASE CountByChannel
    <3>1. /\ request.at = "byChannel" /\ request'.at = "byStatus"
          /\ report'.total = report.total /\ moved' = moved
          /\ report'.channels = Count([o \in Sold |-> table[o].channel])
      BY <1>t, <2>5 DEF CountByChannel, Continue, Shapes
    <3> QED
      BY <2>1, <2>2, <2>3, <3>1 DEF CountedSections, ViewInvariant
  <2>6. CASE CountByStatus
    <3>1. /\ request.at = "byStatus" /\ request'.at = "lifecycle"
          /\ report'.total = report.total /\ moved' = moved
          /\ report'.channels = report.channels
          /\ report'.statuses = Count([o \in Sold |-> table[o].status])
      BY <1>t, <2>6 DEF CountByStatus, Continue, Shapes
    <3> QED
      BY <2>1, <2>2, <2>3, <3>1 DEF CountedSections, ViewInvariant
  <2>7. CASE CountByStage
    <3>1. /\ request.at = "lifecycle" /\ request'.at = "answered"
          /\ report'.total = report.total /\ moved' = moved
          /\ report'.channels = report.channels
          /\ report'.statuses = report.statuses
          /\ report'.stages = Count([o \in Sample |-> SoldStage(o)])
      BY <1>t, <2>7 DEF CountByStage, Continue, Shapes
    <3> QED
      BY <2>1, <2>2, <2>3, <3>1 DEF CountedSections, ViewInvariant
  <2> QED
    BY <1>9, <2>4, <2>5, <2>6, <2>7
<1>10. ASSUME Done
       PROVE  CountedSections' /\ PageOfStage'
  BY <1>10 DEF Done, NoRequest, CountedSections, PageOfStage
<1>11. ASSUME Meanwhile
       PROVE  CountedSections' /\ PageOfStage'
  <2>1. request' = request /\ request.at \notin {"answered", "refused"} /\ moved \in Nat
    BY <1>11, <1>t DEF Meanwhile, TypeOK
  <2>2. Counting => moved' # 0
    BY <1>11, <2>1 DEF Meanwhile
  <2> QED
    BY <2>1, <2>2 DEF CountedSections, PageOfStage, Counting
<1>12. CASE UNCHANGED vars
  <2>1. Sold' = Sold /\ Sample' = Sample /\ \A o : SoldStage(o)' = SoldStage(o)
    BY <1>12, SameSold DEF vars
  <2> QED
    BY <1>r, <1>12, <2>1 DEF vars, ViewInvariant, CountedSections, PageOfStage, StageOf
<1> QED
  BY <1>r, <1>1, <1>2, <1>3, <1>4, <1>5, <1>6, <1>7, <1>8, <1>9, <1>10, <1>11, <1>12
     DEF ViewNext, Next, ViewInvariant, Place, Change

LEMMA ViewHolds == ViewSpec => []ViewInvariant
BY ViewInit, ViewStep, PTL DEF ViewSpec

-----------------------------------------------------------------------------

(***************************************************************************)
(* The statistics.                                                         *)
(***************************************************************************)

\* All of some orders are the newest n when there are no more.
LEMMA NewestOfFew ==
    ASSUME NEW orders, NEW last, Orderly(orders, last), NEW n \in Nat, Cardinality(orders) < n
    PROVE  Newest(orders, n) = orders
<1>1. ASSUME NEW o \in orders
      PROVE  Cardinality({p \in orders : p > o}) < n
  <2> DEFINE T == {p \in orders : p > o}
  <2>1. T \in SUBSET orders
    OBVIOUS
  <2> HIDE DEF T
  <2>2. /\ Cardinality(T) \in Nat /\ Cardinality(orders) \in Nat
        /\ Cardinality(T) <= Cardinality(orders)
    BY <2>1, OrdersFinite
  <2> QED
    BY <2>2 DEF T
<1> QED
  BY <1>1 DEF Newest

LEMMA SoldIsOrderly ==
    ASSUME table \in Seq(Order)
    PROVE  /\ Orderly(Sold, Len(table))
           /\ IsFiniteSet(Sold)
           /\ Cardinality(Sold) \in Nat
           /\ Sample = Newest(Sold, SampleLimit)
           /\ Sample \subseteq Sold
           /\ IsFiniteSet(Sample)
<1>1. Sold \subseteq 1 .. Len(table) /\ Len(table) \in Nat
  BY DEF Sold, Stored
<1>2. Orderly(Sold, Len(table))
  BY <1>1 DEF Orderly
<1>3. Sample = Newest(Sold, SampleLimit)
  BY DEF Sample, Sold
<1>4. Sample \subseteq Sold
  BY <1>3 DEF Newest
<1> QED
  BY <1>2, <1>3, <1>4, OrdersFinite, FS_Subset

LEMMA StatisticsFollow ==
    ASSUME ViewInvariant
    PROVE  StatisticsAgree
<1> SUFFICES ASSUME request.at = "answered", request.route = "statistics", moved = 0
             PROVE  /\ SumFunction(report.channels) = report.total
                    /\ SumFunction(report.statuses) = report.total
                    /\ SumFunction(report.stages) =
                          IF report.total < SampleLimit THEN report.total ELSE SampleLimit
  BY DEF StatisticsAgree
<1>1. /\ report.total = Cardinality(Sold)
      /\ report.channels = Count([o \in Sold |-> table[o].channel])
      /\ report.statuses = Count([o \in Sold |-> table[o].status])
      /\ report.stages = Count([o \in Sample |-> SoldStage(o)])
  BY DEF ViewInvariant, CountedSections
<1>2. /\ Orderly(Sold, Len(table))
      /\ IsFiniteSet(Sold) /\ Cardinality(Sold) \in Nat
      /\ Sample = Newest(Sold, SampleLimit) /\ IsFiniteSet(Sample)
  BY SoldIsOrderly DEF ViewInvariant, ReadsInvariant, TypeOK
<1>3. SumFunction(report.channels) = report.total
  <2> DEFINE key == [o \in Sold |-> table[o].channel]
  <2>1. DOMAIN key = Sold
    OBVIOUS
  <2> HIDE DEF key
  <2> QED
    BY <1>1, <1>2, <2>1, CountSums DEF key
<1>4. SumFunction(report.statuses) = report.total
  <2> DEFINE key == [o \in Sold |-> table[o].status]
  <2>1. DOMAIN key = Sold
    OBVIOUS
  <2> HIDE DEF key
  <2> QED
    BY <1>1, <1>2, <2>1, CountSums DEF key
<1>5. SumFunction(report.stages) = Cardinality(Sample)
  <2> DEFINE key == [o \in Sample |-> SoldStage(o)]
  <2>1. DOMAIN key = Sample
    OBVIOUS
  <2> HIDE DEF key
  <2> QED
    BY <1>1, <1>2, <2>1, CountSums DEF key
<1>6. Cardinality(Sample) =
         IF Cardinality(Sold) < SampleLimit THEN Cardinality(Sold) ELSE SampleLimit
  <2>1. SampleLimit \in Nat
    BY ReadsAssumption
  <2>2. CASE Cardinality(Sold) < SampleLimit
    BY <1>2, <2>1, <2>2, NewestOfFew
  <2>3. CASE ~(Cardinality(Sold) < SampleLimit)
    BY <1>2, <2>1, <2>3, NewestSize
  <2> QED
    BY <2>2, <2>3
<1> QED
  BY <1>1, <1>3, <1>4, <1>5, <1>6

\* What is tallied by channel is tallied once of all.
LEMMA ByChannel ==
    ASSUME NEW D \in SUBSET Sample, IsFiniteSet(Sample), NEW f,
           DOMAIN f = {table[o].channel : o \in Sample},
           \A c \in DOMAIN f : f[c] = Cardinality({o \in D : table[o].channel = c})
    PROVE  Cardinality(D) = SumFunction(f)
<1> DEFINE key == [o \in Sample |-> table[o].channel]
<1>1. IsFiniteSet(DOMAIN f)
  <2>1. DOMAIN f = {key[o] : o \in DOMAIN key} /\ DOMAIN key = Sample
    OBVIOUS
  <2> HIDE DEF key
  <2> QED
    BY <2>1, ValuesFinite
<1>2. IsFiniteSet(D)
  BY FS_Subset
<1>3. /\ \A o \in D : key[o] \in DOMAIN f
      /\ \A c \in DOMAIN f : f[c] = Cardinality({o \in D : key[o] = c})
  <2>1. \A o \in D : key[o] = table[o].channel
    OBVIOUS
  <2>2. \A c : {o \in D : key[o] = c} = {o \in D : table[o].channel = c}
    BY <2>1
  <2> HIDE DEF key
  <2> QED
    BY <2>1, <2>2
<1> HIDE DEF key
<1> QED
  BY <1>1, <1>2, <1>3, CountedOnce

LEMMA TalliesFollow ==
    ASSUME ViewInvariant
    PROVE  TalliesAgree
<1> DEFINE all == Tally(Sample)
           rows == ChannelLifecycle
           Of(c) == {o \in Sample : table[o].channel = c}
<1> SUFFICES ASSUME request.at = "answered", request.route = "statistics"
             PROVE  /\ all.stages = report.stages
                    /\ all.notReceived = SumFunction([c \in DOMAIN rows |-> rows[c].notReceived])
                    /\ all.returned = SumFunction([c \in DOMAIN rows |-> rows[c].returned])
                    /\ all.unfulfilled = SumFunction([c \in DOMAIN rows |-> rows[c].unfulfilled])
                    /\ moved = 0 => /\ DOMAIN rows \subseteq DOMAIN report.channels
                                    /\ Summary.orders = report.total
  BY DEF TalliesAgree
<1>1. /\ IsFiniteSet(Sold) /\ IsFiniteSet(Sample) /\ Sample \subseteq Sold
  BY SoldIsOrderly DEF ViewInvariant, ReadsInvariant, TypeOK
<1>2. /\ DOMAIN rows = {table[o].channel : o \in Sample}
      /\ \A c \in DOMAIN rows : rows[c] = Tally(Of(c))
  BY DEF ChannelLifecycle
<1>3. \A orders :
         /\ Tally(orders).notReceived = Cardinality({o \in orders : SoldStage(o) = "not_received"})
         /\ Tally(orders).returned = Cardinality({o \in orders : SoldStage(o) = "returned"})
         /\ Tally(orders).unfulfilled = Cardinality({o \in orders : SoldStage(o) \in Unfulfilled})
  BY DEF Tally, Quantify
<1> HIDE DEF rows, all
<1>4. all.notReceived = SumFunction([c \in DOMAIN rows |-> rows[c].notReceived])
  <2> DEFINE D == {o \in Sample : SoldStage(o) = "not_received"}
             f == [c \in DOMAIN rows |-> rows[c].notReceived]
  <2>1. ASSUME NEW c \in DOMAIN f
        PROVE  f[c] = Cardinality({o \in D : table[o].channel = c})
    <3>1. {o \in D : table[o].channel = c} = {o \in Of(c) : SoldStage(o) = "not_received"}
      OBVIOUS
    <3> QED
      BY <1>2, <1>3, <3>1
  <2>2. DOMAIN f = {table[o].channel : o \in Sample} /\ D \in SUBSET Sample
    BY <1>2
  <2>3. all.notReceived = Cardinality(D)
    BY <1>3 DEF all
  <2> HIDE DEF f, D
  <2>4. Cardinality(D) = SumFunction(f)
    BY <1>1, <2>1, <2>2, ByChannel
  <2> QED
    BY <2>3, <2>4 DEF f
<1>5. all.returned = SumFunction([c \in DOMAIN rows |-> rows[c].returned])
  <2> DEFINE D == {o \in Sample : SoldStage(o) = "returned"}
             f == [c \in DOMAIN rows |-> rows[c].returned]
  <2>1. ASSUME NEW c \in DOMAIN f
        PROVE  f[c] = Cardinality({o \in D : table[o].channel = c})
    <3>1. {o \in D : table[o].channel = c} = {o \in Of(c) : SoldStage(o) = "returned"}
      OBVIOUS
    <3> QED
      BY <1>2, <1>3, <3>1
  <2>2. DOMAIN f = {table[o].channel : o \in Sample} /\ D \in SUBSET Sample
    BY <1>2
  <2>3. all.returned = Cardinality(D)
    BY <1>3 DEF all
  <2> HIDE DEF f, D
  <2>4. Cardinality(D) = SumFunction(f)
    BY <1>1, <2>1, <2>2, ByChannel
  <2> QED
    BY <2>3, <2>4 DEF f
<1>6. all.unfulfilled = SumFunction([c \in DOMAIN rows |-> rows[c].unfulfilled])
  <2> DEFINE D == {o \in Sample : SoldStage(o) \in Unfulfilled}
             f == [c \in DOMAIN rows |-> rows[c].unfulfilled]
  <2>1. ASSUME NEW c \in DOMAIN f
        PROVE  f[c] = Cardinality({o \in D : table[o].channel = c})
    <3>1. {o \in D : table[o].channel = c} = {o \in Of(c) : SoldStage(o) \in Unfulfilled}
      OBVIOUS
    <3> QED
      BY <1>2, <1>3, <3>1
  <2>2. DOMAIN f = {table[o].channel : o \in Sample} /\ D \in SUBSET Sample
    BY <1>2
  <2>3. all.unfulfilled = Cardinality(D)
    BY <1>3 DEF all
  <2> HIDE DEF f, D
  <2>4. Cardinality(D) = SumFunction(f)
    BY <1>1, <2>1, <2>2, ByChannel
  <2> QED
    BY <2>3, <2>4 DEF f
<1>7. all.stages = report.stages
  BY DEF all, Tally, ViewInvariant, CountedSections
<1>8. ASSUME moved = 0
      PROVE  DOMAIN rows \subseteq DOMAIN report.channels
  <2>1. report.channels = Count([o \in Sold |-> table[o].channel])
    BY <1>8 DEF ViewInvariant, CountedSections
  <2>2. DOMAIN report.channels = {table[o].channel : o \in Sold}
    BY <2>1 DEF Count
  <2> QED
    BY <1>1, <1>2, <2>2
<1>9. ASSUME moved = 0
      PROVE  Summary.orders = report.total
  <2> DEFINE K == {Money[o].currency : o \in Sold}
             key == [o \in Sold |-> Money[o].currency]
             f == [c \in DOMAIN SalesByCurrency |-> SalesByCurrency[c].orders]
  <2>1. IsFiniteSet(K)
    <3>1. K = {key[o] : o \in DOMAIN key} /\ DOMAIN key = Sold
      OBVIOUS
    <3> HIDE DEF K, key
    <3> QED
      BY <1>1, <3>1, ValuesFinite
  <2>2. DOMAIN f = K /\ \A c \in K : f[c] = Cardinality({o \in Sold : Money[o].currency = c})
    BY DEF SalesByCurrency
  <2>3. \A c : {o \in Sold : Money[o].currency = c} = {o \in Sold : key[o] = c}
    OBVIOUS
  <2>4. \A o \in Sold : key[o] \in K
    OBVIOUS
  <2>5. Summary.orders = SumFunction(f)
    BY DEF Summary
  <2> HIDE DEF K, key, f
  <2>6. /\ IsFiniteSet(DOMAIN f)
        /\ \A o \in Sold : key[o] \in DOMAIN f
        /\ \A c \in DOMAIN f : f[c] = Cardinality({o \in Sold : key[o] = c})
    BY <2>1, <2>2, <2>3, <2>4
  <2>7. SumFunction(f) = Cardinality(Sold)
    BY <1>1, <2>6, CountedOnce
  <2> QED
    BY <1>9, <2>5, <2>7 DEF ViewInvariant, CountedSections
<1> QED
  BY <1>4, <1>5, <1>6, <1>7, <1>8, <1>9 DEF all, rows

-----------------------------------------------------------------------------

(***************************************************************************)
(* The views of orders and their aggregates.                               *)
(***************************************************************************)

LEMMA PageIsStored ==
    ASSUME ViewInvariant
    PROVE  /\ IsFiniteSet(page)
           /\ \A o \in page : table[o] \in Order /\ StageOf(o) \in Stage
<1>1. table \in Seq(Order) /\ page \subseteq Stored
  BY DEF ViewInvariant, ReadsInvariant, TypeOK
<1>2. IsFiniteSet(Stored) /\ \A o \in Stored : table[o] \in Order
  BY <1>1, StoredOrders
<1>3. IsFiniteSet(page)
  BY <1>1, <1>2, FS_Subset
<1> QED
  BY <1>1, <1>2, <1>3, StageType DEF StageOf

\* What has left the warehouse is shipped or beyond.
LEMMA ProjectionFits ==
    ASSUME NEW stage \in Stage, NEW order
    PROVE  /\ Projection[stage] \in {"shipped", "delivered"} <=>
                  DeliveryView(stage) \notin {"not_started", "returned"}
           /\ FulfillmentView(stage, order) = "fulfilled" => DeliveryView(stage) # "not_started"
<1>1. Projection[stage] \in {"shipped", "delivered"} <=>
          stage \in {"handed_to_delivery", "in_delivery", "not_received", "received"}
  BY DEF Projection, Stage
<1>2. FulfillmentView(stage, order) = "fulfilled" =>
          stage \in {"handed_to_delivery", "in_delivery", "received"}
  BY DEF FulfillmentView, Stage
<1> QED
  BY <1>1, <1>2 DEF DeliveryView

\* A sequence of stages, none twice, and the last of them.
Story(seq, last, stages) ==
    /\ seq \in Seq(Stage)
    /\ Len(seq) > 0
    /\ \A i, j \in DOMAIN seq : seq[i] = seq[j] => i = j
    /\ seq[Len(seq)] = last
    /\ stages = {seq[i] : i \in DOMAIN seq}

LEMMA StoryGoesOn ==
    ASSUME NEW seq, NEW last, NEW stages, Story(seq, last, stages), NEW c \in Stage \ stages
    PROVE  /\ Story(Append(seq, c), c, stages \cup {c})
           /\ Story(seq \o <<c>>, c, stages \cup {c})
<1> DEFINE longer == Append(seq, c)
<1>1. seq \in Seq(Stage) /\ Len(seq) \in Nat /\ DOMAIN seq = 1 .. Len(seq)
  BY DEF Story
<1>2. /\ longer \in Seq(Stage)
      /\ Len(longer) = Len(seq) + 1
      /\ DOMAIN longer = 1 .. Len(seq) + 1
      /\ longer[Len(seq) + 1] = c
      /\ \A i \in 1 .. Len(seq) : longer[i] = seq[i]
      /\ seq \o <<c>> = longer
  BY <1>1
<1> HIDE DEF longer
<1>3. \A i \in DOMAIN longer : i \in DOMAIN seq \/ i = Len(seq) + 1
  BY <1>1, <1>2
<1>4. {longer[i] : i \in DOMAIN longer} = stages \cup {c}
  BY <1>1, <1>2, <1>3 DEF Story
<1>5. ASSUME NEW i \in DOMAIN longer, NEW j \in DOMAIN longer, longer[i] = longer[j]
      PROVE  i = j
  <2>1. \A k \in DOMAIN seq : longer[k] = seq[k] /\ seq[k] # c
    BY <1>1, <1>2 DEF Story
  <2> QED
    BY <1>2, <1>3, <1>5, <2>1 DEF Story
<1>6. Story(longer, c, stages \cup {c})
  BY <1>1, <1>2, <1>4, <1>5 DEF Story
<1> QED
  BY <1>2, <1>6 DEF longer

\* A stage derived from a row is the last one its timeline gives evidence of, or
\* one the timeline adds.
LEMMA TimelineEnds ==
    ASSUME NEW order \in Order
    PROVE  LET stage == DeriveStage(order, order.items)
               timeline == Timeline(stage, order)
           IN  /\ \A i, j \in DOMAIN timeline : timeline[i] = timeline[j] => i = j
               /\ (order.handoff = "fulfilled" => order.payment = "paid")
                      => timeline[Len(timeline)] = stage
<1> DEFINE stage == DeriveStage(order, order.items)
           start == <<"ordered_unpaid">>
           paid == start \o (IF order.payment = "paid" THEN <<"paid_not_delivered">> ELSE <<>>)
           known == paid \o (IF order.handoff = "fulfilled"
                             THEN <<"warehouse_fulfillment_requested">> ELSE <<>>)
           timeline == Timeline(stage, order)
           paidStages == {"ordered_unpaid"} \cup
                             (IF order.payment = "paid" THEN {"paid_not_delivered"} ELSE {})
           paidLast == IF order.payment = "paid" THEN "paid_not_delivered" ELSE "ordered_unpaid"
           knownStages == paidStages \cup (IF order.handoff = "fulfilled"
                                           THEN {"warehouse_fulfillment_requested"} ELSE {})
           knownLast == IF order.handoff = "fulfilled"
                        THEN "warehouse_fulfillment_requested" ELSE paidLast
<1>s. {"ordered_unpaid", "paid_not_delivered", "warehouse_fulfillment_requested"} \subseteq Stage
      /\ stage \in Stage
  BY StageType DEF Stage
<1>1. Story(start, "ordered_unpaid", {"ordered_unpaid"})
  <2>1. /\ start \in Seq(Stage) /\ Len(start) = 1
        /\ start[1] = "ordered_unpaid" /\ DOMAIN start = 1 .. 1
    BY <1>s
  <2> HIDE DEF start
  <2> QED
    BY <2>1 DEF Story
<1> HIDE DEF start
<1>2. \A seq, last, stages : Story(seq, last, stages) => seq \o <<>> = seq
  BY DEF Story
<1>3. Story(paid, paidLast, paidStages)
  <2>1. CASE order.payment = "paid"
    BY <1>s, <1>1, <2>1, StoryGoesOn
  <2>2. CASE order.payment # "paid"
    BY <1>1, <1>2, <2>2
  <2> QED
    BY <2>1, <2>2
<1>4. "warehouse_fulfillment_requested" \notin paidStages
  OBVIOUS
<1> HIDE DEF paid
<1>5. Story(known, knownLast, knownStages)
  <2>1. CASE order.handoff = "fulfilled"
    <3> HIDE DEF paidStages, paidLast
    <3> QED
      BY <1>s, <1>3, <1>4, <2>1, StoryGoesOn
  <2>2. CASE order.handoff # "fulfilled"
    BY <1>2, <1>3, <2>2
  <2> QED
    BY <2>1, <2>2
<1>6. /\ order.payment = "paid" => stage # "ordered_unpaid"
      /\ order.payment = "paid" /\ order.handoff = "fulfilled" => stage # "paid_not_delivered"
      /\ order.payment # "paid" => stage # "paid_not_delivered"
  <2>1. \A f \in FulfillmentStatus :
           FulfillmentStage[f] \notin {"ordered_unpaid", "paid_not_delivered"}
    BY DEF FulfillmentStage, FulfillmentStatus
  <2>2. order.fulfillment \in FulfillmentStatus \cup {"none"}
    BY DEF Order
  <2> QED
    BY <2>1, <2>2 DEF DeriveStage
<1>7. timeline = IF \E i \in DOMAIN known : known[i] = stage THEN known ELSE Append(known, stage)
  BY DEF Timeline, known, paid, start
<1>8. (\E i \in DOMAIN known : known[i] = stage) <=> stage \in knownStages
  <2> HIDE DEF knownStages, known
  <2> QED
    BY <1>5 DEF Story
<1>9. (order.handoff = "fulfilled" => order.payment = "paid") /\ stage \in knownStages
          => knownLast = stage
  BY <1>6
<1> HIDE DEF timeline, known, stage, knownStages, knownLast
<1>10. CASE stage \in knownStages
  BY <1>5, <1>7, <1>8, <1>9, <1>10 DEF Story, timeline, stage
<1>11. CASE stage \notin knownStages
  <2>1. Story(timeline, stage, knownStages \cup {stage})
    BY <1>s, <1>5, <1>7, <1>8, <1>11, StoryGoesOn
  <2> QED
    BY <2>1 DEF Story, timeline, stage
<1> QED
  BY <1>10, <1>11

LEMMA AggregatesFollow ==
    ASSUME ViewInvariant, request.at = "answered", request.route = "admin"
    PROVE  /\ SumFunction(Aggregates.stages) = Aggregates.total
           /\ SumFunction(Aggregates.deliveries) = Aggregates.total
           /\ \A e \in ExceptionStages : Aggregates.exceptions[e] = At(Aggregates.stages, e)
           /\ \A s \in {"received", "not_received", "returned"} :
                 At(Aggregates.deliveries, s) = At(Aggregates.stages, s)
           /\ SumFunction([c \in DOMAIN Aggregates.currencies |-> Aggregates.currencies[c].orders])
                 = Aggregates.total
           /\ request.stage # "any" => DOMAIN Aggregates.stages \subseteq {request.stage}
<1> DEFINE stages == Aggregates.stages
           deliveries == Aggregates.deliveries
           stageOf == [o \in page |-> View(o).stage]
           deliveryOf == [o \in page |-> View(o).delivery]
           currencyOf == [o \in page |-> Money[o].currency]
           With(s) == {o \in page : StageOf(o) = s}
<1>1. IsFiniteSet(page)
  BY PageIsStored
<1>2. \A o : View(o).stage = StageOf(o) /\ View(o).delivery = DeliveryView(StageOf(o))
  BY DEF View
<1>3. /\ Aggregates.total = Cardinality(page)
      /\ stages = Count(stageOf)
      /\ deliveries = Count(deliveryOf)
      /\ \A e \in ExceptionStages :
            Aggregates.exceptions[e] = Cardinality({o \in page : View(o).stage = e})
      /\ Aggregates.currencies = TotalsByCurrency(page)
  BY DEF Aggregates, Quantify
<1>4. /\ DOMAIN stageOf = page /\ \A o \in page : stageOf[o] = StageOf(o)
      /\ DOMAIN deliveryOf = page /\ \A o \in page : deliveryOf[o] = DeliveryView(StageOf(o))
      /\ DOMAIN currencyOf = page /\ \A o \in page : currencyOf[o] = Money[o].currency
  BY <1>2
<1> HIDE DEF stageOf, deliveryOf, currencyOf, stages, deliveries
<1>5. SumFunction(stages) = Cardinality(page) /\ SumFunction(deliveries) = Cardinality(page)
  BY <1>1, <1>3, <1>4, CountSums
<1>6. \A s : At(stages, s) = Cardinality(With(s))
  <2> SUFFICES ASSUME NEW s
               PROVE  At(stages, s) = Cardinality(With(s))
    OBVIOUS
  <2>1. DOMAIN stages = {stageOf[o] : o \in page}
    BY <1>3, <1>4 DEF Count
  <2>2. \A k \in DOMAIN stages : stages[k] = Cardinality({o \in page : stageOf[o] = k})
    BY <1>3, <1>4 DEF Count
  <2>3. With(s) = {o \in page : stageOf[o] = s}
    BY <1>4
  <2>4. CASE s \in DOMAIN stages
    BY <2>2, <2>3, <2>4 DEF At
  <2>5. CASE s \notin DOMAIN stages
    <3>1. With(s) = {}
      BY <1>4, <2>1, <2>5
    <3> HIDE DEF With
    <3> QED
      BY <2>5, <3>1, FS_EmptySet DEF At
  <2> QED
    BY <2>4, <2>5
<1>7. \A s \in {"received", "not_received", "returned"} : At(deliveries, s) = Cardinality(With(s))
  <2> SUFFICES ASSUME NEW s \in {"received", "not_received", "returned"}
               PROVE  At(deliveries, s) = Cardinality(With(s))
    OBVIOUS
  <2>1. DOMAIN deliveries = {deliveryOf[o] : o \in page}
    BY <1>3, <1>4 DEF Count
  <2>2. \A k \in DOMAIN deliveries : deliveries[k] = Cardinality({o \in page : deliveryOf[o] = k})
    BY <1>3, <1>4 DEF Count
  <2>3. \A o \in page : deliveryOf[o] = s <=> StageOf(o) = s
    BY <1>4 DEF DeliveryView
  <2>4. With(s) = {o \in page : deliveryOf[o] = s}
    BY <2>3
  <2>5. CASE s \in DOMAIN deliveries
    BY <2>2, <2>4, <2>5 DEF At
  <2>6. CASE s \notin DOMAIN deliveries
    <3>1. With(s) = {}
      BY <2>1, <2>4, <2>6
    <3> HIDE DEF With
    <3> QED
      BY <2>6, <3>1, FS_EmptySet DEF At
  <2> QED
    BY <2>5, <2>6
<1>8. \A e \in ExceptionStages : Aggregates.exceptions[e] = At(stages, e)
  <2>1. \A e : {o \in page : View(o).stage = e} = With(e)
    BY <1>2
  <2> HIDE DEF With
  <2> QED
    BY <1>3, <1>6, <2>1
<1>9. SumFunction([c \in DOMAIN Aggregates.currencies |-> Aggregates.currencies[c].orders])
          = Cardinality(page)
  <2> DEFINE f == [c \in DOMAIN Aggregates.currencies |-> Aggregates.currencies[c].orders]
             K == {currencyOf[o] : o \in page}
  <2>1. K = {Money[o].currency : o \in page}
    BY <1>4
  <2>2. \A c : {o \in page : Money[o].currency = c} = {o \in page : currencyOf[o] = c}
    BY <1>4
  <2>3. DOMAIN f = K /\ \A c \in K : f[c] = Cardinality({o \in page : Money[o].currency = c})
    <3> DEFINE totals == TotalsByCurrency(page)
    <3>1. DOMAIN totals = {Money[o].currency : o \in page}
      BY DEF TotalsByCurrency
    <3>2. \A c \in DOMAIN totals :
             totals[c].orders = Cardinality({o \in page : Money[o].currency = c})
      BY DEF TotalsByCurrency
    <3> HIDE DEF totals, K
    <3> QED
      BY <1>3, <2>1, <3>1, <3>2 DEF totals
  <2>4. IsFiniteSet(K)
    BY <1>1, <1>4, ValuesFinite
  <2>5. \A o \in page : currencyOf[o] \in K
    OBVIOUS
  <2> HIDE DEF f, K
  <2>6. /\ IsFiniteSet(DOMAIN f)
        /\ \A o \in page : currencyOf[o] \in DOMAIN f
        /\ \A c \in DOMAIN f : f[c] = Cardinality({o \in page : currencyOf[o] = c})
    BY <2>2, <2>3, <2>4, <2>5
  <2>7. SumFunction(f) = Cardinality(page)
    BY <1>1, <2>6, CountedOnce
  <2> QED
    BY <2>7 DEF f
<1>10. request.stage # "any" => DOMAIN stages \subseteq {request.stage}
  <2>1. DOMAIN stages = {stageOf[o] : o \in page}
    BY <1>3, <1>4 DEF Count
  <2>2. request.stage # "any" => \A o \in page : StageOf(o) = request.stage
    BY DEF ViewInvariant, PageOfStage
  <2> QED
    BY <1>4, <2>1, <2>2
<1> QED
  BY <1>3, <1>5, <1>6, <1>7, <1>8, <1>9, <1>10 DEF stages, deliveries

LEMMA ViewsFollow ==
    ASSUME ViewInvariant
    PROVE  ViewsAgree
<1>1. ASSUME NEW o \in page
      PROVE  LET view == View(o)
                 timeline == view.timeline
             IN  /\ \A i, j \in DOMAIN timeline : timeline[i] = timeline[j] => i = j
                 /\ (table[o].handoff = "fulfilled" => table[o].payment = "paid")
                        => timeline[Len(timeline)] = view.stage
                 /\ view.projection \in {"shipped", "delivered"} <=>
                        view.delivery \notin {"not_started", "returned"}
                 /\ view.fulfillment = "fulfilled" => view.delivery # "not_started"
  <2>1. table[o] \in Order /\ StageOf(o) \in Stage
    BY PageIsStored
  <2>2. /\ View(o).stage = StageOf(o)
        /\ View(o).projection = Projection[StageOf(o)]
        /\ View(o).fulfillment = FulfillmentView(StageOf(o), table[o])
        /\ View(o).delivery = DeliveryView(StageOf(o))
        /\ View(o).timeline = Timeline(StageOf(o), table[o])
    BY DEF View
  <2>3. /\ \A i, j \in DOMAIN View(o).timeline :
              View(o).timeline[i] = View(o).timeline[j] => i = j
        /\ (table[o].handoff = "fulfilled" => table[o].payment = "paid")
              => View(o).timeline[Len(View(o).timeline)] = StageOf(o)
    BY <2>1, <2>2, TimelineEnds DEF StageOf
  <2>4. /\ View(o).projection \in {"shipped", "delivered"} <=>
              View(o).delivery \notin {"not_started", "returned"}
        /\ View(o).fulfillment = "fulfilled" => View(o).delivery # "not_started"
    BY <2>1, <2>2, ProjectionFits
  <2> QED
    BY <2>2, <2>3, <2>4
<1> QED
  BY <1>1, AggregatesFollow DEF ViewsAgree

(***************************************************************************)
(* getProductSalesStatistics, serializeOrderLifecycleReadModel and         *)
(* buildLifecycleAggregates: what one answer says in several places        *)
(* agrees, for every table, caller, filter and sample, and although the    *)
(* statistics are counted by four queries in no transaction.               *)
(***************************************************************************)
THEOREM ReportsSound == ViewSpec => []ReportsAgree
<1>1. ViewInvariant => ReportsAgree
  BY StatisticsFollow, TalliesFollow, ViewsFollow DEF ReportsAgree
<1> QED
  BY <1>1, ViewHolds, PTL

-----------------------------------------------------------------------------

(***************************************************************************)
(* The administrators' reports.  A request's queries see a table that only *)
(* grows, and whose orders keep their identities.                          *)
(***************************************************************************)

AdminStatus == {"pending", "confirmed"} \cup ActionStatuses

Entry == [key : AdminKeys, status : AdminStatus, items : {<<"pending">>}]

AdminRow(n) == [id |-> n, key |-> book[n].key, status |-> book[n].status]

AdminRows(orders) == {AdminRow(n) : n \in orders}

BookSound ==
    /\ book \in Seq(Entry)
    /\ \A m, n \in DOMAIN book : book[m].key = book[n].key => m = n

\* What a later moment has of an earlier one.
Grows ==
    /\ Len(book) <= Len(book')
    /\ \A n \in DOMAIN book : n \in DOMAIN book' /\ book'[n].key = book[n].key

LEMMA BookFinite ==
    ASSUME BookSound
    PROVE  /\ DOMAIN book = 1 .. Len(book) /\ Len(book) \in Nat
           /\ IsFiniteSet(DOMAIN book) /\ Cardinality(DOMAIN book) = Len(book)
           /\ \A n \in DOMAIN book : book[n] \in Entry
           /\ \A orders \in SUBSET DOMAIN book :
                 /\ Orderly(orders, Len(book))
                 /\ IsFiniteSet(orders)
                 /\ Cardinality(orders) \in 0 .. Len(book)
<1>1. DOMAIN book = 1 .. Len(book) /\ Len(book) \in Nat
  BY DEF BookSound
<1>2. IsFiniteSet(1 .. Len(book)) /\ Cardinality(1 .. Len(book)) = Len(book)
  <2> DEFINE n == Len(book)
  <2>1. n \in Nat /\ n \in Int /\ 1 \in Int
    BY <1>1
  <2> HIDE DEF n
  <2>2. IsFiniteSet(1 .. n) /\ Cardinality(1 .. n) = IF 1 > n THEN 0 ELSE n - 1 + 1
    BY <2>1, FS_Interval
  <2> QED
    BY <2>1, <2>2 DEF n
<1>3. \A n \in DOMAIN book : book[n] \in Entry
  BY DEF BookSound
<1>4. ASSUME NEW orders \in SUBSET DOMAIN book
      PROVE  /\ Orderly(orders, Len(book))
             /\ IsFiniteSet(orders)
             /\ Cardinality(orders) \in 0 .. Len(book)
  <2>1. /\ IsFiniteSet(orders) /\ Cardinality(orders) <= Len(book)
    BY <1>1, <1>2, FS_Subset
  <2>2. Cardinality(orders) \in Nat
    BY <2>1, FS_CardinalityType
  <2> QED
    BY <1>1, <2>1, <2>2 DEF Orderly
<1> QED
  BY <1>1, <1>2, <1>3, <1>4

\* A page has one row for each order on it.
LEMMA RowPerOrder ==
    ASSUME BookSound, NEW orders \in SUBSET DOMAIN book
    PROVE  Cardinality(AdminRows(orders)) = Cardinality(orders)
<1> DEFINE f == [n \in orders |-> AdminRow(n)]
<1>1. f \in Bijection(orders, AdminRows(orders))
  BY DEF Bijection, Injection, IsInjective, Surjection, AdminRow, AdminRows
<1>2. IsFiniteSet(orders)
  BY BookFinite
<1> QED
  BY <1>1, <1>2, FS_Bijection DEF ExistsBijection

LEMMA LimitNormal ==
    ASSUME NEW text \in LimitTexts
    PROVE  NormalizeLimit(text) \in 1 .. LargestLimit
<1>1. CASE text = NoLimit
  BY <1>1, AdminAssumption DEF NormalizeLimit
<1>2. CASE text # NoLimit
  <2>1. text \in Int /\ LargestLimit \in Nat /\ LargestLimit >= 1
    BY <1>2, AdminAssumption
  <2> DEFINE m == Max({text, 1})
  <2>2. m = IF text >= 1 THEN text ELSE 1
    BY <2>1 DEF Max
  <2> HIDE DEF m
  <2>3. Min({m, LargestLimit}) = IF m <= LargestLimit THEN m ELSE LargestLimit
    BY <2>1, <2>2 DEF Min
  <2>4. NormalizeLimit(text) = Min({m, LargestLimit})
    BY <1>2 DEF NormalizeLimit, m
  <2> QED
    BY <2>1, <2>2, <2>3, <2>4
<1> QED
  BY <1>1, <1>2

\* The newest so many of the orders a request selects.
LEMMA PageSize ==
    ASSUME BookSound, NEW f, NEW limit \in Nat \ {0}
    PROVE  /\ NewestSelected(f, limit) \in SUBSET Selected(f)
           /\ Selected(f) \in SUBSET DOMAIN book
           /\ Cardinality(Selected(f)) \in Nat
           /\ Cardinality(NewestSelected(f, limit)) =
                 IF limit <= Cardinality(Selected(f)) THEN limit ELSE Cardinality(Selected(f))
           /\ Selected(f) # {} => NewestSelected(f, limit) # {}
<1> DEFINE S == Selected(f)
<1>1. S \in SUBSET DOMAIN book
  BY DEF Selected
<1>2. NewestSelected(f, limit) = Newest(S, limit)
  BY DEF NewestSelected, Newest
<1> HIDE DEF S
<1>3. Orderly(S, Len(book)) /\ IsFiniteSet(S) /\ Cardinality(S) \in Nat
  BY <1>1, BookFinite
<1>4. Newest(S, limit) \in SUBSET S
  BY DEF Newest
<1>5. Cardinality(Newest(S, limit)) =
         IF limit <= Cardinality(S) THEN limit ELSE Cardinality(S)
  <2>1. CASE Cardinality(S) < limit
    BY <1>3, <2>1, NewestOfFew
  <2>2. CASE ~(Cardinality(S) < limit)
    BY <1>3, <2>2, NewestSize
  <2> QED
    BY <2>1, <2>2
<1>6. S # {} => Newest(S, limit) # {}
  <2>1. S # {} => Cardinality(S) # 0
    BY <1>3, FS_EmptySet
  <2> QED
    BY <1>3, <1>5, <2>1, FS_EmptySet
<1> QED
  BY <1>1, <1>2, <1>3, <1>4, <1>5, <1>6 DEF S


\* A text joined of a channel with its bar, an account, a bar and an external id.
IsJoined(T, text, p, a, bar, e) ==
    /\ p \in Seq(T) /\ a \in Seq(T) /\ bar \in Seq(T) /\ e \in Seq(T)
    /\ Len(p) = 2 /\ Len(bar) = 1
    /\ text = p \o a \o bar \o e

LEMMA PartsJoined ==
    ASSUME NEW T, NEW u, NEW p, NEW a, NEW bar, NEW e, IsJoined(T, u, p, a, bar, e)
    PROVE  /\ u \in Seq(T) /\ Len(u) = Len(a) + 3 + Len(e)
           /\ u[1] = p[1]
           /\ \A j \in 1 .. Len(a) : u[j + 2] = a[j]
           /\ u[Len(a) + 3] = bar[1]
           /\ \A j \in 1 .. Len(e) : u[j + Len(a) + 3] = e[j]
<1>p. /\ p \in Seq(T) /\ a \in Seq(T) /\ bar \in Seq(T) /\ e \in Seq(T)
      /\ Len(p) = 2 /\ Len(bar) = 1
  BY DEF IsJoined
<1> DEFINE s == p \o a
           t == s \o bar
<1>1. Len(a) \in Nat /\ Len(e) \in Nat
  BY <1>p
<1>2. /\ s \in Seq(T) /\ Len(s) = 2 + Len(a)
      /\ \A j \in 1 .. 2 + Len(a) : s[j] = IF j <= 2 THEN p[j] ELSE a[j - 2]
  <2>1. /\ s \in Seq(T) /\ Len(s) = Len(p) + Len(a)
        /\ \A j \in 1 .. Len(p) + Len(a) : s[j] = IF j <= Len(p) THEN p[j] ELSE a[j - Len(p)]
    BY <1>p, ConcatProperties
  <2> HIDE DEF s
  <2> QED
    BY <1>p, <2>1
<1>u. u = s \o bar \o e
  BY DEF IsJoined
<1> HIDE DEF s
<1>3. /\ t \in Seq(T) /\ Len(t) = 3 + Len(a)
      /\ \A j \in 1 .. 3 + Len(a) : t[j] = IF j <= Len(s) THEN s[j] ELSE bar[j - Len(s)]
  <2>1. /\ t \in Seq(T) /\ Len(t) = Len(s) + Len(bar)
        /\ \A j \in 1 .. Len(s) + Len(bar) : t[j] = IF j <= Len(s) THEN s[j] ELSE bar[j - Len(s)]
    BY <1>p, <1>2, ConcatProperties
  <2> HIDE DEF t
  <2> QED
    BY <1>1, <1>2, <1>p, <2>1
<1>t. t \in Seq(T)
  BY <1>3
<1> HIDE DEF t
<1>4. /\ u \in Seq(T) /\ Len(u) = 3 + Len(a) + Len(e)
      /\ \A j \in 1 .. 3 + Len(a) + Len(e) : u[j] = IF j <= Len(t) THEN t[j] ELSE e[j - Len(t)]
  <2>1. /\ u \in Seq(T) /\ Len(u) = Len(t) + Len(e)
        /\ \A j \in 1 .. Len(t) + Len(e) : u[j] = IF j <= Len(t) THEN t[j] ELSE e[j - Len(t)]
    <3>1. u = t \o e
      BY <1>u DEF t
    <3> QED
      BY <1>p, <1>t, <3>1, ConcatProperties
  <2> QED
    BY <1>3, <2>1
<1>5. u[1] = p[1]
  BY <1>1, <1>2, <1>3, <1>4
<1>6. ASSUME NEW j \in 1 .. Len(a)
      PROVE  u[j + 2] = a[j]
  <2>1. u[j + 2] = t[j + 2]
    BY <1>1, <1>3, <1>4
  <2>2. t[j + 2] = s[j + 2]
    BY <1>1, <1>2, <1>3
  <2>3. s[j + 2] = a[j + 2 - 2] /\ j + 2 - 2 = j
    BY <1>1, <1>2
  <2> QED
    BY <2>1, <2>2, <2>3
<1>7. u[Len(a) + 3] = bar[1]
  <2>1. u[Len(a) + 3] = t[Len(a) + 3]
    BY <1>1, <1>3, <1>4
  <2>2. Len(a) + 3 - Len(s) = 1 /\ Len(a) + 3 \in 1 .. 3 + Len(a) /\ ~(Len(a) + 3 <= Len(s))
    BY <1>1, <1>2
  <2>3. t[Len(a) + 3] = bar[Len(a) + 3 - Len(s)]
    BY <1>3, <2>2
  <2> QED
    BY <2>1, <2>2, <2>3
<1>8. ASSUME NEW j \in 1 .. Len(e)
      PROVE  u[j + Len(a) + 3] = e[j]
  <2>1. u[j + Len(a) + 3] = e[j + Len(a) + 3 - Len(t)] /\ j + Len(a) + 3 - Len(t) = j
    BY <1>1, <1>3, <1>4
  <2> QED
    BY <2>1
<1>9. Len(u) = Len(a) + 3 + Len(e)
  BY <1>1, <1>4
<1> QED
  BY <1>4, <1>5, <1>6, <1>7, <1>8, <1>9

(***************************************************************************)
(* Where the left text has only the bar it is joined with, the parts of    *)
(* two joined texts that are equal are equal.                              *)
(***************************************************************************)
LEMMA Unjoined ==
    ASSUME NEW T, NEW text, NEW bar, NEW p, NEW a, NEW e, NEW q, NEW b, NEW g,
           IsJoined(T, text, p, a, bar, e), IsJoined(T, text, q, b, bar, g), bar[1] = "|",
           \A j \in 1 .. Len(a) : a[j] # "|", \A j \in 1 .. Len(e) : e[j] # "|"
    PROVE  p[1] = q[1] /\ a = b /\ e = g
<1> DEFINE m == Len(a)
           n == Len(b)
<1>t. a \in Seq(T) /\ b \in Seq(T) /\ e \in Seq(T) /\ g \in Seq(T)
  BY DEF IsJoined
<1>1. m \in Nat /\ n \in Nat /\ Len(e) \in Nat /\ Len(g) \in Nat
  BY <1>t
<1>2. /\ text \in Seq(T) /\ Len(text) = m + 3 + Len(e)
      /\ text[1] = p[1]
      /\ \A j \in 1 .. m : text[j + 2] = a[j]
      /\ text[m + 3] = "|"
      /\ \A j \in 1 .. Len(e) : text[j + m + 3] = e[j]
  BY PartsJoined
<1>3. /\ Len(text) = n + 3 + Len(g)
      /\ text[1] = q[1]
      /\ \A j \in 1 .. n : text[j + 2] = b[j]
      /\ text[n + 3] = "|"
      /\ \A j \in 1 .. Len(g) : text[j + n + 3] = g[j]
  BY PartsJoined
<1>5. m = n
  <2>1. ASSUME n < m
        PROVE  FALSE
    <3>1. n + 1 \in 1 .. m
      BY <1>1, <2>1
    <3>2. text[(n + 1) + 2] = a[n + 1]
      BY <1>2, <3>1
    <3>3. (n + 1) + 2 = n + 3
      BY <1>1
    <3> QED
      BY <1>3, <3>1, <3>2, <3>3
  <2>2. ASSUME m < n
        PROVE  FALSE
    <3>1. n - m \in 1 .. Len(e)
      BY <1>1, <1>2, <1>3, <2>2
    <3>2. text[(n - m) + m + 3] = e[n - m]
      BY <1>2, <3>1
    <3>3. (n - m) + m + 3 = n + 3
      BY <1>1
    <3> QED
      BY <1>3, <3>1, <3>2, <3>3
  <2> QED
    BY <1>1, <2>1, <2>2
<1>6. Len(e) = Len(g)
  BY <1>1, <1>2, <1>3, <1>5
<1>7. a = b
  <2>1. \A j \in 1 .. Len(a) : a[j] = b[j]
    BY <1>2, <1>3, <1>5
  <2> QED
    BY <1>5, <1>t, <2>1, SeqEqual
<1>8. e = g
  <2>1. \A j \in 1 .. Len(e) : e[j] = g[j]
    BY <1>1, <1>2, <1>3, <1>5, <1>6
  <2> QED
    BY <1>6, <1>t, <2>1, SeqEqual
<1> QED
  BY <1>2, <1>3, <1>7, <1>8

\* Two identities whose joined text is the same have a bar, both of them.
LEMMA BarInBoth ==
    ASSUME NEW k \in AdminKey, NEW l \in AdminKey, k # l, JoinedKey(k) = JoinedKey(l)
    PROVE  Bars(k)
<1> DEFINE Token == {"a", "b", "|"}
           bar == <<"|">>
           T == DOMAIN SourceCatalog \cup Token
<1>1. /\ k.account \in Seq(Token) /\ k.external \in Seq(Token)
      /\ l.account \in Seq(Token) /\ l.external \in Seq(Token)
      /\ bar \in Seq(Token) /\ Len(bar) = 1 /\ bar[1] = "|"
  BY DEF AdminKey
<1>2. k = [channel |-> k.channel, account |-> k.account, external |-> k.external]
  BY DEF AdminKey
<1>3. l = [channel |-> l.channel, account |-> l.account, external |-> l.external]
  BY DEF AdminKey
<1>4. JoinedKey(k) = <<k.channel, "|">> \o k.account \o bar \o k.external
  BY DEF JoinedKey
<1>5. JoinedKey(l) = <<l.channel, "|">> \o l.account \o bar \o l.external
  BY DEF JoinedKey
<1>6. k.channel \in T /\ l.channel \in T /\ Token \subseteq T /\ "|" \in Token
  BY DEF AdminKey
<1> SUFFICES ASSUME ~Bars(k)
             PROVE  FALSE
  OBVIOUS
<1>7. /\ \A j \in 1 .. Len(k.account) : k.account[j] # "|"
      /\ \A j \in 1 .. Len(k.external) : k.external[j] # "|"
  BY <1>1 DEF Bars
<1> HIDE DEF bar, Token, T
<1> DEFINE a == k.account  e == k.external  b == l.account  g == l.external
           p == <<k.channel, "|">>  q == <<l.channel, "|">>
<1>8. p \in Seq(T) /\ q \in Seq(T) /\ Len(p) = 2 /\ Len(q) = 2
      /\ p[1] = k.channel /\ q[1] = l.channel
  BY <1>6
<1>9. /\ a \in Seq(T) /\ e \in Seq(T) /\ b \in Seq(T) /\ g \in Seq(T) /\ bar \in Seq(T)
  BY <1>1, <1>6
<1> DEFINE text == JoinedKey(k)
<1>10. IsJoined(T, text, p, a, bar, e) /\ IsJoined(T, text, q, b, bar, g)
  BY <1>1, <1>4, <1>5, <1>8, <1>9 DEF IsJoined
<1>11. /\ \A j \in 1 .. Len(a) : a[j] # "|"
       /\ \A j \in 1 .. Len(e) : e[j] # "|"
       /\ Len(bar) = 1 /\ bar[1] = "|"
  BY <1>1, <1>7
<1>12. k.channel # l.channel \/ a # b \/ e # g
  BY <1>2, <1>3
<1> HIDE DEF a, e, b, g, p, q, text
<1>13. p[1] = q[1] /\ a = b /\ e = g
  BY <1>10, <1>11, Unjoined
<1> QED
  BY <1>8, <1>12, <1>13

LEMMA TwoApart ==
    ASSUME NEW S, IsFiniteSet(S), Cardinality(S) > 1
    PROVE  \E m, n \in S : m # n
<1> SUFFICES ASSUME \A m, n \in S : m = n
             PROVE  FALSE
  OBVIOUS
<1>1. PICK m \in S : TRUE
  BY FS_EmptySet
<1>2. S = {m}
  BY <1>1
<1>3. Cardinality(S) = 1
  BY <1>2, FS_Singleton
<1> QED
  BY <1>3

\* Keys that are shared, each by two others than all the others.
LEMMA SharedFew ==
    ASSUME NEW j, IsFiniteSet(DOMAIN j), NEW B \in SUBSET DOMAIN j,
           \A m, n \in DOMAIN j : m # n /\ j[m] = j[n] => m \in B
    PROVE  2 * Cardinality({k \in {j[n] : n \in DOMAIN j} :
                              Cardinality({n \in DOMAIN j : j[n] = k}) > 1}) <= Cardinality(B)
<1> DEFINE D == DOMAIN j
           V == {j[n] : n \in D}
           K == {k \in V : Cardinality({n \in D : j[n] = k}) > 1}
           p == [k \in K |-> CHOOSE n \in D : j[n] = k]
           q == [k \in K |-> CHOOSE n \in D : j[n] = k /\ n # p[k]]
           P == {p[k] : k \in K}
           Q == {q[k] : k \in K}
<1>1. IsFiniteSet(K) /\ Cardinality(K) \in Nat
  <2>1. IsFiniteSet(V)
    BY ValuesFinite
  <2>2. K \in SUBSET V
    OBVIOUS
  <2> HIDE DEF K, V
  <2> QED
    BY <2>1, <2>2, FS_Subset, FS_CardinalityType
<1>2. ASSUME NEW k \in K
      PROVE  /\ p[k] \in D /\ j[p[k]] = k
             /\ q[k] \in D /\ j[q[k]] = k /\ q[k] # p[k]
             /\ p[k] \in B /\ q[k] \in B
  <2> DEFINE S == {n \in D : j[n] = k}
  <2>1. IsFiniteSet(S) /\ Cardinality(S) > 1
    BY FS_Subset
  <2>2. PICK m, n \in S : m # n
    BY <2>1, TwoApart
  <2>3. p[k] \in D /\ j[p[k]] = k
    BY <2>2
  <2>4. \E l \in D : j[l] = k /\ l # p[k]
    BY <2>2
  <2>5. q[k] \in D /\ j[q[k]] = k /\ q[k] # p[k]
    <3> HIDE DEF p
    <3> QED
      BY <2>4
  <2> HIDE DEF p, q
  <2> QED
    BY <2>3, <2>5
<1>3. DOMAIN p = K /\ DOMAIN q = K
  OBVIOUS
<1>4. P \in SUBSET B /\ Q \in SUBSET B /\ P \cap Q = {}
  <2> HIDE DEF K, p, q
  <2> QED
    BY <1>2
<1>5. p \in Bijection(K, P) /\ q \in Bijection(K, Q)
  <2>1. p = [k \in K |-> p[k]] /\ q = [k \in K |-> q[k]]
    OBVIOUS
  <2> HIDE DEF K, p, q
  <2>2. p \in [K -> P] /\ q \in [K -> Q]
    BY <2>1
  <2>3. IsInjective(p) /\ IsInjective(q)
    BY <1>2, <1>3 DEF IsInjective
  <2> QED
    BY <2>2, <2>3 DEF Bijection, Injection, Surjection
<1> HIDE DEF K, p, q, P, Q
<1>6. /\ Cardinality(P) = Cardinality(K) /\ IsFiniteSet(P)
      /\ Cardinality(Q) = Cardinality(K) /\ IsFiniteSet(Q)
  BY <1>1, <1>5, FS_Bijection DEF ExistsBijection
<1>7. Cardinality(P \cup Q) = 2 * Cardinality(K)
  BY <1>1, <1>4, <1>6, Disjoint
<1>8. Cardinality(P \cup Q) <= Cardinality(B)
  <2>1. IsFiniteSet(B)
    BY FS_Subset
  <2> QED
    BY <1>4, <2>1, FS_Subset
<1>9. 2 * Cardinality(K) <= Cardinality(B)
  BY <1>7, <1>8
<1> QED
  BY <1>9 DEF K

Barred == {n \in DOMAIN book : Bars(book[n].key)}

LEMMA DuplicatesBarred ==
    ASSUME BookSound
    PROVE  2 * Cardinality({k \in {JoinedKey(book[n].key) : n \in DOMAIN book} :
                              Cardinality({n \in DOMAIN book : JoinedKey(book[n].key) = k}) > 1})
                <= Cardinality(Barred)
<1> DEFINE j == [n \in DOMAIN book |-> JoinedKey(book[n].key)]
<1>1. DOMAIN j = DOMAIN book /\ \A n \in DOMAIN book : j[n] = JoinedKey(book[n].key)
  OBVIOUS
<1>2. ASSUME NEW m \in DOMAIN book, NEW n \in DOMAIN book, m # n, j[m] = j[n]
      PROVE  m \in Barred
  <2>1. book[m] \in Entry /\ book[n] \in Entry
    BY BookFinite
  <2>2. book[m].key \in AdminKey /\ book[n].key \in AdminKey
    BY <2>1, AdminAssumption DEF Entry
  <2>3. book[m].key # book[n].key
    BY <1>2 DEF BookSound
  <2>4. JoinedKey(book[m].key) = JoinedKey(book[n].key)
    BY <1>2
  <2>5. Bars(book[m].key)
    BY <2>2, <2>3, <2>4, BarInBoth
  <2> QED
    BY <2>5 DEF Barred
<1> HIDE DEF j
<1>3. Barred \in SUBSET DOMAIN j /\ IsFiniteSet(DOMAIN j)
  BY <1>1, BookFinite DEF Barred
<1>4. \A m, n \in DOMAIN j : m # n /\ j[m] = j[n] => m \in Barred
  BY <1>1, <1>2
<1>5. 2 * Cardinality({k \in {j[n] : n \in DOMAIN j} :
                         Cardinality({n \in DOMAIN j : j[n] = k}) > 1}) <= Cardinality(Barred)
  BY <1>3, <1>4, SharedFew
<1>6. /\ {j[n] : n \in DOMAIN j} = {JoinedKey(book[n].key) : n \in DOMAIN book}
      /\ \A k : {n \in DOMAIN j : j[n] = k} = {n \in DOMAIN book : JoinedKey(book[n].key) = k}
  BY <1>1
<1> QED
  BY <1>5, <1>6

(***************************************************************************)
(* The invariant of a report: what its queries found still is to be found, *)
(* and while nothing moved it is all there is.                             *)
(***************************************************************************)

OfferedFilters ==
    [application : offered, service : {Unset}, state : {Unset}, channel : {Unset},
     from : {0}, search : {<<>>}]

DeskTyped ==
    /\ desk = [at |-> desk.at, filters |-> desk.filters, limit |-> desk.limit]
    /\ desk.at \in {"none", "page", "count", "all", "dashboard", "orders", "shipments",
                    "overview", "anyAccount", "oneKey", "catalog", "action"}
    /\ desk.at \in {"page", "count", "all", "dashboard"} => desk.limit \in 1 .. LargestLimit
    /\ sheet = [rows |-> sheet.rows, matching |-> sheet.matching, total |-> sheet.total,
                open |-> sheet.open, shipped |-> sheet.shipped, delivered |-> sheet.delivered,
                applications |-> sheet.applications, states |-> sheet.states,
                duplicates |-> sheet.duplicates]
    /\ deskMoves \in Nat

OfferedFound ==
    \A a \in offered \cup sheet.applications :
        \E n \in DOMAIN book : Source(book[n].key).application = a

PageRead ==
    /\ desk.at \in {"count", "all"} =>
          \A r \in sheet.rows : r.id \in DOMAIN book /\ r.key = book[r.id].key
    /\ desk.at \in {"count", "all", "dashboard"} =>
          /\ Cardinality(sheet.rows) \in 0 .. desk.limit
          /\ desk.filters \in OfferedFilters => sheet.rows # {}
          /\ deskMoves = 0 => sheet.rows = AdminRows(NewestSelected(desk.filters, desk.limit))
    /\ desk.at = "count" /\ desk.filters.state = Unset =>
          Cardinality(sheet.rows) <= Cardinality(Selected(desk.filters))

MatchesCounted ==
    /\ desk.at \in {"all", "dashboard"} =>
          /\ sheet.matching \in Nat
          /\ desk.filters.state = Unset => Cardinality(sheet.rows) <= sheet.matching
          /\ deskMoves = 0 => sheet.matching = Cardinality(Selected(desk.filters))
    /\ desk.at = "all" => sheet.matching <= Len(book)

AllRead ==
    desk.at = "dashboard" =>
        /\ sheet.matching <= sheet.total
        /\ {Source(r.key).application : r \in sheet.rows} \subseteq sheet.applications
        /\ deskMoves = 0 => sheet.states = {book[n].status : n \in DOMAIN book}

OthersReported ==
    /\ desk.at = "oneKey" => Cardinality(sheet.rows) <= 1
    /\ desk.at \in {"shipments", "overview"} =>
          sheet.duplicates \in Nat /\ 2 * sheet.duplicates <= Cardinality(Barred)
    /\ desk.at = "catalog" => sheet.states \in {CatalogStatuses, {}}

AdminInvariant ==
    /\ BookSound
    /\ DeskTyped
    /\ OfferedFound
    /\ PageRead
    /\ MatchesCounted
    /\ AllRead
    /\ OthersReported

LEMMA FoundByOffer ==
    ASSUME BookSound, OfferedFound, NEW f \in OfferedFilters
    PROVE  Selected(f) # {}
<1>1. PICK n \in DOMAIN book : Source(book[n].key).application = f.application
  BY DEF OfferedFilters, OfferedFound
<1>2. book[n].key.channel \in DOMAIN SourceCatalog
  <2>1. book[n] \in Entry
    BY BookFinite
  <2>2. book[n].key \in AdminKey
    BY <2>1, AdminAssumption DEF Entry
  <2> QED
    BY <2>2 DEF AdminKey
<1>3. /\ f.state = Unset /\ f.service = Unset /\ f.channel = Unset
      /\ f.from = 0 /\ f.search = <<>>
  BY DEF OfferedFilters
<1>4. book[n].key.channel \in SourceChannels(f)
  BY <1>1, <1>2, <1>3 DEF SourceChannels, Source
<1>5. n >= 0
  BY BookFinite
<1>6. n \in Selected(f)
  BY <1>3, <1>4, <1>5 DEF Selected
<1> QED
  BY <1>6

LEMMA SelectedGrows ==
    ASSUME BookSound, BookSound', Grows, NEW f, f.state = Unset
    PROVE  Cardinality(Selected(f)) <= Cardinality(Selected(f)')
<1>1. Selected(f) \in SUBSET (Selected(f)')
  <2> SUFFICES ASSUME NEW n \in Selected(f)
               PROVE  n \in Selected(f)'
    OBVIOUS
  <2>1. n \in DOMAIN book' /\ book'[n].key = book[n].key
    BY DEF Grows, Selected
  <2> QED
    BY <2>1 DEF Selected
<1>2. Selected(f)' \in SUBSET DOMAIN book'
  BY DEF Selected
<1>3. IsFiniteSet(DOMAIN book')
  <2>1. DOMAIN book' = 1 .. Len(book') /\ Len(book') \in Nat
    BY DEF BookSound
  <2> QED
    BY <2>1, FS_Interval, 1 \in Int
<1> QED
  BY <1>1, <1>2, <1>3, FS_Subset

LEMMA BarredGrow ==
    ASSUME BookSound, BookSound', Grows
    PROVE  /\ Cardinality(Barred) <= Cardinality(Barred')
           /\ Cardinality(Barred) \in Nat /\ Cardinality(Barred') \in Nat
<1>1. Barred \in SUBSET (Barred')
  BY DEF Grows, Barred
<1>2. Barred' \in SUBSET DOMAIN book'
  BY DEF Barred
<1>3. IsFiniteSet(DOMAIN book')
  <2>1. DOMAIN book' = 1 .. Len(book') /\ Len(book') \in Nat
    BY DEF BookSound
  <2> QED
    BY <2>1, FS_Interval, 1 \in Int
<1>4. IsFiniteSet(Barred') /\ IsFiniteSet(Barred)
  BY <1>1, <1>2, <1>3, FS_Subset
<1> QED
  BY <1>1, <1>4, FS_Subset, FS_CardinalityType

\* What else goes on moves a report's table, not what the report has.
LEMMA MovedOn ==
    ASSUME AdminInvariant, Others, BookSound', Grows
    PROVE  AdminInvariant'
<1>1. /\ desk' = desk /\ sheet' = sheet /\ offered' = offered
      /\ deskMoves' \in Nat /\ (desk.at # "none" => deskMoves' # 0)
      /\ desk.at \notin {"dashboard", "overview", "anyAccount", "oneKey", "catalog", "action"}
  <2>1. /\ desk.at # "none" => deskMoves < MaxDeskMoves
        /\ deskMoves' = IF desk.at = "none" THEN 0 ELSE deskMoves + 1
        /\ desk' = desk /\ sheet' = sheet /\ offered' = offered
        /\ desk.at \notin {"dashboard", "overview", "anyAccount", "oneKey", "catalog", "action"}
    BY DEF Others, Answered
  <2>2. deskMoves \in Nat
    BY DEF AdminInvariant, DeskTyped
  <2>3. deskMoves' \in Nat /\ (desk.at # "none" => deskMoves' # 0)
    BY <2>1, <2>2
  <2> QED
    BY <2>1, <2>3
<1>2. DeskTyped'
  BY <1>1 DEF AdminInvariant, DeskTyped
<1>3. OfferedFound'
  BY <1>1 DEF AdminInvariant, OfferedFound, Grows
<1>4. PageRead'
  <2>1. PICK f : f = desk.filters
    OBVIOUS
  <2>2. f.state = Unset => Cardinality(Selected(f)) <= Cardinality(Selected(f)')
    BY SelectedGrows DEF AdminInvariant
  <2>3. Selected(desk.filters) = Selected(f) /\ Selected(desk.filters)' = Selected(f)'
    BY <1>1, <2>1 DEF Selected
  <2>4. Cardinality(Selected(f)) \in Nat /\ Cardinality(Selected(f)') \in Nat
    <3>1. Selected(f) \in SUBSET DOMAIN book /\ Selected(f)' \in SUBSET DOMAIN book'
      BY DEF Selected
    <3>2. Cardinality(Selected(f)) \in Nat
      BY <3>1, BookFinite DEF AdminInvariant
    <3>3. IsFiniteSet(DOMAIN book')
      <4>1. DOMAIN book' = 1 .. Len(book') /\ Len(book') \in Nat
        BY DEF BookSound
      <4> QED
        BY <4>1, FS_Interval, 1 \in Int
    <3> QED
      BY <3>1, <3>2, <3>3, FS_Subset, FS_CardinalityType
  <2>5. desk.at = "count" /\ desk.filters.state = Unset =>
           Cardinality(sheet.rows) <= Cardinality(Selected(desk.filters))
    BY DEF AdminInvariant, PageRead
  <2>6. desk.at = "count" => Cardinality(sheet.rows) \in Int
    BY <1>1 DEF AdminInvariant, PageRead, DeskTyped
  <2>7. (desk.at = "count" /\ desk.filters.state = Unset)' =>
           Cardinality(sheet.rows) <= Cardinality(Selected(desk.filters)')
    BY <1>1, <2>1, <2>2, <2>3, <2>4, <2>5, <2>6
  <2>8. OfferedFilters' = OfferedFilters
    BY <1>1 DEF OfferedFilters
  <2>9. (desk.at \in {"count", "all"})' =>
           \A r \in sheet.rows : r.id \in DOMAIN book' /\ r.key = book'[r.id].key
    BY <1>1 DEF AdminInvariant, PageRead, Grows
  <2>10. (desk.at \in {"count", "all", "dashboard"})' =>
           /\ Cardinality(sheet.rows) \in 0 .. desk.limit
           /\ desk.filters \in OfferedFilters => sheet.rows # {}
           /\ deskMoves' # 0
    BY <1>1 DEF AdminInvariant, PageRead
  <2> QED
    BY <1>1, <2>7, <2>8, <2>9, <2>10 DEF PageRead
<1>5. MatchesCounted'
  <2>1. Len(book) \in Nat /\ Len(book') \in Nat /\ Len(book) <= Len(book')
    BY DEF Grows, AdminInvariant, BookSound
  <2> QED
    BY <1>1, <2>1 DEF AdminInvariant, MatchesCounted
<1>6. AllRead' /\ OthersReported'
  <2>1. desk.at = "shipments" =>
           sheet.duplicates \in Nat /\ 2 * sheet.duplicates <= Cardinality(Barred')
    <3>1. desk.at = "shipments" =>
             sheet.duplicates \in Nat /\ 2 * sheet.duplicates <= Cardinality(Barred)
      BY DEF AdminInvariant, OthersReported
    <3> QED
      BY <3>1, BarredGrow DEF AdminInvariant
  <2> QED
    BY <1>1, <2>1 DEF AllRead, OthersReported
<1> QED
  BY <1>2, <1>3, <1>4, <1>5, <1>6 DEF AdminInvariant

\* Moving an order keeps the identities.
LEMMA Restated ==
    ASSUME BookSound, NEW n \in DOMAIN book, NEW s \in AdminStatus,
           book' = [book EXCEPT ![n].status = s]
    PROVE  BookSound' /\ Grows
<1>1. /\ DOMAIN book = 1 .. Len(book) /\ Len(book) \in Nat
      /\ book \in Seq(Entry) /\ \A m \in DOMAIN book : book[m] \in Entry
  BY BookFinite DEF BookSound
<1> DEFINE e == [book[n] EXCEPT !.status = s]
<1>2. e \in Entry /\ e.key = book[n].key
  BY <1>1 DEF Entry
<1>3. book' = [book EXCEPT ![n] = e]
  OBVIOUS
<1> HIDE DEF e
<1>4. /\ book' \in Seq(Entry) /\ Len(book') = Len(book)
      /\ \A m \in 1 .. Len(book) : book'[m] = IF m = n THEN e ELSE book[m]
  BY <1>1, <1>2, <1>3, ExceptSeq
<1>5. \A m \in DOMAIN book : book'[m].key = book[m].key
  BY <1>1, <1>2, <1>4
<1>6. DOMAIN book' = DOMAIN book
  BY <1>1, <1>4
<1> QED
  BY <1>1, <1>4, <1>5, <1>6 DEF BookSound, Grows

LEMMA BookMoves ==
    ASSUME AdminInvariant, PlaceOrder \/ MoveOrder \/ AddParcel
    PROVE  Others /\ BookSound' /\ Grows
<1>1. /\ DOMAIN book = 1 .. Len(book) /\ Len(book) \in Nat
      /\ book \in Seq(Entry) /\ \A n \in DOMAIN book : book[n] \in Entry
      /\ \A m, n \in DOMAIN book : book[m].key = book[n].key => m = n
  BY BookFinite DEF AdminInvariant, BookSound
<1>2. CASE PlaceOrder
  <2>1. PICK k \in AdminKeys, s \in {"pending", "confirmed"} :
            /\ \A n \in DOMAIN book : book[n].key # k
            /\ book' = Append(book, [key |-> k, status |-> s, items |-> <<"pending">>])
    BY <1>2 DEF PlaceOrder
  <2> DEFINE e == [key |-> k, status |-> s, items |-> <<"pending">>]
  <2>2. e \in Entry /\ e.key = k
    BY DEF Entry, AdminStatus
  <2> HIDE DEF e
  <2>3. /\ book' \in Seq(Entry) /\ Len(book') = Len(book) + 1
        /\ DOMAIN book' = 1 .. Len(book) + 1
        /\ \A n \in 1 .. Len(book) : book'[n] = book[n]
        /\ book'[Len(book) + 1] = e
    <3>1. book' = Append(book, e)
      BY <2>1 DEF e
    <3> QED
      BY <1>1, <2>2, <3>1
  <2>4. ASSUME NEW m \in DOMAIN book', NEW n \in DOMAIN book', book'[m].key = book'[n].key
        PROVE  m = n
    <3>1. CASE m \in DOMAIN book /\ n \in DOMAIN book
      BY <1>1, <2>3, <2>4, <3>1
    <3>2. CASE m = Len(book) + 1 /\ n = Len(book) + 1
      BY <3>2
    <3>3. CASE m = Len(book) + 1 /\ n \in DOMAIN book
      BY <1>1, <2>1, <2>2, <2>3, <2>4, <3>3
    <3>4. CASE n = Len(book) + 1 /\ m \in DOMAIN book
      BY <1>1, <2>1, <2>2, <2>3, <2>4, <3>4
    <3>5. /\ m \in DOMAIN book \/ m = Len(book) + 1
          /\ n \in DOMAIN book \/ n = Len(book) + 1
      BY <1>1, <2>3
    <3> QED
      BY <3>1, <3>2, <3>3, <3>4, <3>5
  <2>5. Grows
    BY <1>1, <2>3 DEF Grows
  <2> QED
    BY <1>2, <2>3, <2>4, <2>5 DEF PlaceOrder, BookSound
<1>3. CASE MoveOrder
  <2>1. PICK n \in DOMAIN book, s \in ActionStatuses : book' = [book EXCEPT ![n].status = s]
    BY <1>3 DEF MoveOrder
  <2>2. BookSound' /\ Grows
    BY <2>1, Restated DEF AdminInvariant, AdminStatus
  <2> QED
    BY <1>3, <2>2 DEF MoveOrder
<1>4. CASE AddParcel
  <2>1. book' = book
    BY <1>4 DEF AddParcel
  <2> QED
    BY <1>1, <1>4, <2>1 DEF AddParcel, BookSound, Grows
<1> QED
  BY <1>2, <1>3, <1>4

\* A report that has begun, or is over, has read nothing yet.
LEMMA Turned ==
    ASSUME AdminInvariant, BookSound', Grows, DeskTyped',
           desk'.at \notin {"count", "all", "dashboard", "shipments", "overview"},
           offered' \cup sheet'.applications \subseteq offered \cup sheet.applications,
           desk'.at = "oneKey" => Cardinality(sheet'.rows) <= 1,
           desk'.at = "catalog" => sheet'.states \in {CatalogStatuses, {}}
    PROVE  AdminInvariant'
<1>1. OfferedFound'
  BY DEF AdminInvariant, OfferedFound, Grows
<1>2. PageRead' /\ MatchesCounted' /\ AllRead' /\ OthersReported'
  BY DEF PageRead, MatchesCounted, AllRead, OthersReported
<1> QED
  BY <1>1, <1>2 DEF AdminInvariant

\* The book as it was.
LEMMA BookStays ==
    ASSUME AdminInvariant, book' = book
    PROVE  BookSound' /\ Grows
BY BookFinite DEF AdminInvariant, BookSound, Grows

LEMMA ReportsBegin ==
    ASSUME AdminInvariant,
           \/ AskDashboard \/ AskOverview \/ Diagnose \/ GetActionCatalog
           \/ ApplyOrderStatusAction \/ CloseReport
    PROVE  AdminInvariant'
<1>t. DeskTyped /\ BookSound
  BY DEF AdminInvariant
<1>1. CASE AskDashboard
  <2>1. PICK f \in AdminFilters, text \in LimitTexts :
            Admit(AdminReadRoles, "page", f, NormalizeLimit(text))
    BY <1>1 DEF AskDashboard
  <2>2. NormalizeLimit(text) \in 1 .. LargestLimit
    BY LimitNormal
  <2>3. book' = book /\ offered' = offered /\ sheet' = Blank /\ desk'.at = "page" /\ DeskTyped'
    BY <2>1, <2>2 DEF Admit, DeskTyped, Blank
  <2>4. sheet'.applications = {}
    BY <2>3 DEF Blank
  <2> QED
    BY <2>3, <2>4, BookStays, Turned
<1>2. CASE AskOverview
  <2>1. book' = book /\ offered' = offered /\ sheet' = Blank /\ desk'.at = "orders" /\ DeskTyped'
    BY <1>2 DEF AskOverview, Admit, DeskTyped, Blank
  <2>2. sheet'.applications = {}
    BY <2>1 DEF Blank
  <2> QED
    BY <2>1, <2>2, BookStays, Turned
<1>3. CASE Diagnose
  <2>1. PICK k \in AdminKeys, any \in BOOLEAN :
           /\ desk' = [at |-> IF any THEN "anyAccount" ELSE "oneKey",
                       filters |-> Idle.filters, limit |-> 25]
           /\ sheet' = [Blank EXCEPT !.rows =
                AdminRows({m \in DOMAIN book : /\ book[m].key.channel = k.channel
                                               /\ book[m].key.external = k.external
                                               /\ any \/ book[m].key.account = k.account})]
           /\ deskMoves' = 0 /\ book' = book /\ offered' = offered
    BY <1>3 DEF Diagnose, AdminRows, AdminRow
  <2> DEFINE these == {m \in DOMAIN book : /\ book[m].key.channel = k.channel
                                           /\ book[m].key.external = k.external
                                           /\ any \/ book[m].key.account = k.account}
  <2>2. DeskTyped' /\ sheet'.applications = {} /\ sheet'.rows = AdminRows(these)
    BY <2>1 DEF DeskTyped, Blank
  <2>3. ASSUME ~any
        PROVE  Cardinality(AdminRows(these)) <= 1
    <3>1. ASSUME NEW m \in these, NEW n \in these
          PROVE  m = n
      <4>1. book[m] \in Entry /\ book[n] \in Entry
        BY <1>t, BookFinite
      <4>2. book[m].key \in AdminKey /\ book[n].key \in AdminKey /\ k \in AdminKey
        BY <4>1, AdminAssumption DEF Entry
      <4>3. \A l \in AdminKey :
               l = [channel |-> l.channel, account |-> l.account, external |-> l.external]
        BY DEF AdminKey
      <4>4. book[m].key = k /\ book[n].key = k
        BY <2>3, <4>2, <4>3
      <4> QED
        BY <1>t, <4>4 DEF BookSound
    <3>2. these \in SUBSET DOMAIN book
      OBVIOUS
    <3> HIDE DEF these
    <3>3. IsFiniteSet(these) /\ Cardinality(these) \in Nat
      BY <1>t, <3>2, BookFinite
    <3>4. ~(Cardinality(these) > 1)
      BY <3>1, <3>3, TwoApart
    <3> QED
      BY <1>t, <3>2, <3>3, <3>4, RowPerOrder
  <2>4. desk'.at = IF any THEN "anyAccount" ELSE "oneKey"
    BY <2>1
  <2> HIDE DEF these
  <2> QED
    BY <2>1, <2>2, <2>3, <2>4, BookStays, Turned
<1>4. CASE GetActionCatalog
  <2>1. /\ book' = book /\ offered' = offered /\ desk'.at = "catalog" /\ DeskTyped'
        /\ sheet'.applications = {} /\ sheet'.states \in {CatalogStatuses, {}}
    BY <1>4 DEF GetActionCatalog, DeskTyped, Blank, Idle
  <2> QED
    BY <2>1, BookStays, Turned
<1>5. CASE ApplyOrderStatusAction
  <2>1. PICK n \in DOMAIN book, s \in ActionStatuses : book' = [book EXCEPT ![n].status = s]
    BY <1>5 DEF ApplyOrderStatusAction
  <2>2. BookSound' /\ Grows
    BY <1>t, <2>1, Restated DEF AdminStatus
  <2>3. desk'.at = "action" /\ sheet' = sheet /\ offered' = offered /\ DeskTyped'
    BY <1>5, <1>t DEF ApplyOrderStatusAction, DeskTyped, Idle
  <2> QED
    BY <2>2, <2>3, Turned
<1>6. CASE CloseReport
  <2>1. /\ book' = book /\ offered' = offered \cup sheet.applications
        /\ desk'.at = "none" /\ DeskTyped' /\ sheet'.applications = {}
    BY <1>6 DEF CloseReport, DeskTyped, Blank, Idle
  <2> QED
    BY <2>1, BookStays, Turned
<1> QED
  BY <1>1, <1>2, <1>3, <1>4, <1>5, <1>6

LEMMA PageIsRead ==
    ASSUME AdminInvariant, ReadPage
    PROVE  AdminInvariant'
<1> DEFINE limit == desk.limit
           orders == NewestSelected(desk.filters, limit)
<1>t. DeskTyped /\ BookSound /\ OfferedFound
  BY DEF AdminInvariant
<1>1. /\ desk'.at = "count" /\ desk'.filters = desk.filters /\ desk'.limit = desk.limit
      /\ desk.at = "page" /\ book' = book /\ offered' = offered /\ deskMoves' = deskMoves
      /\ sheet' = [sheet EXCEPT !.rows = AdminRows(orders)]
  BY <1>t DEF ReadPage, Gather, AdminRows, AdminRow, DeskTyped
<1>2. DeskTyped' /\ sheet'.rows = AdminRows(orders) /\ sheet'.applications = sheet.applications
  <2> HIDE DEF orders
  <2>1. desk' = [at |-> desk'.at, filters |-> desk'.filters, limit |-> desk'.limit]
    BY <1>t DEF ReadPage, Gather, DeskTyped
  <2> QED
    BY <1>t, <1>1, <2>1 DEF DeskTyped
<1>3. limit \in 1 .. LargestLimit /\ limit \in Nat \ {0}
  BY <1>1, <1>t, AdminAssumption DEF DeskTyped
<1>4. PICK f : f = desk.filters
  OBVIOUS
<1>5. /\ orders \in SUBSET Selected(f)
      /\ Selected(f) \in SUBSET DOMAIN book
      /\ Cardinality(Selected(f)) \in Nat
      /\ Cardinality(orders) = IF limit <= Cardinality(Selected(f)) THEN limit
                               ELSE Cardinality(Selected(f))
      /\ Selected(f) # {} => orders # {}
  <2> HIDE DEF limit
  <2> QED
    BY <1>3, <1>4, <1>t, PageSize
<1>6. NewestSelected(desk.filters, desk.limit)' = orders /\ Selected(desk.filters)' = Selected(f)
  BY <1>1, <1>4 DEF NewestSelected, Selected
<1> HIDE DEF orders
<1>7. Cardinality(AdminRows(orders)) = Cardinality(orders)
  BY <1>5, <1>t, RowPerOrder
<1>8. \A r \in AdminRows(orders) : r.id \in DOMAIN book /\ r.key = book[r.id].key
  BY <1>5 DEF AdminRows, AdminRow
<1>10. f \in OfferedFilters => AdminRows(orders) # {}
  BY <1>5, <1>t, FoundByOffer DEF AdminRows
<1>11. OfferedFilters' = OfferedFilters
  BY <1>1 DEF OfferedFilters
<1>12. AdminRows(NewestSelected(desk.filters, desk.limit))' = AdminRows(orders)
  BY <1>1, <1>6 DEF AdminRows, AdminRow
<1>13. /\ Cardinality(AdminRows(orders)) \in 0 .. desk.limit
       /\ Cardinality(AdminRows(orders)) <= Cardinality(Selected(f))
  BY <1>3, <1>5, <1>7
<1>14. PageRead'
  BY <1>1, <1>2, <1>4, <1>6, <1>8, <1>10, <1>11, <1>12, <1>13 DEF PageRead
<1>15. BookSound' /\ OfferedFound'
  BY <1>1, <1>2, <1>t, BookStays DEF OfferedFound
<1> QED
  BY <1>1, <1>2, <1>14, <1>15
     DEF AdminInvariant, MatchesCounted, AllRead, OthersReported

LEMMA MatchesAreCounted ==
    ASSUME AdminInvariant, CountMatching
    PROVE  AdminInvariant'
<1>t. DeskTyped /\ BookSound /\ OfferedFound /\ PageRead
  BY DEF AdminInvariant
<1>1. PICK f : f = desk.filters
  OBVIOUS
<1>2. /\ desk'.at = "all" /\ desk'.filters = f /\ desk'.limit = desk.limit
      /\ desk.at = "count" /\ book' = book /\ offered' = offered /\ deskMoves' = deskMoves
      /\ sheet' = [sheet EXCEPT !.matching = Cardinality(Selected(f))]
  BY <1>1, <1>t DEF CountMatching, Gather, DeskTyped
<1>3. /\ DeskTyped' /\ sheet'.rows = sheet.rows /\ sheet'.applications = sheet.applications
      /\ sheet'.matching = Cardinality(Selected(f))
  <2>1. desk' = [at |-> desk'.at, filters |-> desk'.filters, limit |-> desk'.limit]
    BY <1>t DEF CountMatching, Gather, DeskTyped
  <2> QED
    BY <1>t, <1>2, <2>1 DEF DeskTyped
<1>4. Cardinality(Selected(f)) \in 0 .. Len(book)
  <2>1. Selected(f) \in SUBSET DOMAIN book
    BY DEF Selected
  <2> QED
    BY <1>t, <2>1, BookFinite
<1>5. Selected(desk.filters)' = Selected(f)
  BY <1>2 DEF Selected
<1>6. OfferedFilters' = OfferedFilters
  BY <1>2 DEF OfferedFilters
<1>7. AdminRows(NewestSelected(desk.filters, desk.limit))'
        = AdminRows(NewestSelected(desk.filters, desk.limit))
  BY <1>1, <1>2 DEF AdminRows, AdminRow, NewestSelected, Selected
<1>8. PageRead'
  BY <1>1, <1>2, <1>3, <1>6, <1>7, <1>t DEF PageRead
<1>9. MatchesCounted'
  <2>1. f.state = Unset => Cardinality(sheet.rows) <= Cardinality(Selected(f))
    BY <1>1, <1>2, <1>t DEF PageRead
  <2>2. Len(book) \in Nat
    BY <1>t DEF BookSound
  <2> QED
    BY <1>2, <1>3, <1>4, <1>5, <2>1, <2>2 DEF MatchesCounted
<1>10. BookSound' /\ OfferedFound'
  BY <1>2, <1>3, <1>t, BookStays DEF OfferedFound
<1> QED
  BY <1>2, <1>3, <1>8, <1>9, <1>10 DEF AdminInvariant, AllRead, OthersReported

LEMMA AllIsRead ==
    ASSUME AdminInvariant, ReadAll
    PROVE  AdminInvariant'
<1>t. DeskTyped /\ BookSound /\ OfferedFound /\ PageRead /\ MatchesCounted
  BY DEF AdminInvariant
<1> DEFINE found == {Source(book[n].key).application : n \in DOMAIN book}
<1>2. /\ desk'.at = "dashboard" /\ desk'.filters = desk.filters /\ desk'.limit = desk.limit
      /\ desk.at = "all" /\ book' = book /\ offered' = offered /\ deskMoves' = deskMoves
      /\ sheet'.rows = sheet.rows /\ sheet'.matching = sheet.matching
      /\ sheet'.total = Len(book) /\ sheet'.applications = found
      /\ sheet'.states = {book[n].status : n \in DOMAIN book}
      /\ DeskTyped'
  <2>1. desk' = [at |-> desk'.at, filters |-> desk'.filters, limit |-> desk'.limit]
    BY <1>t DEF ReadAll, Gather, DeskTyped
  <2> QED
    BY <1>t, <2>1 DEF ReadAll, Gather, DeskTyped
<1>3. OfferedFound'
  BY <1>2, <1>t DEF OfferedFound
<1>4. {Source(r.key).application : r \in sheet.rows} \subseteq found
  BY <1>2, <1>t DEF PageRead
<1> HIDE DEF found
<1>5. Selected(desk.filters)' = Selected(desk.filters)
  BY <1>2 DEF Selected
<1>6. OfferedFilters' = OfferedFilters
  BY <1>2 DEF OfferedFilters
<1>7. AdminRows(NewestSelected(desk.filters, desk.limit))'
        = AdminRows(NewestSelected(desk.filters, desk.limit))
  BY <1>2 DEF AdminRows, AdminRow, NewestSelected, Selected
<1>8. PageRead'
  BY <1>2, <1>6, <1>7, <1>t DEF PageRead
<1>9. MatchesCounted'
  BY <1>2, <1>5, <1>t DEF MatchesCounted
<1>10. AllRead'
  <2>1. {Source(r.key).application : r \in sheet.rows}'
           = {Source(r.key).application : r \in sheet.rows}
    BY <1>2 DEF Source
  <2> QED
    BY <1>2, <1>4, <1>t, <2>1 DEF AllRead, MatchesCounted
<1>11. BookSound'
  BY <1>2, BookStays
<1> QED
  BY <1>2, <1>3, <1>8, <1>9, <1>10, <1>11 DEF AdminInvariant, OthersReported

LEMMA OverviewIsRead ==
    ASSUME AdminInvariant, ReadOrders \/ CountShipments
    PROVE  AdminInvariant'
<1>t. DeskTyped /\ BookSound /\ OfferedFound /\ OthersReported
  BY DEF AdminInvariant
<1>1. BookSound' /\ Barred' = Barred /\ book' = book /\ offered' = offered
  BY BookStays DEF ReadOrders, CountShipments, Gather, Barred
<1>2. desk' = [at |-> desk'.at, filters |-> desk'.filters, limit |-> desk'.limit]
  BY <1>t DEF ReadOrders, CountShipments, Gather, DeskTyped
<1>3. CASE ReadOrders
  <2> DEFINE shared == Cardinality(
                         {k \in {JoinedKey(book[n].key) : n \in DOMAIN book} :
                            Cardinality({n \in DOMAIN book : JoinedKey(book[n].key) = k}) > 1})
  <2>1. /\ desk'.at = "shipments" /\ sheet'.duplicates = shared
        /\ sheet'.applications = sheet.applications /\ DeskTyped'
    BY <1>3, <1>2, <1>t DEF ReadOrders, Gather, DeskTyped
  <2>2. shared \in Nat /\ 2 * shared <= Cardinality(Barred)
    <3>1. shared \in Nat
      <4> DEFINE j == [n \in DOMAIN book |-> JoinedKey(book[n].key)]
                 V == {j[n] : n \in DOMAIN j}
                 W == {k \in {JoinedKey(book[n].key) : n \in DOMAIN book} :
                         Cardinality({n \in DOMAIN book : JoinedKey(book[n].key) = k}) > 1}
      <4>1. IsFiniteSet(DOMAIN j)
        BY <1>t, BookFinite
      <4>2. W \in SUBSET V
        OBVIOUS
      <4>3. IsFiniteSet(V)
        <5> HIDE DEF j
        <5> QED
          BY <4>1, ValuesFinite
      <4> HIDE DEF W, V
      <4>4. IsFiniteSet(W)
        BY <4>2, <4>3, FS_Subset
      <4>5. Cardinality(W) \in Nat
        BY <4>4, FS_CardinalityType
      <4> QED
        BY <4>5 DEF W
    <3> QED
      BY <1>t, <3>1, DuplicatesBarred
  <2> HIDE DEF shared
  <2>3. OfferedFound'
    BY <1>1, <1>t, <2>1 DEF OfferedFound
  <2> QED
    BY <1>1, <2>1, <2>2, <2>3
       DEF AdminInvariant, PageRead, MatchesCounted, AllRead, OthersReported
<1>4. CASE CountShipments
  <2>1. /\ desk.at = "shipments" /\ desk'.at = "overview" /\ sheet'.duplicates = sheet.duplicates
        /\ sheet'.applications = sheet.applications /\ DeskTyped'
    BY <1>2, <1>4, <1>t DEF CountShipments, Gather, DeskTyped
  <2>2. sheet.duplicates \in Nat /\ 2 * sheet.duplicates <= Cardinality(Barred)
    BY <1>t, <2>1 DEF OthersReported
  <2>3. OfferedFound'
    BY <1>1, <1>t, <2>1 DEF OfferedFound
  <2> QED
    BY <1>1, <2>1, <2>2, <2>3
       DEF AdminInvariant, PageRead, MatchesCounted, AllRead, OthersReported
<1> QED
  BY <1>3, <1>4

LEMMA AdminStart == AdminInit => AdminInvariant
<1> SUFFICES ASSUME AdminInit
             PROVE  AdminInvariant
  OBVIOUS
<1>1. BookSound /\ OfferedFound
  BY DEF AdminInit, BookSound, OfferedFound, Blank
<1>2. DeskTyped /\ desk.at = "none"
  BY DEF AdminInit, Idle, Blank, DeskTyped
<1> QED
  BY <1>1, <1>2 DEF AdminInvariant, PageRead, MatchesCounted, AllRead, OthersReported

LEMMA AdminStep == AdminInvariant /\ [AdminNext]_adminVars => AdminInvariant'
<1> SUFFICES ASSUME AdminInvariant, [AdminNext]_adminVars
             PROVE  AdminInvariant'
  OBVIOUS
<1>1. CASE \/ AskDashboard \/ AskOverview \/ Diagnose \/ GetActionCatalog
           \/ ApplyOrderStatusAction \/ CloseReport
  BY <1>1, ReportsBegin
<1>2. CASE ReadPage
  BY <1>2, PageIsRead
<1>3. CASE CountMatching
  BY <1>3, MatchesAreCounted
<1>4. CASE ReadAll
  BY <1>4, AllIsRead
<1>5. CASE ReadOrders \/ CountShipments
  BY <1>5, OverviewIsRead
<1>6. CASE PlaceOrder \/ MoveOrder \/ AddParcel
  BY <1>6, BookMoves, MovedOn
<1>7. CASE UNCHANGED adminVars
  <2>1. /\ book' = book /\ desk' = desk /\ sheet' = sheet /\ offered' = offered
        /\ deskMoves' = deskMoves
    BY <1>7 DEF adminVars
  <2>2. BookSound' /\ DeskTyped' /\ OfferedFound'
    BY <2>1, BookStays DEF AdminInvariant, DeskTyped, OfferedFound
  <2>3. /\ Selected(desk.filters)' = Selected(desk.filters)
        /\ OfferedFilters' = OfferedFilters
        /\ AdminRows(NewestSelected(desk.filters, desk.limit))'
              = AdminRows(NewestSelected(desk.filters, desk.limit))
    BY <2>1 DEF Selected, OfferedFilters, AdminRows, AdminRow, NewestSelected
  <2>4. PageRead' /\ MatchesCounted'
    BY <2>1, <2>3 DEF AdminInvariant, PageRead, MatchesCounted
  <2>5. AllRead'
    BY <2>1 DEF AdminInvariant, AllRead, Source
  <2>6. OthersReported'
    BY <2>1 DEF AdminInvariant, OthersReported, Barred
  <2> QED
    BY <2>2, <2>4, <2>5, <2>6 DEF AdminInvariant
<1> QED
  BY <1>1, <1>2, <1>3, <1>4, <1>5, <1>6, <1>7 DEF AdminNext

\* What the invariant says of a finished report.
LEMMA ReportsFollow ==
    ASSUME AdminInvariant
    PROVE  ReportsAddUp
<1>t. DeskTyped /\ BookSound /\ PageRead /\ MatchesCounted /\ AllRead /\ OthersReported
  BY DEF AdminInvariant
<1>1. DashboardCoherent
  <2> SUFFICES ASSUME desk.at = "dashboard"
               PROVE  /\ sheet.matching <= sheet.total
                      /\ Cardinality(sheet.rows) <= LargestLimit
                      /\ {Source(r.key).application : r \in sheet.rows} \subseteq sheet.applications
                      /\ desk.filters.state = Unset => Cardinality(sheet.rows) <= sheet.matching
                      /\ desk.filters \in OfferedFilters => sheet.rows # {}
                      /\ deskMoves = 0 =>
                            /\ Cardinality(sheet.rows) = Min({desk.limit, sheet.matching})
                            /\ {r.status : r \in sheet.rows} \subseteq sheet.states
    BY DEF DashboardCoherent, OfferedFilters
  <2>1. desk.limit \in 1 .. LargestLimit /\ LargestLimit \in Nat /\ desk.limit \in Nat \ {0}
    BY <1>t, AdminAssumption DEF DeskTyped
  <2>2. Cardinality(sheet.rows) <= LargestLimit
    BY <1>t, <2>1 DEF PageRead
  <2>3. ASSUME deskMoves = 0
        PROVE  /\ Cardinality(sheet.rows) = Min({desk.limit, sheet.matching})
               /\ {r.status : r \in sheet.rows} \subseteq sheet.states
    <3> DEFINE orders == NewestSelected(desk.filters, desk.limit)
               m == Cardinality(Selected(desk.filters))
    <3>1. /\ sheet.rows = AdminRows(orders) /\ sheet.matching = m
          /\ sheet.states = {book[n].status : n \in DOMAIN book}
      BY <1>t, <2>3 DEF PageRead, MatchesCounted, AllRead
    <3>2. /\ orders \in SUBSET DOMAIN book /\ m \in Nat
          /\ Cardinality(orders) = IF desk.limit <= m THEN desk.limit ELSE m
      BY <1>t, <2>1, PageSize
    <3> HIDE DEF orders, m
    <3>3. Cardinality(sheet.rows) = Cardinality(orders)
      BY <1>t, <3>1, <3>2, RowPerOrder
    <3>4. Min({desk.limit, m}) = IF desk.limit <= m THEN desk.limit ELSE m
      BY <2>1, <3>2 DEF Min
    <3>5. {r.status : r \in sheet.rows} \subseteq sheet.states
      BY <3>1, <3>2 DEF AdminRows, AdminRow
    <3> QED
      BY <3>1, <3>2, <3>3, <3>4, <3>5
  <2> QED
    BY <1>t, <2>2, <2>3 DEF PageRead, MatchesCounted, AllRead
<1>2. NoFalseDuplicates
  BY <1>t DEF OthersReported, NoFalseDuplicates, Barred
<1>3. CatalogComplete
  <2>1. CatalogStatuses = {s \in OrderStatus : \E from \in OrderStatus \ {s} : StatusStep(from, s)}
    BY DEF CatalogStatuses, OrderStatus, StatusStep, OrderTransitions, CancellationSources
  <2> QED
    BY <1>t, <2>1 DEF OthersReported, CatalogComplete
<1> QED
  BY <1>1, <1>2, <1>3 DEF ReportsAddUp

LEMMA AdminReportsSound == AdminSpec => []ReportsAddUp
BY AdminStart, AdminStep, ReportsFollow, PTL DEF AdminSpec

-----------------------------------------------------------------------------

(***************************************************************************)
(* The detail page.  Facts whose places differ are ranked by date, those   *)
(* of one date by place.                                                   *)
(***************************************************************************)

Placed(S) ==
    /\ IsFiniteSet(S)
    /\ \A x \in S : x.at \in Nat /\ x.place \in Nat
    /\ \A x, y \in S : x.at = y.at /\ x.place = y.place => x = y

Before(S, x) == {y \in S : Precedes(y, x)}

LEMMA RankRises ==
    ASSUME NEW S, Placed(S), NEW x \in S, NEW y \in S, Precedes(x, y)
    PROVE  /\ Cardinality(Before(S, x)) \in Nat /\ Cardinality(Before(S, y)) \in Nat
           /\ Cardinality(Before(S, x)) < Cardinality(Before(S, y))
<1> DEFINE X == Before(S, x)
           Y == Before(S, y)
<1>1. X \in SUBSET Y
  <2> SUFFICES ASSUME NEW z \in S, Precedes(z, x)
               PROVE  Precedes(z, y)
    BY DEF Before
  <2> QED
    BY DEF Placed, Precedes
<1>2. x \in Y /\ x \notin X
  BY DEF Before, Placed, Precedes
<1>3. Y \in SUBSET S /\ IsFiniteSet(S)
  BY DEF Before, Placed
<1> HIDE DEF X, Y
<1>4. IsFiniteSet(X) /\ IsFiniteSet(Y)
  BY <1>1, <1>3, FS_Subset
<1>5. /\ Cardinality(X) <= Cardinality(Y)
      /\ Cardinality(Y) = Cardinality(X) => Y = X
  BY <1>1, <1>4, FS_Subset
<1>6. Cardinality(X) \in Nat /\ Cardinality(Y) \in Nat
  BY <1>4, FS_CardinalityType
<1> QED
  BY <1>2, <1>5, <1>6 DEF X, Y

\* A list of facts has each of them once, in their order.
LEMMA ListedLatestFirst ==
    ASSUME NEW S, Placed(S), NEW list, list = LatestFirst(S)
    PROVE  /\ list \in Seq(S) /\ Len(list) = Cardinality(S)
           /\ \A x \in S : \E i \in DOMAIN list : list[i] = x
           /\ \A i, j \in DOMAIN list : i < j => Precedes(list[i], list[j])
<1> DEFINE n == Cardinality(S)
           rank == [x \in S |-> Cardinality(Before(S, x)) + 1]
<1>1. IsFiniteSet(S) /\ n \in Nat
  BY FS_CardinalityType DEF Placed
<1>2. ASSUME NEW x \in S
      PROVE  rank[x] \in 1 .. n
  <2>1. Before(S, x) \in SUBSET S /\ x \notin Before(S, x)
    BY DEF Before, Placed, Precedes
  <2>2. /\ Cardinality(Before(S, x)) <= n
        /\ n = Cardinality(Before(S, x)) => S = Before(S, x)
        /\ IsFiniteSet(Before(S, x))
    BY <1>1, <2>1, FS_Subset
  <2>3. Cardinality(Before(S, x)) \in Nat
    BY <2>2, FS_CardinalityType
  <2> QED
    BY <1>1, <2>1, <2>2, <2>3
<1>3. ASSUME NEW x \in S, NEW y \in S
      PROVE  /\ Precedes(x, y) => rank[x] < rank[y]
             /\ x = y \/ Precedes(x, y) \/ Precedes(y, x)
  <2>1. Precedes(x, y) => rank[x] < rank[y]
    BY RankRises
  <2>2. x = y \/ Precedes(x, y) \/ Precedes(y, x)
    BY DEF Placed, Precedes
  <2> QED
    BY <2>1, <2>2
<1>4. rank \in [S -> 1 .. n]
  BY <1>2
<1>d. \A x \in S : rank[x] = Cardinality(Before(S, x)) + 1
  OBVIOUS
<1> HIDE DEF rank
<1>5. rank \in Surjection(S, 1 .. n)
  <2>1. \A x, y \in S : rank[x] = rank[y] => x = y
    BY <1>2, <1>3
  <2>2. rank \in Injection(S, 1 .. n)
    BY <1>4, <2>1 DEF Injection, IsInjective
  <2>3. IsFiniteSet(1 .. n) /\ Cardinality(1 .. n) = n
    <3> HIDE DEF n
    <3>1. n \in Int /\ 1 \in Int
      BY <1>1
    <3>2. IsFiniteSet(1 .. n) /\ Cardinality(1 .. n) = IF 1 > n THEN 0 ELSE n - 1 + 1
      BY <3>1, FS_Interval
    <3> QED
      BY <1>1, <3>2
  <2> QED
    BY <2>2, <2>3, FS_Injection
<1> HIDE DEF n
<1>6. ASSUME NEW i \in 1 .. n
      PROVE  list[i] \in S /\ rank[list[i]] = i
  <2>1. PICK x \in S : rank[x] = i
    BY <1>5 DEF Surjection
  <2>2. Cardinality(Before(S, x)) = i - 1
    <3>1. Cardinality(Before(S, x)) \in Nat
      <4>1. Before(S, x) \in SUBSET S
        BY DEF Before
      <4> QED
        BY <1>1, <4>1, FS_Subset, FS_CardinalityType
    <3> QED
      BY <1>d, <2>1, <3>1
  <2>3. list[i] = CHOOSE y \in S : Cardinality(Before(S, y)) = i - 1
    BY DEF LatestFirst, Before, n
  <2>4. list[i] \in S /\ Cardinality(Before(S, list[i])) = i - 1
    BY <2>2, <2>3
  <2> QED
    BY <1>1, <1>d, <2>4
<1>7. list \in Seq(S) /\ Len(list) = n /\ DOMAIN list = 1 .. n
  <2>1. list \in [1 .. n -> S]
    <3> DEFINE f == [i \in 1 .. n |->
                       CHOOSE x \in S : Cardinality({y \in S : Precedes(y, x)}) = i - 1]
    <3>1. list = f
      BY DEF LatestFirst, n
    <3>2. f = [i \in 1 .. n |-> f[i]]
      OBVIOUS
    <3> HIDE DEF f
    <3> QED
      BY <1>6, <3>1, <3>2
  <2> QED
    BY <1>1, <2>1
<1>8. \A x \in S : \E i \in 1 .. n : list[i] = x
  <2> SUFFICES ASSUME NEW x \in S
               PROVE  list[rank[x]] = x
    BY <1>4
  <2>1. rank[x] \in 1 .. n
    BY <1>4
  <2>2. list[rank[x]] \in S /\ rank[list[rank[x]]] = rank[x]
    BY <1>6, <2>1
  <2>3. \A y \in S : rank[y] \in Int
    BY <1>4
  <2> QED
    BY <1>3, <2>2, <2>3
<1>9. ASSUME NEW i \in 1 .. n, NEW j \in 1 .. n, i < j
      PROVE  Precedes(list[i], list[j])
  <2>1. /\ list[i] \in S /\ rank[list[i]] = i
        /\ list[j] \in S /\ rank[list[j]] = j
    BY <1>6
  <2>2. \/ list[i] = list[j]
        \/ Precedes(list[i], list[j])
        \/ rank[list[j]] < rank[list[i]]
    BY <1>3, <2>1
  <2> QED
    BY <1>9, <2>1, <2>2
<1> QED
  BY <1>7, <1>8, <1>9 DEF n

\* A shipment as its row tells it: unless a request gave its status or dates,
\* what happened to it came after its creation.
ParcelType ==
    [orderId : {"this", "another"}, status : ParcelStatus, created : Nat \ {0}, shipped : Nat,
     delivered : Nat, given : BOOLEAN]

ParcelRow ==
    {row \in ParcelType : ~row.given =>
        /\ row.created > 2
        /\ \A e \in {row.shipped, row.delivered} \ {0} : e > row.created
        /\ row.status = "delivered" => row.delivered > row.shipped}

CardRow == [created : {2}, updated : Nat \ {0, 1}]

\* The facts, told one by one.
LEMMA FactsTold ==
    ASSUME NEW order \in CardRow, NEW rows \in Seq(ParcelRow), NEW x \in Facts(order, rows)
    PROVE  /\ x.at \in Nat \ {0} /\ x.place \in 1 .. 3 * Len(rows) + 2
           /\ \/ x = Fact("order.created", 2, 1)
              \/ x = Fact("order.state", order.updated, 2)
              \/ \E i \in 1 .. Len(rows) :
                    \/ x = Fact("shipment.created", rows[i].created, 3 * i)
                    \/ x = Fact("shipment.shipped", rows[i].shipped, 3 * i + 1)
                    \/ x = Fact("shipment.delivered", rows[i].delivered, 3 * i + 2)
<1>1. /\ x.at # 0
      /\ \/ x = Fact("order.created", 2, 1)
         \/ x = Fact("order.state", order.updated, 2)
         \/ \E i \in 1 .. Len(rows) :
               \/ x = Fact("shipment.created", rows[i].created, 3 * i)
               \/ x = Fact("shipment.shipped", rows[i].shipped, 3 * i + 1)
               \/ x = Fact("shipment.delivered", rows[i].delivered, 3 * i + 2)
  <2>1. DOMAIN rows = 1 .. Len(rows) /\ order.created = 2
    BY DEF CardRow
  <2> QED
    BY <2>1 DEF Facts, ParcelFacts
<1>2. Len(rows) \in Nat /\ order.updated \in Nat
  BY DEF CardRow
<1>3. \A i \in 1 .. Len(rows) :
         /\ rows[i].created \in Nat /\ rows[i].shipped \in Nat /\ rows[i].delivered \in Nat
  <2> SUFFICES ASSUME NEW i \in 1 .. Len(rows)
               PROVE  /\ rows[i].created \in Nat /\ rows[i].shipped \in Nat
                      /\ rows[i].delivered \in Nat
    OBVIOUS
  <2>1. rows[i] \in ParcelRow
    OBVIOUS
  <2> QED
    BY <2>1 DEF ParcelRow, ParcelType
<1>4. CASE x = Fact("order.created", 2, 1) \/ x = Fact("order.state", order.updated, 2)
  BY <1>1, <1>2, <1>4 DEF Fact
<1>5. ASSUME NEW i \in 1 .. Len(rows),
             \/ x = Fact("shipment.created", rows[i].created, 3 * i)
             \/ x = Fact("shipment.shipped", rows[i].shipped, 3 * i + 1)
             \/ x = Fact("shipment.delivered", rows[i].delivered, 3 * i + 2)
      PROVE  x.at \in Nat \ {0} /\ x.place \in 1 .. 3 * Len(rows) + 2
  <2>1. x.at \in {rows[i].created, rows[i].shipped, rows[i].delivered}
    BY <1>5 DEF Fact
  <2>2. x.place \in {3 * i, 3 * i + 1, 3 * i + 2}
    BY <1>5 DEF Fact
  <2>3. i \in Int /\ 1 <= i /\ i <= Len(rows)
    BY <1>2
  <2> QED
    BY <1>1, <1>2, <1>3, <2>1, <2>2, <2>3
<1> QED
  BY <1>1, <1>4, <1>5

LEMMA FactsPlaced ==
    ASSUME NEW order \in CardRow, NEW rows \in Seq(ParcelRow)
    PROVE  Placed(Facts(order, rows))
<1> DEFINE S == Facts(order, rows)
           n == 3 * Len(rows) + 2
           place == [x \in S |-> x.place]
<1>1. ASSUME NEW x \in S
      PROVE  /\ x.at \in Nat \ {0} /\ x.place \in 1 .. n
             /\ \/ x = Fact("order.created", 2, 1)
                \/ x = Fact("order.state", order.updated, 2)
                \/ \E i \in 1 .. Len(rows) :
                      \/ x = Fact("shipment.created", rows[i].created, 3 * i)
                      \/ x = Fact("shipment.shipped", rows[i].shipped, 3 * i + 1)
                      \/ x = Fact("shipment.delivered", rows[i].delivered, 3 * i + 2)
  BY FactsTold
<1>2. Len(rows) \in Nat
  OBVIOUS
<1> HIDE DEF S
<1>3. ASSUME NEW x \in S, NEW y \in S, x.place = y.place
      PROVE  x = y
  <2>1. CASE x = Fact("order.created", 2, 1) \/ x = Fact("order.state", order.updated, 2)
    BY <1>1, <1>2, <1>3, <2>1 DEF Fact
  <2>2. CASE y = Fact("order.created", 2, 1) \/ y = Fact("order.state", order.updated, 2)
    BY <1>1, <1>2, <1>3, <2>2 DEF Fact
  <2>3. ASSUME NEW i \in 1 .. Len(rows), NEW j \in 1 .. Len(rows),
               \/ x = Fact("shipment.created", rows[i].created, 3 * i)
               \/ x = Fact("shipment.shipped", rows[i].shipped, 3 * i + 1)
               \/ x = Fact("shipment.delivered", rows[i].delivered, 3 * i + 2),
               \/ y = Fact("shipment.created", rows[j].created, 3 * j)
               \/ y = Fact("shipment.shipped", rows[j].shipped, 3 * j + 1)
               \/ y = Fact("shipment.delivered", rows[j].delivered, 3 * j + 2)
        PROVE  x = y
    <3>1. i \in Int /\ j \in Int
      BY <1>2
    <3>2. /\ x.place = 3 * i \/ x.place = 3 * i + 1 \/ x.place = 3 * i + 2
          /\ y.place = 3 * j \/ y.place = 3 * j + 1 \/ y.place = 3 * j + 2
      BY <2>3 DEF Fact
    <3>3. i = j
      BY <1>3, <3>1, <3>2
    <3> QED
      BY <1>3, <2>3, <3>1, <3>3 DEF Fact
  <2> QED
    BY <1>1, <2>1, <2>2, <2>3
<1>4. IsFiniteSet(S)
  <2>1. place \in Injection(S, 1 .. n)
    BY <1>1, <1>3 DEF Injection, IsInjective
  <2>2. n \in Int /\ 1 \in Int
    BY <1>2
  <2> HIDE DEF n, place
  <2>3. IsFiniteSet(1 .. n)
    BY <2>2, FS_Interval
  <2> QED
    BY <2>1, <2>3, FS_Injection
<1>5. \A x \in S : x.at \in Nat /\ x.place \in Nat
  BY <1>1, <1>2
<1> QED
  BY <1>3, <1>4, <1>5 DEF Placed, S

\* What the page that is made of an order and its shipments tells.
TimelineTells(told, order, rows) ==
    /\ \A i, j \in DOMAIN told : i < j => told[i].at >= told[j].at
    /\ \A i \in DOMAIN told :
          \/ told[i].at >= 2
          \/ \E k \in DOMAIN rows :
                /\ rows[k].given
                /\ told[i].at \in {rows[k].created, rows[k].shipped, rows[k].delivered}
    /\ Cardinality({i \in DOMAIN told : told[i].type = "order.created"}) = 1
    /\ (\E i \in DOMAIN told : told[i].type = "shipment.created") <=> rows # <<>>
    /\ told \in Seq(Facts(order, rows))
    /\ \A i \in DOMAIN told : told[i].at \in Nat

LEMMA TimelineTrue ==
    ASSUME NEW order \in CardRow, NEW rows \in Seq(ParcelRow),
           NEW told, told = LatestFirst(Facts(order, rows))
    PROVE  TimelineTells(told, order, rows)
<1> DEFINE S == Facts(order, rows)
           first == Fact("order.created", 2, 1)
<1>1. /\ told \in Seq(S)
      /\ \A x \in S : \E i \in DOMAIN told : told[i] = x
      /\ \A i, j \in DOMAIN told : i < j => Precedes(told[i], told[j])
  BY FactsPlaced, ListedLatestFirst
<1>2. \A x \in S :
         /\ x.at \in Nat \ {0}
         /\ \/ x = first
            \/ x = Fact("order.state", order.updated, 2)
            \/ \E i \in 1 .. Len(rows) :
                  \/ x = Fact("shipment.created", rows[i].created, 3 * i)
                  \/ x = Fact("shipment.shipped", rows[i].shipped, 3 * i + 1)
                  \/ x = Fact("shipment.delivered", rows[i].delivered, 3 * i + 2)
  BY FactsTold
<1>3. first \in S /\ first.at = 2 /\ first.type = "order.created"
  <2>1. order.created = 2
    BY DEF CardRow
  <2> QED
    BY <2>1 DEF Facts, Fact
<1>4. \A x \in S : x.type = "order.created" => x = first
  BY <1>2 DEF Fact
<1>5. ASSUME NEW i \in 1 .. Len(rows)
      PROVE  \E x \in S : x.type = "shipment.created"
  <2> DEFINE x == Fact("shipment.created", rows[i].created, 3 * i)
  <2>1. rows[i] \in ParcelRow /\ i \in DOMAIN rows
    OBVIOUS
  <2>2. rows[i].created # 0
    BY <2>1 DEF ParcelRow, ParcelType
  <2>3. x \in ParcelFacts(rows[i], 3 * i) /\ x.at # 0
    BY <2>2 DEF ParcelFacts, Fact
  <2>4. x \in S
    BY <2>1, <2>3 DEF Facts
  <2> QED
    BY <2>4 DEF Fact
<1>6. \A x \in S : x.type = "shipment.created" => \E i \in 1 .. Len(rows) : TRUE
  BY <1>2 DEF Fact
<1> HIDE DEF S, first
<1>7. DOMAIN told = 1 .. Len(told) /\ Len(told) \in Nat /\ \A i \in DOMAIN told : told[i] \in S
  BY <1>1
<1>8. PICK m \in DOMAIN told : told[m] = first
  BY <1>1, <1>3
<1>9. \A i, j \in DOMAIN told : i < j => told[i].at >= told[j].at
  BY <1>1, <1>2, <1>7 DEF Precedes
<1>10. ASSUME NEW i \in DOMAIN told
       PROVE  \/ told[i].at >= 2
              \/ \E k \in DOMAIN rows :
                    /\ rows[k].given
                    /\ told[i].at \in {rows[k].created, rows[k].shipped, rows[k].delivered}
  <2>1. told[i] \in S
    BY <1>7
  <2>2. order.updated >= 2
    BY DEF CardRow
  <2>3. CASE told[i] = first \/ told[i] = Fact("order.state", order.updated, 2)
    BY <1>3, <2>2, <2>3 DEF Fact
  <2>4. ASSUME NEW k \in 1 .. Len(rows),
               \/ told[i] = Fact("shipment.created", rows[k].created, 3 * k)
               \/ told[i] = Fact("shipment.shipped", rows[k].shipped, 3 * k + 1)
               \/ told[i] = Fact("shipment.delivered", rows[k].delivered, 3 * k + 2)
        PROVE  \/ told[i].at >= 2
               \/ /\ rows[k].given
                  /\ told[i].at \in {rows[k].created, rows[k].shipped, rows[k].delivered}
    <3>1. rows[k] \in ParcelRow
      OBVIOUS
    <3>2. told[i].at \in {rows[k].created, rows[k].shipped, rows[k].delivered}
      BY <2>4 DEF Fact
    <3>3. told[i].at # 0
      BY <1>2, <2>1
    <3>4. CASE rows[k].given
      BY <3>2, <3>4
    <3>5. CASE ~rows[k].given
      <4>1. /\ rows[k].created \in Nat /\ rows[k].created > 2
            /\ rows[k].shipped \in Nat /\ rows[k].delivered \in Nat
            /\ rows[k].shipped # 0 => rows[k].shipped > rows[k].created
            /\ rows[k].delivered # 0 => rows[k].delivered > rows[k].created
        BY <3>1, <3>5 DEF ParcelRow, ParcelType
      <4> QED
        BY <3>2, <3>3, <4>1
    <3> QED
      BY <3>4, <3>5
  <2>5. DOMAIN rows = 1 .. Len(rows)
    OBVIOUS
  <2> QED
    BY <1>2, <2>1, <2>3, <2>4, <2>5
<1>11. {i \in DOMAIN told : told[i].type = "order.created"} = {m}
  <2>1. ASSUME NEW i \in DOMAIN told, told[i].type = "order.created"
        PROVE  i = m
    <3>1. told[i] = first
      BY <1>4, <1>7, <2>1
    <3>2. ~Precedes(first, first)
      BY <1>3 DEF Precedes, first, Fact
    <3> QED
      BY <1>1, <1>7, <1>8, <3>1, <3>2
  <2> QED
    BY <1>3, <1>8, <2>1
<1>12. Cardinality({i \in DOMAIN told : told[i].type = "order.created"}) = 1
  BY <1>11, FS_Singleton
<1>13. (\E i \in DOMAIN told : told[i].type = "shipment.created") <=> rows # <<>>
  <2>1. rows # <<>> => 1 \in 1 .. Len(rows)
    BY EmptySeq
  <2>2. rows = <<>> => 1 .. Len(rows) = {}
    BY EmptySeq
  <2> QED
    BY <1>1, <1>5, <1>6, <1>7, <2>1, <2>2
<1>14. \A i \in DOMAIN told : told[i].at \in Nat
  BY <1>2, <1>7
<1> QED
  BY <1>1, <1>9, <1>10, <1>12, <1>13, <1>14 DEF S, TimelineTells

\* The log says once whether a shipment is linked.
LEMMA LogTrue ==
    ASSUME NEW order \in CardRow, NEW rows, NEW T, NEW told \in Seq(T),
           \A i \in DOMAIN told : told[i].at \in Nat,
           NEW log, log = SafeLog(order, rows, told)
    PROVE  (\E i \in DOMAIN log : log[i].level = "warn") <=> rows = <<>>
<1> DEFINE n == Len(told)
           told1 == {[level |-> "info", at |-> told[i].at, place |-> i] : i \in DOMAIN told}
           linked == [level |-> IF rows = <<>> THEN "warn" ELSE "info",
                      at |-> order.updated, place |-> n + 1]
           E == told1 \cup {linked}
           place == [x \in E |-> x.place]
<1>1. n \in Nat /\ DOMAIN told = 1 .. n /\ order.updated \in Nat
  BY DEF CardRow
<1>2. \A x \in E : x.at \in Nat /\ x.place \in 1 .. n + 1
  BY <1>1
<1>3. \A x, y \in E : x.place = y.place => x = y
  BY <1>1
<1>4. (\E x \in E : x.level = "warn") <=> rows = <<>>
  <2>1. \A x \in told1 : x.level = "info"
    OBVIOUS
  <2>2. linked.level = IF rows = <<>> THEN "warn" ELSE "info"
    OBVIOUS
  <2> HIDE DEF told1, linked
  <2> QED
    BY <2>1, <2>2
<1>5. log = LatestFirst(E)
  BY DEF SafeLog
<1> HIDE DEF E
<1>6. IsFiniteSet(E)
  <2>1. place \in Injection(E, 1 .. n + 1)
    BY <1>2, <1>3 DEF Injection, IsInjective
  <2>2. n + 1 \in Int /\ 1 \in Int
    BY <1>1
  <2> HIDE DEF n, place
  <2>3. IsFiniteSet(1 .. n + 1)
    BY <2>2, FS_Interval
  <2> QED
    BY <2>1, <2>3, FS_Injection
<1>7. Placed(E)
  BY <1>1, <1>2, <1>3, <1>6 DEF Placed
<1>8. log \in Seq(E) /\ \A x \in E : \E i \in DOMAIN log : log[i] = x
  BY <1>5, <1>7, ListedLatestFirst
<1>9. \A i \in DOMAIN log : log[i] \in E
  BY <1>8
<1> QED
  BY <1>4, <1>8, <1>9

(***************************************************************************)
(* The tables' invariant: one clock dates all that happens but to the      *)
(* shipments whose status or dates a request gave.                         *)
(***************************************************************************)

Dated(row, now) ==
    ~row.given => row.created <= now /\ row.shipped <= now /\ row.delivered <= now

TablesDated ==
    /\ clock \in Nat \ {0, 1}
    /\ card \in [created : {2}, updated : 2 .. clock]
    /\ IsFiniteSet(DOMAIN parcelRows)
    /\ parcelRows \in [DOMAIN parcelRows -> ParcelRow]
    /\ \A p \in DOMAIN parcelRows : Dated(parcelRows[p], clock)

DetailRead ==
    /\ detail = [at |-> detail.at, order |-> detail.order, rows |-> detail.rows,
                 timeline |-> detail.timeline, log |-> detail.log]
    /\ detail.at \in {"none", "shipments", "shown"}
    /\ detail.at = "shipments" => detail.order \in CardRow

DetailInvariant == TablesDated /\ DetailRead /\ DetailTruthful

\* One shipment's row is written, or added, at a tick.
LEMMA RowWritten ==
    ASSUME TablesDated, clock' = clock + 1, card' = card, NEW p, NEW row \in ParcelRow,
           parcelRows' = [q \in DOMAIN parcelRows \cup {p} |->
                            IF q # p THEN parcelRows[q] ELSE row],
           Dated(row, clock + 1)
    PROVE  TablesDated'
<1>1. /\ clock \in Nat \ {0, 1} /\ clock' \in Nat \ {0, 1}
      /\ card' \in [created : {2}, updated : 2 .. clock']
      /\ \A q \in DOMAIN parcelRows : parcelRows[q] \in ParcelRow /\ Dated(parcelRows[q], clock)
  BY DEF TablesDated
<1>2. /\ DOMAIN parcelRows' = DOMAIN parcelRows \cup {p}
      /\ parcelRows' \in [DOMAIN parcelRows' -> ParcelRow]
  BY <1>1
<1>3. IsFiniteSet(DOMAIN parcelRows')
  BY <1>2, FS_AddElement DEF TablesDated
<1>4. ASSUME NEW q \in DOMAIN parcelRows'
      PROVE  Dated(parcelRows'[q], clock')
  <2>1. CASE q = p
    BY <1>2, <2>1
  <2>2. CASE q # p
    <3>1. /\ parcelRows'[q] = parcelRows[q] /\ parcelRows[q] \in ParcelRow
          /\ Dated(parcelRows[q], clock)
      BY <1>1, <1>2, <2>2
    <3> QED
      BY <1>1, <3>1 DEF Dated, ParcelRow, ParcelType
  <2> QED
    BY <2>1, <2>2
<1> QED
  BY <1>1, <1>2, <1>3, <1>4 DEF TablesDated

\* Dating one more thing that happened to a shipment.
LEMMA ParcelDated ==
    ASSUME NEW row \in ParcelRow, NEW now \in Nat \ {0}, Dated(row, now - 1)
    PROVE  /\ PickedUp(row, now) \in ParcelRow /\ Dated(PickedUp(row, now), now)
           /\ \A status \in {"in_transit", "delivered"} :
                 /\ WithStatus(row, status, now) \in ParcelRow
                 /\ Dated(WithStatus(row, status, now), now)
<1>1. /\ row = [orderId |-> row.orderId, status |-> row.status, created |-> row.created,
                shipped |-> row.shipped, delivered |-> row.delivered, given |-> row.given]
      /\ row.orderId \in {"this", "another"} /\ row.status \in ParcelStatus
      /\ row.created \in Nat \ {0} /\ row.shipped \in Nat /\ row.delivered \in Nat
      /\ row.given \in BOOLEAN
      /\ ~row.given =>
            /\ row.created > 2 /\ row.created < now /\ row.shipped < now /\ row.delivered < now
            /\ row.shipped = 0 \/ row.shipped > row.created
            /\ row.delivered = 0 \/ row.delivered > row.created
            /\ row.status = "delivered" => row.delivered > row.shipped
  BY DEF ParcelRow, ParcelType, Dated
<1>2. ASSUME NEW status \in {"picked_up", "in_transit", "delivered"}, NEW shipped \in Nat,
             NEW delivered \in Nat,
             shipped \in {row.shipped, now}, delivered \in {row.delivered, now},
             status = "delivered" => delivered = now /\ shipped = row.shipped,
             NEW r, r = [orderId |-> row.orderId, status |-> status, created |-> row.created,
                         shipped |-> shipped, delivered |-> delivered, given |-> row.given]
      PROVE  r \in ParcelRow /\ Dated(r, now)
  <2>1. /\ r.status = status /\ r.created = row.created /\ r.shipped = shipped
        /\ r.delivered = delivered /\ r.given = row.given
    BY <1>2
  <2>2. r \in ParcelType
    BY <1>1, <1>2 DEF ParcelType, ParcelStatus
  <2>3. ASSUME ~row.given
        PROVE  /\ shipped <= now /\ delivered <= now /\ row.created <= now
               /\ shipped = 0 \/ shipped > row.created
               /\ delivered = 0 \/ delivered > row.created
               /\ status = "delivered" => delivered > shipped
    BY <1>1, <1>2, <2>3
  <2>4. ~r.given =>
          /\ r.created > 2
          /\ \A e \in {r.shipped, r.delivered} \ {0} : e > r.created
          /\ r.status = "delivered" => r.delivered > r.shipped
          /\ r.created <= now /\ r.shipped <= now /\ r.delivered <= now
    <3> SUFFICES ASSUME ~row.given
                 PROVE  /\ r.created > 2
                        /\ \A e \in {r.shipped, r.delivered} \ {0} : e > r.created
                        /\ r.status = "delivered" => r.delivered > r.shipped
                        /\ r.created <= now /\ r.shipped <= now /\ r.delivered <= now
      BY <2>1
    <3>1. row.created > 2
      BY <1>1
    <3> HIDE DEF ParcelRow
    <3> QED
      BY <2>1, <2>3, <3>1
  <2> QED
    BY <2>2, <2>4 DEF ParcelRow, Dated
<1>3. PickedUp(row, now) =
        [orderId |-> row.orderId, status |-> "picked_up", created |-> row.created,
         shipped |-> now, delivered |-> row.delivered, given |-> row.given]
  <2> DEFINE r1 == [row EXCEPT !.status = "picked_up"]
  <2>1. r1 = [orderId |-> row.orderId, status |-> "picked_up", created |-> row.created,
              shipped |-> row.shipped, delivered |-> row.delivered, given |-> row.given]
    BY <1>1
  <2>2. PickedUp(row, now) = [r1 EXCEPT !.shipped = now]
    BY DEF PickedUp
  <2> HIDE DEF r1
  <2> QED
    BY <2>1, <2>2
<1>4. ASSUME NEW status \in {"in_transit", "delivered"}
      PROVE  WithStatus(row, status, now) =
                [orderId |-> row.orderId, status |-> status, created |-> row.created,
                 shipped |-> row.shipped,
                 delivered |-> IF status = "delivered" THEN now ELSE row.delivered,
                 given |-> row.given]
  <2> DEFINE date == IF status = "delivered" THEN now ELSE row.delivered
             r1 == [row EXCEPT !.status = status]
  <2>1. r1 = [orderId |-> row.orderId, status |-> status, created |-> row.created,
              shipped |-> row.shipped, delivered |-> row.delivered, given |-> row.given]
    BY <1>1
  <2>2. WithStatus(row, status, now) = [r1 EXCEPT !.delivered = date]
    BY <2>1 DEF WithStatus
  <2> HIDE DEF date, r1
  <2>3. WithStatus(row, status, now) =
          [orderId |-> row.orderId, status |-> status, created |-> row.created,
           shipped |-> row.shipped, delivered |-> date, given |-> row.given]
    BY <2>1, <2>2
  <2> QED
    BY <2>3 DEF date
<1>5. PickedUp(row, now) \in ParcelRow /\ Dated(PickedUp(row, now), now)
  BY <1>1, <1>2, <1>3
<1>6. ASSUME NEW status \in {"in_transit", "delivered"}
      PROVE  WithStatus(row, status, now) \in ParcelRow /\ Dated(WithStatus(row, status, now), now)
  <2>1. CASE status = "delivered"
    BY <1>1, <1>2, <1>4, <2>1
  <2>2. CASE status # "delivered"
    BY <1>1, <1>2, <1>4, <2>2
  <2> QED
    BY <2>1, <2>2
<1> QED
  BY <1>5, <1>6

\* What a create request makes of a row, and of none.
LEMMA ParcelSent ==
    ASSUME NEW body \in ParcelBodies, NEW now \in Nat, now > 2,
           NEW row \in ParcelRow, Dated(row, now)
    PROVE  WithBody(row, body) \in ParcelRow /\ Dated(WithBody(row, body), now)
<1> DEFINE new == WithBody(row, body)
<1>1. /\ row.orderId \in {"this", "another"} /\ row.status \in ParcelStatus
      /\ row.created \in Nat \ {0} /\ row.shipped \in Nat /\ row.delivered \in Nat
      /\ row.given \in BOOLEAN
  BY DEF ParcelRow, ParcelType
<1>2. /\ Sent(body, "orderId", row.orderId) \in {"this", "another"}
      /\ Sent(body, "status", row.status) \in ParcelStatus
      /\ Sent(body, "created", row.created) \in Nat \ {0}
      /\ Sent(body, "shipped", row.shipped) \in Nat
      /\ Sent(body, "delivered", row.delivered) \in Nat
  BY <1>1, DetailAssumption DEF Sent
<1>3. new \in ParcelType
  BY <1>1, <1>2 DEF WithBody, ParcelType
<1>4. ASSUME ~new.given
      PROVE  /\ ~row.given
             /\ new.status = row.status /\ new.created = row.created
             /\ new.shipped = row.shipped /\ new.delivered = row.delivered
  BY <1>4 DEF WithBody, Sent
<1> HIDE DEF new
<1>5. ASSUME ~new.given
      PROVE  /\ new.created > 2 /\ new.created <= now
             /\ new.shipped <= now /\ new.delivered <= now
             /\ \A e \in {new.shipped, new.delivered} \ {0} : e > new.created
             /\ new.status = "delivered" => new.delivered > new.shipped
  <2>1. ~row.given
    BY <1>4, <1>5
  <2>2. /\ row.created > 2 /\ row.created <= now /\ row.shipped <= now /\ row.delivered <= now
        /\ \A e \in {row.shipped, row.delivered} \ {0} : e > row.created
        /\ row.status = "delivered" => row.delivered > row.shipped
    BY <2>1 DEF ParcelRow, Dated
  <2> QED
    BY <1>4, <1>5, <2>2
<1>6. new \in ParcelRow
  BY <1>3, <1>5, Zenon DEF ParcelRow
<1>7. Dated(new, now)
  BY <1>5, Zenon DEF Dated
<1> QED
  BY <1>6, <1>7 DEF new

LEMMA NewParcelDated ==
    ASSUME NEW now \in Nat, now > 2
    PROVE  NewParcel(now) \in ParcelRow /\ Dated(NewParcel(now), now)
BY DEF NewParcel, ParcelRow, ParcelType, ParcelStatus, Dated

LEMMA TablesMove ==
    ASSUME TablesDated, TouchOrder \/ LinkParcel \/ TrackParcel \/ MoveParcel
    PROVE  TablesDated'
<1>c. clock' = clock + 1
  BY DEF TouchOrder, LinkParcel, TrackParcel, MoveParcel, Tick
<1>1. /\ clock \in Nat \ {0, 1} /\ clock + 1 \in Nat \ {0} /\ clock + 1 > 2
      /\ clock + 1 - 1 = clock
      /\ parcelRows \in [DOMAIN parcelRows -> ParcelRow]
      /\ \A q \in DOMAIN parcelRows : parcelRows[q] \in ParcelRow /\ Dated(parcelRows[q], clock)
  BY DEF TablesDated
<1>2. ASSUME NEW q \in DOMAIN parcelRows
      PROVE  Dated(parcelRows[q], clock + 1)
  <2>1. parcelRows[q] \in ParcelRow /\ Dated(parcelRows[q], clock)
    BY <1>1
  <2> QED
    BY <1>1, <2>1 DEF Dated, ParcelRow, ParcelType
<1>3. CASE TouchOrder
  <2>1. parcelRows' = parcelRows
    BY <1>3 DEF TouchOrder
  <2>2. card' \in [created : {2}, updated : 2 .. clock'] /\ clock' \in Nat \ {0, 1}
    BY <1>c, <1>1, <1>3 DEF TouchOrder, TablesDated
  <2> QED
    BY <1>c, <1>1, <1>2, <2>1, <2>2 DEF TablesDated
<1>4. CASE LinkParcel
  <2>1. PICK p \in ParcelIds, body \in ParcelBodies :
          parcelRows' = [q \in DOMAIN parcelRows \cup {p} |->
                            IF q # p THEN parcelRows[q]
                            ELSE WithBody(IF p \in DOMAIN parcelRows THEN parcelRows[p]
                                          ELSE NewParcel(clock + 1), body)]
    BY <1>4 DEF LinkParcel
  <2>2. PICK old : old = IF p \in DOMAIN parcelRows THEN parcelRows[p] ELSE NewParcel(clock + 1)
    OBVIOUS
  <2>3. old \in ParcelRow /\ Dated(old, clock + 1)
    <3>1. CASE p \in DOMAIN parcelRows
      BY <1>1, <1>2, <2>2, <3>1
    <3>2. CASE p \notin DOMAIN parcelRows
      BY <1>1, <2>2, <3>2, NewParcelDated
    <3> QED
      BY <3>1, <3>2
  <2>4. WithBody(old, body) \in ParcelRow /\ Dated(WithBody(old, body), clock + 1)
    BY <1>1, <2>3, ParcelSent
  <2>5. card' = card
    BY <1>4 DEF LinkParcel
  <2> QED
    BY <1>c, <2>1, <2>2, <2>4, <2>5, RowWritten
<1>5. CASE TrackParcel
  <2>1. PICK p \in DOMAIN parcelRows :
          parcelRows' = [parcelRows EXCEPT ![p] = PickedUp(@, clock + 1)]
    BY <1>5 DEF TrackParcel
  <2> DEFINE row == PickedUp(parcelRows[p], clock + 1)
  <2>2. row \in ParcelRow /\ Dated(row, clock + 1)
    BY <1>1, ParcelDated
  <2>3. card' = card
    BY <1>5 DEF TrackParcel
  <2>4. parcelRows' = [q \in DOMAIN parcelRows \cup {p} |->
                          IF q # p THEN parcelRows[q] ELSE row]
    BY <1>1, <2>1
  <2> HIDE DEF row
  <2> QED
    BY <1>c, <2>2, <2>3, <2>4, RowWritten
<1>6. CASE MoveParcel
  <2>1. PICK p \in DOMAIN parcelRows, status \in {"in_transit", "delivered"} :
          parcelRows' = [parcelRows EXCEPT ![p] = WithStatus(@, status, clock + 1)]
    BY <1>6 DEF MoveParcel
  <2> DEFINE row == WithStatus(parcelRows[p], status, clock + 1)
  <2>2. row \in ParcelRow /\ Dated(row, clock + 1)
    BY <1>1, ParcelDated
  <2>3. card' = card
    BY <1>6 DEF MoveParcel
  <2>4. parcelRows' = [q \in DOMAIN parcelRows \cup {p} |->
                          IF q # p THEN parcelRows[q] ELSE row]
    BY <1>1, <2>1
  <2> HIDE DEF row
  <2> QED
    BY <1>c, <2>2, <2>3, <2>4, RowWritten
<1> QED
  BY <1>3, <1>4, <1>5, <1>6

\* The shipments of the order are listed as rows.
LEMMA ParcelsListed ==
    ASSUME TablesDated, NEW ids \in Listings
    PROVE  [i \in DOMAIN ids |-> parcelRows[ids[i]]] \in Seq(ParcelRow)
<1> DEFINE its == {p \in DOMAIN parcelRows : parcelRows[p].orderId = "this"}
<1>1. IsFiniteSet(its) /\ \A p \in its : parcelRows[p] \in ParcelRow
  <2>1. its \in SUBSET DOMAIN parcelRows
    OBVIOUS
  <2> QED
    BY <2>1, FS_Subset DEF TablesDated
<1>2. ids \in [1 .. Cardinality(its) -> its]
  BY DEF Listings
<1> HIDE DEF its
<1>3. Cardinality(its) \in Nat
  BY <1>1, FS_CardinalityType
<1> QED
  BY <1>1, <1>2, <1>3

LEMMA DetailStart == DetailInit => DetailInvariant
<1> SUFFICES ASSUME DetailInit
             PROVE  DetailInvariant
  OBVIOUS
<1>1. DOMAIN parcelRows = {} /\ IsFiniteSet(DOMAIN parcelRows)
  BY FS_EmptySet DEF DetailInit
<1>2. TablesDated
  BY <1>1 DEF DetailInit, TablesDated
<1> QED
  BY <1>2 DEF DetailInit, NoDetail, DetailInvariant, DetailRead, DetailTruthful

LEMMA DetailStep == DetailInvariant /\ [DetailNext]_detailVars => DetailInvariant'
<1> SUFFICES ASSUME DetailInvariant, [DetailNext]_detailVars
             PROVE  DetailInvariant'
  OBVIOUS
<1>t. TablesDated /\ DetailRead
  BY DEF DetailInvariant
<1>1. CASE ReadCard
  <2>1. card \in CardRow
    BY <1>t DEF TablesDated, CardRow
  <2>2. DetailRead' /\ DetailTruthful'
    BY <1>1, <2>1 DEF ReadCard, NoDetail, DetailRead, DetailTruthful
  <2>3. TablesDated'
    BY <1>1, <1>t DEF ReadCard, TablesDated
  <2> QED
    BY <2>2, <2>3 DEF DetailInvariant
<1>2. CASE ReadParcels
  <2>1. PICK ids \in Listings :
          LET rs == [i \in DOMAIN ids |-> parcelRows[ids[i]]]
              tl == LatestFirst(Facts(detail.order, rs))
          IN  detail' = [detail EXCEPT !.at = "shown", !.rows = rs, !.timeline = tl,
                                       !.log = SafeLog(detail.order, rs, tl)]
    BY <1>2, Zenon DEF ReadParcels
  <2>2. PICK rows : rows = [i \in DOMAIN ids |-> parcelRows[ids[i]]]
    OBVIOUS
  <2>3. PICK order : order = detail.order
    OBVIOUS
  <2>4. PICK told : told = LatestFirst(Facts(order, rows))
    OBVIOUS
  <2>5. PICK log : log = SafeLog(order, rows, told)
    OBVIOUS
  <2>6. order \in CardRow /\ rows \in Seq(ParcelRow)
    BY <1>2, <1>t, <2>2, <2>3, ParcelsListed DEF ReadParcels, DetailRead
  <2>7. TimelineTells(told, order, rows)
    BY <2>4, <2>6, TimelineTrue
  <2>8. (\E i \in DOMAIN log : log[i].level = "warn") <=> rows = <<>>
    <3>1. /\ told \in Seq(Facts(order, rows))
          /\ \A i \in DOMAIN told : told[i].at \in Nat
      BY <2>7 DEF TimelineTells
    <3> QED
      BY <2>5, <2>6, <3>1, LogTrue
  <2>9. order.created = 2
    BY <2>6 DEF CardRow
  <2>10. \A k \in DOMAIN rows : ~rows[k].given =>
            /\ \A e \in {rows[k].shipped, rows[k].delivered} \ {0} : e > rows[k].created
            /\ rows[k].status = "delivered" => rows[k].delivered > rows[k].shipped
    <3>1. \A k \in DOMAIN rows : rows[k] \in ParcelRow
      BY <2>6
    <3> QED
      BY <3>1 DEF ParcelRow
  <2>11. detail' = [detail EXCEPT !.at = "shown", !.rows = rows, !.timeline = told, !.log = log]
    BY <2>1, <2>2, <2>3, <2>4, <2>5
  <2>12. /\ detail' = [at |-> "shown", order |-> order, rows |-> rows, timeline |-> told,
                       log |-> log]
    BY <1>t, <2>3, <2>11 DEF DetailRead
  <2>13. DetailRead'
    BY <2>12 DEF DetailRead
  <2>14. DetailTruthful'
    BY <2>7, <2>8, <2>9, <2>10, <2>12 DEF DetailTruthful, TimelineTells
  <2>15. TablesDated'
    BY <1>2, <1>t DEF ReadParcels, TablesDated
  <2> QED
    BY <2>13, <2>14, <2>15 DEF DetailInvariant
<1>3. CASE CloseDetail
  <2>1. DetailRead' /\ DetailTruthful'
    BY <1>3 DEF CloseDetail, NoDetail, DetailRead, DetailTruthful
  <2>2. TablesDated'
    BY <1>3, <1>t DEF CloseDetail, TablesDated
  <2> QED
    BY <2>1, <2>2 DEF DetailInvariant
<1>4. CASE TouchOrder \/ LinkParcel \/ TrackParcel \/ MoveParcel
  <2>1. detail' = detail /\ detail.at # "shown"
    BY <1>4 DEF TouchOrder, LinkParcel, TrackParcel, MoveParcel, Tick
  <2>2. DetailRead' /\ DetailTruthful'
    BY <1>t, <2>1 DEF DetailRead, DetailTruthful
  <2> QED
    BY <1>4, <1>t, <2>2, TablesMove DEF DetailInvariant
<1>5. CASE UNCHANGED detailVars
  BY <1>5 DEF detailVars, DetailInvariant, TablesDated, DetailRead, DetailTruthful
<1> QED
  BY <1>1, <1>2, <1>3, <1>4, <1>5 DEF DetailNext

LEMMA DetailPageSound == DetailSpec => []DetailTruthful
<1>1. DetailInvariant => DetailTruthful
  BY DEF DetailInvariant
<1> QED
  BY <1>1, DetailStart, DetailStep, PTL DEF DetailSpec

(***************************************************************************)
(* AdminService: what getDashboard, getOperationsOverview, the diagnosis   *)
(* of a key and getActionCatalog answer adds up although their queries see *)
(* different moments, for every set of orders' identities and filters and  *)
(* any number of orders and moves; and getOrderDetail's timeline and log   *)
(* of an order tell its past and that of any number of shipments, whatever *)
(* columns a create request gives one of them.                             *)
(***************************************************************************)
THEOREM AdminSound == AdminSpec /\ DetailSpec => []AdminToldTruth
BY AdminReportsSound, DetailPageSound, PTL DEF AdminToldTruth

=============================================================================
