-------------------------- MODULE BuildOrderProofs --------------------------
(***************************************************************************)
(* Theorems about BuildOrder, for every finite set of recipes, every       *)
(* assignment of dependency lists and every order of popping the queue.    *)
(***************************************************************************)
EXTENDS BuildOrder, FiniteSetTheorems, TLAPS

-----------------------------------------------------------------------------
(***************************************************************************)
(* The inductive invariant.  While the sort runs, the in-degree of p is at *)
(* least the number of its dependencies still to be processed (a repeated  *)
(* name is counted more than once and decremented once), and the ranks of  *)
(* the processed dependencies account for the rank of p.                   *)
(***************************************************************************)
Waiting(p) == Deps(p) \ done

Counts(p) ==
    /\ in_degree[p] >= Cardinality(Waiting(p))
    /\ NoRepeats(p) => in_degree[p] = Cardinality(Waiting(p))

GraphInv == phase \in {"graph", "seed"} =>
    /\ queue = {}
    /\ done = {}
    /\ ranks = [p \in Packages |-> 0]

SeedInv == phase = "seed" => \A p \in Packages : Counts(p)

QueueInv(p) == p \in queue \cup done <=> in_degree[p] = 0

RankInv(p) ==
    /\ \A d \in Deps(p) \cap done : ranks[d] < ranks[p]
    /\ ranks[p] = 0 \/ \E d \in Deps(p) \cap done : ranks[p] = ranks[d] + 1

SortInv == phase = "sort" => \A p \in Packages : Counts(p) /\ QueueInv(p) /\ RankInv(p)

CycleInv == phase = "cycle" =>
    /\ Packages \ done # {}
    /\ \A p \in Packages : NoRepeats(p) /\ p \notin done => Waiting(p) # {}

Placed == phase \in {"list", "listed", "validate", "printed", "rejected"}

PlacedInv == Placed =>
    /\ \A p \in Packages \ {Environment} : \A d \in Deps(p) : ranks[d] < ranks[p]
    /\ (Environment \in Packages /\ Deps(Environment) = {}) =>
          \A q \in Packages \ {Environment} : ranks[Environment] < ranks[q]

PositionInv == (Placed /\ phase # "list") =>
    /\ Packages \subseteq DOMAIN position
    /\ \A p \in Packages : position[p] = Index(p)

ResultInv ==
    /\ phase = "printed" => Misplaced = {}
    /\ phase = "rejected" => Misplaced # {}

IInv ==
    /\ TypeOK
    /\ PoppedOnce
    /\ GraphInv
    /\ SeedInv
    /\ SortInv
    /\ CycleInv
    /\ RankIsDepth
    /\ PlacedInv
    /\ PositionInv
    /\ ResultInv

-----------------------------------------------------------------------------
\* What build_dependency_graph counts: no fewer list positions than there are
\* distinct dependencies, and exactly as many when no name is repeated.
LEMMA EntriesCountDeps ==
    ASSUME NEW p \in Packages, requires \in [Packages -> RequireLists]
    PROVE  /\ IsFiniteSet(Entries(p))
           /\ IsFiniteSet(Deps(p))
           /\ Cardinality(Entries(p)) >= Cardinality(Deps(p))
           /\ NoRepeats(p) => Cardinality(Entries(p)) = Cardinality(Deps(p))
<1> DEFINE f == [i \in Entries(p) |-> requires[p][i]]
<1>1. requires[p] \in Seq(Packages \cup Outside)
  BY RequiresAssumption
<1>2. IsFiniteSet(1 .. Len(requires[p]))
  BY <1>1, FS_Interval
<1>3. Entries(p) \subseteq 1 .. Len(requires[p])
  BY <1>1 DEF Entries
<1>4. IsFiniteSet(Entries(p))
  BY <1>2, <1>3, FS_Subset
<1>5. f \in Surjection(Entries(p), Deps(p))
  BY DEF Surjection, Entries, Deps
<1>6. /\ IsFiniteSet(Deps(p))
      /\ Cardinality(Deps(p)) <= Cardinality(Entries(p))
      /\ f \in Injection(Entries(p), Deps(p))
            => Cardinality(Deps(p)) = Cardinality(Entries(p))
  BY <1>4, <1>5, FS_Surjection
<1>7. NoRepeats(p) => f \in Injection(Entries(p), Deps(p))
  BY <1>5 DEF NoRepeats, Injection, IsInjective, Surjection
<1>8. Cardinality(Entries(p)) \in Nat /\ Cardinality(Deps(p)) \in Nat
  BY <1>4, <1>6, FS_CardinalityType
<1> QED
  BY <1>4, <1>6, <1>7, <1>8

\* The dependencies still to be processed form a finite set.
LEMMA WaitingIsFinite ==
    ASSUME NEW p \in Packages, requires \in [Packages -> RequireLists]
    PROVE  IsFiniteSet(Waiting(p)) /\ Cardinality(Waiting(p)) \in Nat
<1>1. IsFiniteSet(Deps(p))
  BY EntriesCountDeps
<1>2. Waiting(p) \subseteq Deps(p)
  BY DEF Waiting
<1> QED
  BY <1>1, <1>2, FS_Subset, FS_CardinalityType

\* Positions are natural numbers and follow the order of ranks and names.
LEMMA IndexFollowsBefore ==
    ASSUME ranks \in [Packages -> Nat], NEW p \in Packages, NEW q \in Packages
    PROVE  /\ Index(p) \in Nat
           /\ Before(p, q) => Index(p) < Index(q)
<1> DEFINE Ahead(x) == {y \in Packages : Before(y, x)}
<1>1. \A x \in Packages : IsFiniteSet(Ahead(x)) /\ Cardinality(Ahead(x)) \in Nat
  BY PackagesAssumption, FS_Subset, FS_CardinalityType
<1>2. ASSUME Before(p, q) PROVE Cardinality(Ahead(p)) < Cardinality(Ahead(q))
  <2>1. \A y \in Packages : Before(y, p) => Before(y, q)
    BY <1>2, NameAssumption DEF Before
  <2>2. Ahead(p) \subseteq Ahead(q)
    BY <2>1
  <2>3. ~Before(p, p)
    BY NameAssumption DEF Before
  <2>4. p \in Ahead(q) /\ p \notin Ahead(p)
    BY <1>2, <2>3
  <2>5. Cardinality(Ahead(p)) <= Cardinality(Ahead(q))
        /\ (Cardinality(Ahead(q)) = Cardinality(Ahead(p)) => Ahead(q) = Ahead(p))
    BY <1>1, <2>2, FS_Subset
  <2> QED
    BY <1>1, <2>4, <2>5
<1> QED
  BY <1>1, <1>2 DEF Index

-----------------------------------------------------------------------------
LEMMA InitEstablishes == Init => IInv
BY DEF Init, IInv, TypeOK, Phases, PoppedOnce, GraphInv, SeedInv, SortInv, CycleInv,
       RankIsDepth, PlacedInv, Placed, PositionInv, ResultInv

LEMMA BuildGraphPreserves ==
    ASSUME IInv, BuildGraph PROVE IInv'
<1> USE DEF BuildGraph, IInv
<1>1. \A p \in Packages : /\ Cardinality(Entries(p)) \in Nat
                          /\ Cardinality(Entries(p)) >= Cardinality(Deps(p))
                          /\ NoRepeats(p) => Cardinality(Entries(p)) = Cardinality(Deps(p))
  BY EntriesCountDeps, FS_CardinalityType DEF TypeOK
<1>2. TypeOK'
  BY <1>1 DEF TypeOK, Phases
<1>3. SeedInv'
  <2> SUFFICES ASSUME NEW p \in Packages PROVE Counts(p)'
    BY DEF SeedInv
  <2>1. Waiting(p)' = Deps(p)
    BY DEF GraphInv, Waiting, Deps
  <2>2. in_degree'[p] = Cardinality(Entries(p))
    OBVIOUS
  <2>3. NoRepeats(p)' = NoRepeats(p)
    BY DEF NoRepeats, Entries
  <2> QED
    BY <1>1, <2>1, <2>2, <2>3 DEF Counts
<1> QED
  BY <1>2, <1>3 DEF PoppedOnce, GraphInv, SortInv, CycleInv,
                    RankIsDepth, PlacedInv, Placed, PositionInv, ResultInv

LEMMA SeedQueuePreserves ==
    ASSUME IInv, SeedQueue PROVE IInv'
<1> USE DEF SeedQueue, IInv
<1>1. TypeOK'
  BY DEF TypeOK, Phases
<1>2. PoppedOnce'
  BY DEF PoppedOnce, GraphInv
<1>3. SortInv'
  <2> SUFFICES ASSUME NEW p \in Packages PROVE (Counts(p) /\ QueueInv(p) /\ RankInv(p))'
    BY DEF SortInv
  <2>1. Counts(p)'
    BY DEF SeedInv, Counts, Waiting, Deps, NoRepeats, Entries
  <2>2. QueueInv(p)'
    BY DEF GraphInv, QueueInv
  <2>3. RankInv(p)'
    BY DEF GraphInv, RankInv, Deps
  <2> QED
    BY <2>1, <2>2, <2>3
<1> QED
  BY <1>1, <1>2, <1>3 DEF GraphInv, SeedInv, CycleInv, RankIsDepth, PlacedInv, Placed,
                          PositionInv, ResultInv

\* The node being popped needs nothing unprocessed, itself included, and so do
\* the nodes processed before it: their ranks are final.
LEMMA PoppedNodesAreFinal ==
    ASSUME IInv, phase = "sort", NEW n \in queue
    PROVE  /\ n \in Packages
           /\ n \notin done
           /\ \A d \in done \cup {n} : n \notin Deps(d)
<1> USE DEF IInv
<1>1. n \in Packages /\ n \notin done
  BY DEF TypeOK, PoppedOnce
<1>2. \A d \in queue \cup done : Waiting(d) = {}
  <2> SUFFICES ASSUME NEW d \in queue \cup done PROVE Waiting(d) = {}
    OBVIOUS
  <2>1. d \in Packages /\ in_degree[d] = 0 /\ in_degree[d] >= Cardinality(Waiting(d))
    BY DEF TypeOK, SortInv, QueueInv, Counts
  <2>2. IsFiniteSet(Waiting(d)) /\ Cardinality(Waiting(d)) \in Nat
    BY <2>1, WaitingIsFinite DEF TypeOK
  <2>3. Cardinality(Waiting(d)) = 0
    BY <2>1, <2>2
  <2> QED
    BY <2>2, <2>3, FS_EmptySet
<1> QED
  BY <1>1, <1>2 DEF Waiting

LEMMA ProcessNodePreserves ==
    ASSUME IInv, NEW n \in Packages, ProcessNode(n) PROVE IInv'
<1> USE DEF IInv
<1>1. /\ phase = "sort" /\ phase' = "sort"
      /\ n \in queue
      /\ requires' = requires
      /\ done' = done \cup {n}
  BY DEF ProcessNode
<1>2. n \notin done /\ \A d \in done \cup {n} : n \notin Deps(d)
  BY <1>1, PoppedNodesAreFinal
<1>3. \A p \in Packages : Deps(p)' = Deps(p) /\ NoRepeats(p)' = NoRepeats(p)
  BY <1>1 DEF Deps, NoRepeats, Entries
<1>4. \A p \in Packages :
          /\ IsFiniteSet(Waiting(p)) /\ Cardinality(Waiting(p)) \in Nat
          /\ in_degree[p] \in Nat /\ ranks[p] \in Nat
          /\ in_degree[p] >= Cardinality(Waiting(p))
          /\ NoRepeats(p) => in_degree[p] = Cardinality(Waiting(p))
          /\ p \in queue \cup done <=> in_degree[p] = 0
  BY <1>1, WaitingIsFinite DEF TypeOK, SortInv, Counts, QueueInv
<1>5. \A p \in Packages :
          /\ Waiting(p)' = Waiting(p) \ {n}
          /\ Cardinality(Waiting(p)') =
                IF n \in Deps(p) THEN Cardinality(Waiting(p)) - 1 ELSE Cardinality(Waiting(p))
  <2> SUFFICES ASSUME NEW p \in Packages
               PROVE  /\ Waiting(p)' = Waiting(p) \ {n}
                      /\ Cardinality(Waiting(p)') =
                            IF n \in Deps(p) THEN Cardinality(Waiting(p)) - 1
                                             ELSE Cardinality(Waiting(p))
    OBVIOUS
  <2>1. Waiting(p)' = Waiting(p) \ {n}
    BY <1>1, <1>3 DEF Waiting
  <2>2. n \in Waiting(p) <=> n \in Deps(p)
    BY <1>2 DEF Waiting
  <2> QED
    BY <1>4, <2>1, <2>2, FS_RemoveElement
<1>6. \A p \in Packages :
          in_degree'[p] = IF n \in Deps(p) THEN in_degree[p] - 1 ELSE in_degree[p]
  BY DEF ProcessNode, Dependents
<1>7. \A p \in Packages : n \in Deps(p) => Cardinality(Waiting(p)) > 0
  BY <1>2, <1>4, FS_EmptySet DEF Waiting
<1>8. \A p \in Packages :
          ranks'[p] = IF n \in Deps(p) THEN Higher(ranks[p], ranks[n] + 1) ELSE ranks[p]
  BY DEF ProcessNode, Dependents
<1>9. TypeOK'
  <2>1. in_degree' \in [Packages -> Nat]
    <3>1. \A p \in Packages : in_degree'[p] \in Nat
      BY <1>4, <1>6, <1>7
    <3>2. in_degree' = [p \in Packages |-> in_degree'[p]]
      BY DEF ProcessNode
    <3> QED
      BY <3>1, <3>2
  <2>2. ranks' \in [Packages -> Nat]
    <3>1. \A p \in Packages : ranks'[p] \in Nat
      BY <1>4, <1>8 DEF Higher
    <3>2. ranks' = [p \in Packages |-> ranks'[p]]
      BY DEF ProcessNode
    <3> QED
      BY <3>1, <3>2
  <2>3. queue' \subseteq Packages /\ done' \subseteq Packages
    BY DEF ProcessNode, TypeOK, Dependents
  <2> QED
    BY <2>1, <2>2, <2>3, <1>1 DEF TypeOK, ProcessNode, Phases
<1>10. queue' = (queue \ {n}) \cup {p \in Packages : n \in Deps(p) /\ in_degree'[p] = 0}
  BY DEF ProcessNode, Dependents
<1>11. PoppedOnce'
  BY <1>1, <1>2, <1>4, <1>7, <1>10 DEF PoppedOnce
<1>12. SortInv'
  <2> SUFFICES ASSUME NEW p \in Packages PROVE (Counts(p) /\ QueueInv(p) /\ RankInv(p))'
    BY DEF SortInv
  <2>1. Counts(p)'
    BY <1>3, <1>4, <1>5, <1>6 DEF Counts
  <2>2. QueueInv(p)'
    BY <1>1, <1>2, <1>4, <1>6, <1>7, <1>10 DEF QueueInv
  <2>3. RankInv(p)'
    <3>1. RankInv(p)
      BY <1>1 DEF SortInv
    <3>2. \A d \in done \cup {n} : ranks'[d] = ranks[d]
      BY <1>2, <1>8 DEF TypeOK
    <3>3. CASE n \in Deps(p)
      <4>1. ranks'[p] = Higher(ranks[p], ranks[n] + 1)
        BY <1>8, <3>3
      <4>2. \A d \in Deps(p) \cap (done \cup {n}) : ranks'[d] < ranks'[p]
        BY <1>4, <3>1, <3>2, <4>1 DEF RankInv, Higher, Deps
      <4>3. ranks'[p] = 0 \/ \E d \in Deps(p) \cap (done \cup {n}) : ranks'[p] = ranks'[d] + 1
        <5>1. CASE ranks[p] < ranks[n] + 1
          BY <3>2, <3>3, <4>1, <5>1 DEF Higher
        <5>2. CASE ~(ranks[p] < ranks[n] + 1)
          BY <3>1, <3>2, <4>1, <5>2 DEF Higher, RankInv
        <5> QED
          BY <5>1, <5>2
      <4> QED
        BY <1>1, <1>3, <4>2, <4>3 DEF RankInv
    <3>4. CASE n \notin Deps(p)
      <4>1. ranks'[p] = ranks[p] /\ Deps(p) \cap done' = Deps(p) \cap done
        BY <1>1, <1>8, <3>4
      <4> QED
        BY <1>3, <3>1, <3>2, <4>1 DEF RankInv
    <3> QED
      BY <3>3, <3>4
  <2> QED
    BY <2>1, <2>2, <2>3
<1> QED
  BY <1>1, <1>9, <1>11, <1>12 DEF GraphInv, SeedInv, CycleInv, RankIsDepth, PlacedInv,
                                  Placed, PositionInv, ResultInv

LEMMA FinishSortPreserves ==
    ASSUME IInv, FinishSort PROVE IInv'
<1> USE DEF IInv
<1>1. /\ phase = "sort"
      /\ queue = {}
      /\ phase' = IF Cardinality(done) = Cardinality(Packages) THEN "force" ELSE "cycle"
      /\ UNCHANGED <<requires, caller, in_degree, ranks, queue, done, position>>
  BY DEF FinishSort
<1>2. Cardinality(done) = Cardinality(Packages) <=> done = Packages
  BY PackagesAssumption, FS_Subset DEF TypeOK
<1>3. TypeOK' /\ PoppedOnce'
  BY <1>1 DEF TypeOK, Phases, PoppedOnce
<1>4. CASE done = Packages
  <2>1. phase' = "force"
    BY <1>1, <1>2, <1>4
  <2>2. RankIsDepth'
    BY <1>1, <1>4 DEF SortInv, RankInv, RankIsDepth, Deps
  <2> QED
    BY <1>3, <2>1, <2>2 DEF GraphInv, SeedInv, SortInv, CycleInv, PlacedInv, Placed,
                            PositionInv, ResultInv
<1>5. CASE done # Packages
  <2>1. phase' = "cycle"
    BY <1>1, <1>2, <1>5
  <2>2. Packages \ done # {}
    BY <1>5 DEF TypeOK
  <2>3. ASSUME NEW p \in Packages, NoRepeats(p), p \notin done PROVE Waiting(p) # {}
    <3>1. in_degree[p] # 0 /\ in_degree[p] = Cardinality(Waiting(p))
      BY <1>1, <2>3 DEF SortInv, QueueInv, Counts
    <3> QED
      BY <3>1, FS_EmptySet
  <2>4. \A p \in Packages : Waiting(p)' = Waiting(p) /\ NoRepeats(p)' = NoRepeats(p)
    BY <1>1 DEF Waiting, Deps, NoRepeats, Entries
  <2>5. CycleInv'
    BY <1>1, <2>2, <2>3, <2>4 DEF CycleInv
  <2> QED
    BY <1>3, <2>1, <2>5 DEF GraphInv, SeedInv, SortInv, RankIsDepth, PlacedInv, Placed,
                            PositionInv, ResultInv
<1> QED
  BY <1>4, <1>5

LEMMA ForceEnvironmentPreserves ==
    ASSUME IInv, ForceEnvironment PROVE IInv'
<1> USE DEF IInv
<1>1. /\ phase = "force"
      /\ phase' = "list"
      /\ UNCHANGED <<requires, caller, in_degree, queue, done, position>>
  BY DEF ForceEnvironment
<1>2. \A p \in Packages : Deps(p) \subseteq Packages /\ Deps(p)' = Deps(p)
  BY <1>1 DEF Deps
<1>3. \A p \in Packages :
          /\ ranks[p] \in Nat
          /\ \A d \in Deps(p) : ranks[d] < ranks[p]
          /\ ranks[p] = 0 \/ \E d \in Deps(p) : ranks[p] = ranks[d] + 1
  BY <1>1 DEF TypeOK, RankIsDepth
<1>4. TypeOK'
  <2>1. ranks' \in [Packages -> Nat]
    BY DEF TypeOK, ForceEnvironment
  <2> QED
    BY <1>1, <2>1 DEF TypeOK, Phases
<1>5. PlacedInv'
  <2>1. CASE Environment \notin Packages
    <3>1. ranks' = ranks
      BY <2>1 DEF ForceEnvironment
    <3> QED
      BY <1>2, <1>3, <2>1, <3>1 DEF PlacedInv
  <2>2. CASE Environment \in Packages /\ ranks[Environment] = 0
    <3>1. \A p \in Packages : ranks'[p] = IF p = Environment THEN 0 ELSE ranks[p] + 1
      BY <2>2 DEF ForceEnvironment
    <3> QED
      BY <1>2, <1>3, <2>2, <3>1 DEF PlacedInv
  <2>3. CASE Environment \in Packages /\ ranks[Environment] # 0
    <3>1. \A p \in Packages : ranks'[p] = IF p = Environment THEN 0 ELSE ranks[p]
      BY <2>3 DEF ForceEnvironment, TypeOK
    <3>2. Deps(Environment) # {}
      BY <1>3, <2>3
    <3>3. \A p \in Packages \ {Environment} : \A d \in Deps(p) : ranks'[d] < ranks'[p]
      BY <1>2, <1>3, <2>3, <3>1
    <3> QED
      BY <1>2, <3>2, <3>3 DEF PlacedInv
  <2> QED
    BY <2>1, <2>2, <2>3
<1>6. PoppedOnce'
  BY <1>1 DEF PoppedOnce
<1> QED
  BY <1>1, <1>4, <1>5, <1>6 DEF GraphInv, SeedInv, SortInv, CycleInv, RankIsDepth,
                                PositionInv, ResultInv

LEMMA ListPackagesPreserves ==
    ASSUME IInv, ListPackages PROVE IInv'
<1> USE DEF IInv
<1>1. /\ phase = "list"
      /\ phase' = IF caller = "resolver" THEN "listed" ELSE "validate"
      /\ UNCHANGED <<requires, caller, in_degree, ranks, queue, done>>
  BY DEF ListPackages
<1>2. \A p \in Packages : Index(p)' = Index(p) /\ Index(p) \in Nat
  BY <1>1, IndexFollowsBefore DEF Index, Before, TypeOK
<1>3. Packages \subseteq DOMAIN position' /\ \A p \in Packages : position'[p] = Index(p)
  BY PackagesAssumption DEF ListPackages
<1>4. TypeOK'
  BY <1>1, <1>2, <1>3 DEF TypeOK, Phases
<1>5. PlacedInv' /\ PositionInv'
  BY <1>1, <1>2, <1>3 DEF PlacedInv, Placed, PositionInv, Deps
<1> QED
  BY <1>1, <1>4, <1>5 DEF PoppedOnce, GraphInv, SeedInv, SortInv, CycleInv, RankIsDepth,
                          ResultInv

LEMMA ValidateOrderPreserves ==
    ASSUME IInv, ValidateOrder PROVE IInv'
<1> USE DEF IInv
<1>1. /\ phase = "validate"
      /\ phase' = IF Misplaced = {} THEN "printed" ELSE "rejected"
      /\ UNCHANGED <<requires, caller, in_degree, ranks, queue, done, position>>
  BY DEF ValidateOrder
<1>2. Misplaced' = Misplaced
  BY <1>1 DEF Misplaced, Deps
<1>3. TypeOK' /\ ResultInv'
  BY <1>1, <1>2 DEF TypeOK, Phases, ResultInv
<1>4. PlacedInv' /\ PositionInv'
  BY <1>1 DEF PlacedInv, Placed, PositionInv, Deps, Index, Before
<1>5. phase' \in {"printed", "rejected"}
  BY <1>1
<1>6. PoppedOnce' /\ GraphInv' /\ SeedInv' /\ SortInv' /\ CycleInv' /\ RankIsDepth'
  BY <1>1, <1>5 DEF PoppedOnce, GraphInv, SeedInv, SortInv, CycleInv, RankIsDepth
<1> QED
  BY <1>3, <1>4, <1>6

LEMMA StutterPreserves ==
    ASSUME IInv, UNCHANGED vars PROVE IInv'
<1> USE DEF vars
<1>1. \A p \in Packages : /\ Deps(p)' = Deps(p) /\ Waiting(p)' = Waiting(p)
                          /\ NoRepeats(p)' = NoRepeats(p)
                          /\ Index(p)' = Index(p)
  BY DEF Deps, Waiting, NoRepeats, Entries, Index, Before
<1>2. Misplaced' = Misplaced
  BY DEF Misplaced, Deps
<1>3. TypeOK' /\ PoppedOnce' /\ GraphInv'
  BY DEF IInv, TypeOK, PoppedOnce, GraphInv
<1>4. SeedInv' /\ SortInv' /\ CycleInv'
  BY <1>1 DEF IInv, SeedInv, SortInv, CycleInv, Counts, QueueInv, RankInv
<1>5. RankIsDepth' /\ PlacedInv' /\ PositionInv' /\ ResultInv'
  <2>1. RankIsDepth'
    BY <1>1 DEF IInv, RankIsDepth
  <2>2. PlacedInv'
    BY DEF IInv, PlacedInv, Placed, Deps
  <2>3. PositionInv' /\ ResultInv'
    BY <1>1, <1>2 DEF IInv, PositionInv, Placed, ResultInv
  <2> QED
    BY <2>1, <2>2, <2>3
<1> QED
  BY <1>3, <1>4, <1>5 DEF IInv

-----------------------------------------------------------------------------
\* The strengthening holds in every reachable state of topological_sort.
THEOREM Inductive == Spec => []IInv
<1>1. IInv /\ [Next]_vars => IInv'
  <2> SUFFICES ASSUME IInv, [Next]_vars PROVE IInv'
    OBVIOUS
  <2> QED
    BY BuildGraphPreserves, SeedQueuePreserves, ProcessNodePreserves, FinishSortPreserves,
       ForceEnvironmentPreserves, ListPackagesPreserves, ValidateOrderPreserves,
       StutterPreserves DEF Next
<1> QED
  BY InitEstablishes, <1>1, PTL DEF Spec

\* Types, and no in-degree below zero.
THEOREM TypeCorrect == Spec => []TypeOK
<1>1. IInv => TypeOK
  BY DEF IInv
<1> QED
  BY Inductive, <1>1, PTL

\* No package is popped twice: the counter `processed' of topological_sort is the
\* number of packages it has processed, and may be compared with their number.
THEOREM NothingPoppedTwice == Spec => []PoppedOnce
<1>1. IInv => PoppedOnce
  BY DEF IInv
<1> QED
  BY Inductive, <1>1, PTL

\* get_ordered_package_list returns a dependency-safe order of any recipes.
THEOREM DependenciesFirst == Spec => []OrderRespectsDeps
<1>1. IInv => OrderRespectsDeps
  <2> SUFFICES ASSUME IInv, phase \in {"listed", "printed"},
                      NEW p \in Packages \ {Environment}, NEW d \in Deps(p)
               PROVE  position[d] < position[p]
    BY DEF OrderRespectsDeps
  <2>1. d \in Packages /\ ranks[d] < ranks[p]
    BY DEF IInv, PlacedInv, Placed, Deps
  <2>2. Index(d) < Index(p)
    BY <2>1, IndexFollowsBefore DEF IInv, TypeOK, Before
  <2> QED
    BY <2>1, <2>2 DEF IInv, PositionInv, Placed
<1> QED
  BY Inductive, <1>1, PTL

\* The ranks are the dependency depths: they do not depend on the queue's order.
THEOREM RanksAreDepths == Spec => []RankIsDepth
<1>1. IInv => RankIsDepth
  BY DEF IInv
<1> QED
  BY Inductive, <1>1, PTL

\* Without repeated names, "Cycle detected!" is raised only for a real cycle.
THEOREM CyclesAreReal == Spec => []CycleIsReal
<1>1. IInv => CycleIsReal
  <2> SUFFICES ASSUME IInv, phase = "cycle", \A p \in Packages : NoRepeats(p)
               PROVE  \E S \in SUBSET Packages : S # {} /\ \A p \in S : Deps(p) \cap S # {}
    BY DEF CycleIsReal
  <2>1. \A p \in Packages \ done : Deps(p) \cap (Packages \ done) # {}
    BY DEF IInv, CycleInv, Waiting, Deps
  <2>2. Packages \ done \in SUBSET Packages /\ Packages \ done # {}
    BY DEF IInv, CycleInv
  <2> QED
    BY <2>1, <2>2
<1> QED
  BY Inductive, <1>1, PTL

\* When `environment' needs nothing in the build set, it is built first.
THEOREM EnvironmentIsFirst == Spec => []EnvironmentFirst
<1>1. IInv => EnvironmentFirst
  <2> SUFFICES ASSUME IInv, phase \in {"listed", "printed"}, Environment \in Packages,
                      Deps(Environment) = {}
               PROVE  position[Environment] = 0
    BY DEF EnvironmentFirst
  <2>1. \A q \in Packages \ {Environment} : ranks[Environment] < ranks[q]
    BY DEF IInv, PlacedInv, Placed
  <2>2. {q \in Packages : Before(q, Environment)} = {}
    BY <2>1, NameAssumption DEF Before, IInv, TypeOK
  <2>3. Index(Environment) = 0
    BY <2>2, FS_EmptySet DEF Index
  <2> QED
    BY <2>3 DEF IInv, PositionInv, Placed
<1> QED
  BY Inductive, <1>1, PTL

\* The CLI's validation rejects an order only for the sake of `environment'.
THEOREM RejectionIsForEnvironment == Spec => []RejectedOnlyForEnvironment
<1>1. IInv => RejectedOnlyForEnvironment
  <2> SUFFICES ASSUME IInv, phase = "rejected" PROVE Misplaced = {Environment}
    BY DEF RejectedOnlyForEnvironment
  <2>1. \A p \in Packages \ {Environment} : \A d \in Deps(p) :
            d \in Packages /\ ranks[d] < ranks[p]
    BY DEF IInv, PlacedInv, Placed, Deps
  <2>2. \A p \in Packages \ {Environment} : \A d \in Deps(p) : Index(d) < Index(p)
    BY <2>1, IndexFollowsBefore DEF IInv, TypeOK, Before
  <2>3. \A p \in Packages : position[p] = Index(p) /\ Index(p) \in Nat
    BY IndexFollowsBefore DEF IInv, PositionInv, Placed, TypeOK
  <2>4. \A p \in Packages \ {Environment} : \A d \in Deps(p) : ~(position[d] >= position[p])
    BY <2>1, <2>2, <2>3
  <2>5. Misplaced \subseteq {Environment}
    BY <2>4 DEF Misplaced
  <2> QED
    BY <2>5 DEF IInv, ResultInv
<1> QED
  BY Inductive, <1>1, PTL

=============================================================================
