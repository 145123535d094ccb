------------------------ MODULE BuildOrderRefinement ------------------------
(***************************************************************************)
(* BuildOrder implements TopologicalOrder: what the queue, the counts and  *)
(* the ranks compute is a topological order of the packages, taken one at  *)
(* a time, for every finite set of recipes.                                *)
(***************************************************************************)
EXTENDS BuildOrderProofs

\* The sort has passed its check only if every node was popped.
DoneInv == phase = "force" \/ Placed => done = Packages

LEMMA DoneIsAll ==
    ASSUME IInv, DoneInv, [Next]_vars PROVE DoneInv'
<1>1. CASE FinishSort
  <2>1. Cardinality(done) = Cardinality(Packages) => done = Packages
    BY PackagesAssumption, FS_Subset DEF IInv, TypeOK
  <2> QED
    BY <1>1, <2>1 DEF FinishSort, DoneInv, Placed
<1>2. CASE \E n \in Packages : ProcessNode(n)
  BY <1>2 DEF ProcessNode, DoneInv, Placed
<1>3. CASE BuildGraph \/ SeedQueue
  BY <1>3 DEF BuildGraph, SeedQueue, DoneInv, Placed
<1>4. CASE ForceEnvironment \/ ListPackages \/ ValidateOrder
  BY <1>4 DEF ForceEnvironment, ListPackages, ValidateOrder, DoneInv, Placed
<1>5. CASE UNCHANGED vars
  BY <1>5 DEF vars, DoneInv, Placed
<1> QED
  BY <1>1, <1>2, <1>3, <1>4, <1>5 DEF Next

\* No two packages share a place in the list.
LEMMA IndexIsInjective ==
    ASSUME ranks \in [Packages -> Nat], NEW p \in Packages, NEW q \in Packages,
           Index(p) = Index(q)
    PROVE  p = q
<1>1. Before(p, q) \/ Before(q, p) \/ p = q
  BY NameAssumption DEF Before
<1>2. /\ Before(p, q) => Index(p) < Index(q)
      /\ Before(q, p) => Index(q) < Index(p)
      /\ Index(p) \in Nat /\ Index(q) \in Nat
  BY IndexFollowsBefore
<1> QED
  BY <1>1, <1>2

-----------------------------------------------------------------------------
\* The recipes do not change, and with them the needs of the abstract order.
LEMMA NeedsStay ==
    ASSUME requires' = requires
    PROVE  /\ [p \in Packages |-> Deps(p)]' = [p \in Packages |-> Deps(p)]
           /\ {p \in Packages : ~NoRepeats(p)}' = {p \in Packages : ~NoRepeats(p)}
           /\ \A p \in Packages : NoRepeats(p)' = NoRepeats(p) /\ Deps(p)' = Deps(p)
BY DEF Deps, NoRepeats, Entries

\* A step that leaves the processed nodes and the outcome alone is a stutter.
LEMMA UnseenStep ==
    ASSUME requires' = requires, done' = done, position' = position,
           HasList' = HasList, (phase = "cycle")' = (phase = "cycle")
    PROVE  UNCHANGED Promise!vars
BY NeedsStay DEF Promise!vars

LEMMA InitRefines == Init => Promise!Init
BY DEF Init, HasList, Promise!Init, Deps

LEMMA PoppingIsPlacing ==
    ASSUME IInv, NEW n \in Packages, ProcessNode(n) PROVE Promise!Place(n)
<1>1. /\ phase = "sort" /\ phase' = "sort" /\ n \in queue
      /\ done' = done \cup {n}
      /\ requires' = requires /\ position' = position
  BY DEF ProcessNode
<1>2. n \notin done
  BY <1>1 DEF IInv, PoppedOnce
<1>3. Deps(n) \subseteq done
  <2>1. in_degree[n] = 0 /\ in_degree[n] >= Cardinality(Waiting(n))
    BY <1>1 DEF IInv, SortInv, QueueInv, Counts
  <2>2. IsFiniteSet(Waiting(n)) /\ Cardinality(Waiting(n)) \in Nat
    BY WaitingIsFinite DEF IInv, TypeOK
  <2>3. Cardinality(Waiting(n)) = 0
    BY <2>1, <2>2
  <2>4. Waiting(n) = {}
    BY <2>2, <2>3, FS_EmptySet
  <2> QED
    BY <2>4 DEF Waiting
<1>4. Promise!CanBePlaced(n)
  BY <1>2, <1>3 DEF Promise!CanBePlaced
<1> QED
  BY <1>1, <1>4, NeedsStay DEF Promise!Place, HasList

LEMMA FailingIsGivingUp ==
    ASSUME IInv, FinishSort PROVE Promise!GiveUp \/ UNCHANGED Promise!vars
<1>1. /\ phase = "sort" /\ phase' \in {"force", "cycle"}
      /\ requires' = requires /\ done' = done /\ position' = position
  BY DEF FinishSort
<1>2. CASE phase' = "force"
  BY <1>1, <1>2, UnseenStep DEF HasList
<1>3. CASE phase' = "cycle"
  <2>1. /\ Packages \ done # {}
        /\ \A p \in Packages : NoRepeats(p) /\ p \notin done => Deps(p) \ done # {}
    BY <1>1, <1>3, FinishSortPreserves, NeedsStay DEF IInv, CycleInv, Waiting
  <2>2. \A p \in Packages : Promise!CanBePlaced(p) => p \in {q \in Packages : ~NoRepeats(q)}
    BY <2>1 DEF Promise!CanBePlaced
  <2> QED
    BY <1>1, <1>3, <2>1, <2>2, NeedsStay DEF Promise!GiveUp, HasList
<1> QED
  BY <1>1, <1>2, <1>3

LEMMA ListingIsPublishing ==
    ASSUME IInv, DoneInv, ListPackages PROVE Promise!Publish
<1> DEFINE place == [p \in Packages |-> position'[p]]
<1>1. /\ phase = "list" /\ phase' \in {"listed", "validate"}
      /\ requires' = requires /\ done' = done /\ done = Packages
  BY DEF ListPackages, DoneInv, Placed
<1>2. \A p \in Packages : place[p] = Index(p)
  BY PackagesAssumption DEF ListPackages
<1>3. ranks \in [Packages -> Nat]
  BY DEF IInv, TypeOK
<1>4. place \in [Packages -> Nat]
  BY <1>2, <1>3, IndexFollowsBefore
<1>5. \A p \in Packages \ {Environment} : \A d \in Deps(p) : place[d] < place[p]
  <2> SUFFICES ASSUME NEW p \in Packages \ {Environment}, NEW d \in Deps(p)
               PROVE  place[d] < place[p]
    OBVIOUS
  <2>1. d \in Packages /\ ranks[d] < ranks[p]
    BY <1>1 DEF IInv, PlacedInv, Placed, Deps
  <2>2. Index(d) < Index(p)
    BY <1>3, <2>1, IndexFollowsBefore DEF Before
  <2> QED
    BY <1>2, <2>1, <2>2
<1>6. \A p, q \in Packages : place[p] = place[q] => p = q
  BY <1>2, <1>3, IndexIsInjective
<1>7. HasList' /\ ~HasList
  BY <1>1 DEF HasList
<1> HIDE DEF place
<1>8. (IF HasList THEN [p \in Packages |-> position[p]] ELSE <<>>)' = place
  BY <1>7 DEF place
<1> QED
  BY <1>1, <1>4, <1>5, <1>6, <1>7, <1>8, NeedsStay DEF Promise!Publish

LEMMA StepRefines ==
    ASSUME IInv, DoneInv, [Next]_vars PROVE [Promise!Next]_(Promise!vars)
<1>1. CASE BuildGraph \/ SeedQueue \/ ForceEnvironment \/ ValidateOrder
  BY <1>1, UnseenStep DEF BuildGraph, SeedQueue, ForceEnvironment, ValidateOrder, HasList
<1>2. CASE \E n \in Packages : ProcessNode(n)
  BY <1>2, PoppingIsPlacing DEF Promise!Next
<1>3. CASE FinishSort
  BY <1>3, FailingIsGivingUp DEF Promise!Next
<1>4. CASE ListPackages
  BY <1>4, ListingIsPublishing DEF Promise!Next
<1>5. CASE UNCHANGED vars
  BY <1>5, UnseenStep DEF vars, HasList
<1> QED
  BY <1>1, <1>2, <1>3, <1>4, <1>5 DEF Next

-----------------------------------------------------------------------------
\* build_order.py implements the abstract order: every turn of the loop takes one
\* package after all its needs, the list respects them and gives each package a
\* place of its own, and "Cycle detected!" means that nothing could be taken.
THEOREM OrderKeepsPromise == Spec => KeepsPromise
<1>1. Init => IInv /\ DoneInv
  BY InitEstablishes DEF Init, DoneInv, Placed
<1>2. IInv /\ DoneInv /\ [Next]_vars => DoneInv'
  BY DoneIsAll
<1>3. IInv /\ DoneInv /\ [Next]_vars => [Promise!Next]_(Promise!vars)
  BY StepRefines
<1> QED
  BY Inductive, InitRefines, <1>1, <1>2, <1>3, PTL DEF Spec, KeepsPromise, Promise!Spec

=============================================================================
