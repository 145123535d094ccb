----------------------------- MODULE BuildOrder -----------------------------
(***************************************************************************)
(* python/build_order.py: from the recipes a flavor selects to the list of *)
(* packages in the order they are built.  build_dependency_graph counts    *)
(* in-degrees, topological_sort assigns ranks, get_ordered_package_list    *)
(* forces `environment' to the front and flattens the ranks; the CLI       *)
(* (`scls order') also validates the list, the resolvers of `scls build'   *)
(* do not.                                                                 *)
(*                                                                         *)
(* `requires' holds what get_effective_dependencies returns for a package: *)
(* a sequence, which repeats a name when a list-form recipe repeats it.    *)
(* The recipe files are an input: every assignment of dependency lists is  *)
(* an initial state.                                                       *)
(***************************************************************************)
EXTENDS Integers, FiniteSets, Sequences

CONSTANTS
    Packages,        \* names of the recipes load_yaml_files keeps
    Outside,         \* names a recipe may require that are not in the build set
    Environment,     \* the name 'environment' (it need not be in Packages)
    Meta,            \* FLAVOR_META
    RequireLists,    \* the dependency lists a package may have
    NameOrder        \* alphabetical position of a name

ASSUME PackagesAssumption ==
    /\ IsFiniteSet(Packages)
    /\ Packages # {}
    /\ Meta \notin Packages
ASSUME RequiresAssumption == RequireLists \subseteq Seq(Packages \cup Outside)
ASSUME NameAssumption ==
    /\ NameOrder \in [Packages -> Nat]
    /\ \A p, q \in Packages : NameOrder[p] = NameOrder[q] => p = q

VARIABLES
    requires,    \* the effective dependency list of each package
    caller,      \* "order" (the CLI) or "resolver" (get_ordered_package_list)
    phase,       \* how far the computation has come
    in_degree,   \* in_degree_copy of topological_sort
    ranks,       \* the rank of a package, 0 where the code has no entry yet
    queue,       \* nodes whose dependencies are all processed
    done,        \* nodes popped off the queue (the code keeps their number)
    position     \* index of each name in the resulting list

vars == <<requires, caller, phase, in_degree, ranks, queue, done, position>>

Phases == {"graph", "seed", "sort", "force", "list", "listed", "validate",
           "printed", "rejected", "cycle"}

-----------------------------------------------------------------------------

\* The dependencies of p that are built for this flavor: the edges into p.
Deps(p) == {d \in Packages : \E i \in DOMAIN requires[p] : requires[p][i] = d}

\* Mutation: names outside the build set are counted too.
EntriesOutsideToo(p) == DOMAIN requires[p]

\* The list positions that build_dependency_graph counts for p.
Entries(p) == {i \in DOMAIN requires[p] : requires[p][i] \in Packages}

Dependents(n) == {p \in Packages : n \in Deps(p)}

\* Mutation: min() for max().
Lower(a, b) == IF a < b THEN a ELSE b

Higher(a, b) == IF a < b THEN b ELSE a

Init ==
    /\ requires \in [Packages -> RequireLists]
    /\ caller \in {"order", "resolver"}
    /\ phase = "graph"
    /\ in_degree = [p \in Packages |-> 0]
    /\ ranks = [p \in Packages |-> 0]
    /\ queue = {}
    /\ done = {}
    /\ position = <<>>

\* Mutation: nodes and edges in one loop, so that only nodes already seen count.
BuildGraphInOneLoop ==
    /\ phase = "graph"
    /\ in_degree' = [p \in Packages |->
          Cardinality({i \in Entries(p) : NameOrder[requires[p][i]] < NameOrder[p]})]
    /\ phase' = "seed"
    /\ UNCHANGED <<requires, caller, ranks, queue, done, position>>

\* One edge per distinct dependency, but one count per list position.
BuildGraph ==
    /\ phase = "graph"
    /\ in_degree' = [p \in Packages |-> Cardinality(Entries(p))]
    /\ phase' = "seed"
    /\ UNCHANGED <<requires, caller, ranks, queue, done, position>>

\* Mutation: <= 1 for == 0.
SeedQueueEarly ==
    /\ phase = "seed"
    /\ queue' = {p \in Packages : in_degree[p] <= 1}
    /\ phase' = "sort"
    /\ UNCHANGED <<requires, caller, in_degree, ranks, done, position>>

\* The nodes without dependencies enter the queue, at rank 0.
SeedQueue ==
    /\ phase = "seed"
    /\ queue' = {p \in Packages : in_degree[p] = 0}
    /\ phase' = "sort"
    /\ UNCHANGED <<requires, caller, in_degree, ranks, done, position>>

\* One turn of the loop: pop n and relax its edges.  The deque is filled by
\* iterating over Python sets, whose order is arbitrary; here any of its nodes
\* may be next, which includes every order that the deque can give.
ProcessNode(n) ==
    /\ phase = "sort"
    /\ n \in queue
    /\ LET left == [p \in Packages |->
                      IF p \in Dependents(n) THEN in_degree[p] - 1 ELSE in_degree[p]]
       IN  /\ in_degree' = left
           /\ queue' = (queue \ {n}) \cup {p \in Dependents(n) : left[p] = 0}
    /\ ranks' = [p \in Packages |->
                   IF p \in Dependents(n) THEN Higher(ranks[p], ranks[n] + 1) ELSE ranks[p]]
    /\ done' = done \cup {n}
    /\ UNCHANGED <<requires, caller, phase, position>>

\* Mutation: the number of processed nodes is not compared with the total.
FinishSortUnchecked ==
    /\ phase = "sort"
    /\ queue = {}
    /\ phase' = "force"
    /\ UNCHANGED <<requires, caller, in_degree, ranks, queue, done, position>>

\* Mutation: the loop goes on until every node is processed.
FinishSortWhenAllDone ==
    /\ phase = "sort"
    /\ done = Packages
    /\ phase' = "force"
    /\ UNCHANGED <<requires, caller, in_degree, ranks, queue, done, position>>

\* The queue is empty: every node was processed, or "Cycle detected!".
FinishSort ==
    /\ phase = "sort"
    /\ queue = {}
    /\ phase' = IF Cardinality(done) = Cardinality(Packages) THEN "force" ELSE "cycle"
    /\ UNCHANGED <<requires, caller, in_degree, ranks, queue, done, position>>

\* Mutation: the others never move up.
ForceEnvironmentTied ==
    /\ phase = "force"
    /\ ranks' = [p \in Packages |-> IF p = Environment THEN 0 ELSE ranks[p]]
    /\ phase' = "list"
    /\ UNCHANGED <<requires, caller, in_degree, queue, done, position>>

\* `environment' goes to rank 0; the others move up only if it was there.
ForceEnvironment ==
    /\ phase = "force"
    /\ ranks' = IF Environment \notin Packages THEN ranks
                ELSE IF ranks[Environment] = 0
                THEN [p \in Packages |-> IF p = Environment THEN 0 ELSE ranks[p] + 1]
                ELSE [ranks EXCEPT ![Environment] = 0]
    /\ phase' = "list"
    /\ UNCHANGED <<requires, caller, in_degree, queue, done, position>>

\* Mutation: the list is sorted by name only.
BeforeByName(p, q) == NameOrder[p] < NameOrder[q]

\* get_build_order: by rank, alphabetically within a rank.
Before(p, q) == \/ ranks[p] < ranks[q]
                \/ ranks[p] = ranks[q] /\ NameOrder[p] < NameOrder[q]

Index(p) == Cardinality({q \in Packages : Before(q, p)})

\* The resolver appends the flavor meta-package and returns; the CLI validates.
ListPackages ==
    /\ phase = "list"
    /\ position' = IF caller = "resolver"
                   THEN [x \in Packages \cup {Meta} |->
                           IF x = Meta THEN Cardinality(Packages) ELSE Index(x)]
                   ELSE [p \in Packages |-> Index(p)]
    /\ phase' = IF caller = "resolver" THEN "listed" ELSE "validate"
    /\ UNCHANGED <<requires, caller, in_degree, ranks, queue, done>>

Misplaced == {p \in Packages : \E d \in Deps(p) : position[d] >= position[p]}

\* validate_build_order: print the order, or exit 1.
ValidateOrder ==
    /\ phase = "validate"
    /\ phase' = IF Misplaced = {} THEN "printed" ELSE "rejected"
    /\ UNCHANGED <<requires, caller, in_degree, ranks, queue, done, position>>

Next ==
    \/ BuildGraph
    \/ SeedQueue
    \/ \E n \in Packages : ProcessNode(n)
    \/ FinishSort
    \/ ForceEnvironment
    \/ ListPackages
    \/ ValidateOrder

\* The computation has returned, printed its list or raised ValueError.
Returned == phase \in {"listed", "printed", "rejected", "cycle"}

\* A single-threaded computation runs until it returns.
Spec == Init /\ [][Next]_vars /\ WF_vars(Next)

-----------------------------------------------------------------------------

\* Types; in particular no in-degree is ever decremented below zero.
TypeOK ==
    /\ requires \in [Packages -> RequireLists]
    /\ caller \in {"order", "resolver"}
    /\ phase \in Phases
    /\ in_degree \in [Packages -> Nat]
    /\ ranks \in [Packages -> Nat]
    /\ queue \subseteq Packages
    /\ done \subseteq Packages
    /\ phase \in {"listed", "validate", "printed", "rejected"} =>
          /\ Packages \subseteq DOMAIN position
          /\ \A p \in Packages : position[p] \in Nat

\* No package is popped twice, so the loop's counter is the number of nodes done.
PoppedOnce == queue \cap done = {}

\* The list get_ordered_package_list returns ("dependency-safe build order")
\* puts every dependency before its dependents, `environment' itself excepted.
OrderRespectsDeps ==
    phase \in {"listed", "printed"} =>
        \A p \in Packages \ {Environment} : \A d \in Deps(p) : position[d] < position[p]

\* The ranks do not depend on the order in which the loop pops nodes: a rank is
\* one more than the highest rank among the dependencies.  `scls build all'
\* recomputes the list before each step and relies on getting the same one.
RankIsDepth ==
    phase = "force" =>
        \A p \in Packages :
            /\ \A d \in Deps(p) : ranks[d] < ranks[p]
            /\ ranks[p] = 0 \/ \E d \in Deps(p) : ranks[p] = ranks[d] + 1

NoRepeats(p) == \A i, j \in Entries(p) : requires[p][i] = requires[p][j] => i = j

\* "Cycle detected!" is raised, when no recipe repeats a name, only if there is
\* a set of packages each of which needs another of the set to be built first.
CycleIsReal ==
    (phase = "cycle" /\ \A p \in Packages : NoRepeats(p)) =>
        \E S \in SUBSET Packages : S # {} /\ \A p \in S : Deps(p) \cap S # {}

\* With no dependency of its own in the build set, `environment' is built first.
EnvironmentFirst ==
    (phase \in {"listed", "printed"} /\ Environment \in Packages /\ Deps(Environment) = {}) =>
        position[Environment] = 0

\* validate_build_order can fail only on the dependencies of `environment'.
RejectedOnlyForEnvironment == phase = "rejected" => Misplaced = {Environment}

\* The computation returns: the loop cannot run forever, whatever the recipes.
Returns == <>Returned

-----------------------------------------------------------------------------
HasList == phase \in {"listed", "validate", "printed", "rejected"}

Promise == INSTANCE TopologicalOrder WITH
    Forced    <- Environment,
    needs     <- [p \in Packages |-> Deps(p)],
    repeating <- {p \in Packages : ~NoRepeats(p)},
    placed    <- done,
    status    <- IF phase = "cycle" THEN "cyclic" ELSE IF HasList THEN "listed" ELSE "open",
    list      <- IF HasList THEN [p \in Packages |-> position[p]] ELSE <<>>

\* Kahn's algorithm with its counts, queue and ranks is an implementation of
\* taking packages one at a time, each after its needs: every turn of the loop
\* takes one, the list that comes out has one place for each package and respects
\* all needs but those of `environment', and the sort fails only when it is stuck.
KeepsPromise == Promise!Spec

=============================================================================
