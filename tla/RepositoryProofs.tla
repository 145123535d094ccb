-------------------------- MODULE RepositoryProofs --------------------------
(***************************************************************************)
(* Theorems about Repository, for every catalog of recipes, every flavor,  *)
(* every flavor.conf and whatever users ask for.                           *)
(***************************************************************************)
EXTENDS Repository, RecipesProofs, FiniteSetTheorems

-----------------------------------------------------------------------------
(***************************************************************************)
(* The inductive invariant of the layout: what is published, environment   *)
(* and the meta-packages apart, waits for environment; and once that is    *)
(* unpacked, the prefix has its link.                                      *)
(***************************************************************************)
PlanInv ==
    /\ flavor \in Flavors /\ extras \in ExtraSets /\ kind \in Builders
    /\ DOMAIN plan = DOMAIN Catalog
    /\ \A p \in DOMAIN Catalog :
          /\ plan[p].selected <=> p \in Kept(flavor)
          /\ plan[p].starts => Configurable(kind, flavor, Catalog[p])
          /\ plan[p].packages = BinaryPackages(flavor, kind, p)
          /\ plan[p].links = Settings(kind, flavor, Catalog[p]).libs

WaitsForEnvironment(package) == Environment \in StackNames(package.pre)

LayoutInv ==
    /\ PlanInv
    /\ txn \subseteq DOMAIN published
    /\ \A a \in DOMAIN published \ (Metas \cup {Environment}) : WaitsForEnvironment(published[a])
    /\ Environment \in user => lib = "link"
    /\ lib \in {"none", "link"}

\* The plan is made once, from what the builder reads in the recipes.
LEMMA PlanInit == Init => PlanInv
<1> SUFFICES ASSUME Init PROVE PlanInv
  OBVIOUS
<1>1. /\ flavor \in Flavors /\ extras \in ExtraSets /\ kind \in Builders
      /\ plan = Plan(flavor, kind, extras)
  BY DEF Init
<1>2. DOMAIN plan = DOMAIN Catalog
  BY <1>1 DEF Plan
<1>3. ASSUME NEW p \in DOMAIN Catalog
      PROVE  /\ plan[p].selected <=> p \in Kept(flavor)
             /\ plan[p].starts => Configurable(kind, flavor, Catalog[p])
             /\ plan[p].packages = BinaryPackages(flavor, kind, p)
             /\ plan[p].links = Settings(kind, flavor, Catalog[p]).libs
  BY <1>1 DEF Plan
<1> QED
  BY <1>1, <1>2, <1>3 DEF PlanInv

LEMMA PlanStays == PlanInv /\ UNCHANGED setup => PlanInv'
BY DEF PlanInv, setup

LEMMA StackNamesOfStack == ASSUME NEW S PROVE StackNames(Stack(S)) = S
<1>1. Stack(S) = {q \in Stack(S) : q[1] = "stack"}
  BY DEF Stack
<1>2. StackNames(Stack(S)) = {q[2] : q \in Stack(S)}
  BY <1>1, Zenon DEF StackNames
<1>3. ASSUME NEW n \in S PROVE n \in StackNames(Stack(S))
  <2>1. <<"stack", n>> \in Stack(S)
    BY DEF Stack
  <2>2. <<"stack", n>>[2] = n
    OBVIOUS
  <2> QED
    BY <1>2, <2>1, <2>2
<1>4. ASSUME NEW n \in StackNames(Stack(S)) PROVE n \in S
  <2>1. PICK q \in Stack(S) : n = q[2]
    BY <1>2
  <2> QED
    BY <2>1 DEF Stack
<1> QED
  BY <1>3, <1>4

\* Every binary package of a recipe but environment itself waits for it: the
\* main one by its own requirement, the subpackages by theirs.
LEMMA BinaryPackagesWait ==
    ASSUME flavor \in Flavors, NEW p \in DOMAIN Catalog,
           NEW n \in DOMAIN BinaryPackages(flavor, kind, p), n # Environment
    PROVE  WaitsForEnvironment(BinaryPackages(flavor, kind, p)[n])
<1> DEFINE r == Catalog[p]
<1>1. StackNames(Stack({Environment})) = {Environment}
  BY StackNamesOfStack
<1>2. p # Environment => OwnEnvironment(p) = Stack({Environment})
  BY DEF OwnEnvironment, Environment
<1>3. CASE kind = "rpm"
  <2>1. BinaryPackages(flavor, kind, p) = RpmPackages(flavor, p, r)
    BY <1>3 DEF BinaryPackages
  <2>2. n \in {p} \cup Subpackages(flavor, r)
    BY <2>1 DEF RpmPackages
  <2>3. BinaryPackages(flavor, kind, p)[n].pre = Stack({Environment})
    <3>1. CASE n = p
      BY <3>1, <2>1, <2>2, <1>2 DEF RpmPackages, RpmRequires
    <3>2. CASE n # p
      BY <3>2, <2>1, <2>2 DEF RpmPackages, Environment
    <3> QED
      BY <3>1, <3>2
  <2> QED
    BY <2>3, <1>1 DEF WaitsForEnvironment
<1>4. CASE kind # "rpm"
  <2>1. BinaryPackages(flavor, kind, p) = DebPackages(flavor, p, r, Catalog, SystemMap)
    BY <1>4 DEF BinaryPackages
  <2>2. n \in {p} \cup Subpackages(flavor, r)
    BY <2>1 DEF DebPackages
  <2>3. BinaryPackages(flavor, kind, p)[n].pre = Stack({Environment})
    <3>1. CASE n = p
      BY <3>1, <2>1, <2>2, <1>2 DEF DebPackages
    <3>2. CASE n # p
      BY <3>2, <2>1, <2>2 DEF DebPackages, Environment
    <3> QED
      BY <3>1, <3>2
  <2> QED
    BY <2>3, <1>1 DEF WaitsForEnvironment
<1> QED
  BY <1>3, <1>4

LEMMA LayoutInit == Init => LayoutInv
BY PlanInit DEF Init, LayoutInv

LEMMA ProduceKeepsLayout ==
    ASSUME LayoutInv, NEW p \in DOMAIN Catalog, Produce(p)
    PROVE  LayoutInv'
<1>1. UNCHANGED <<setup, txn, user, lib>> /\ DOMAIN published \subseteq DOMAIN published'
  BY DEF Produce, Publish, userVars
<1>0. PlanInv' /\ plan[p].packages = BinaryPackages(flavor, kind, p)
  BY PlanStays DEF Produce, PlanInv, LayoutInv
<1>2. ASSUME NEW a \in DOMAIN published' \ (Metas \cup {Environment})
      PROVE  WaitsForEnvironment(published'[a])
  <2>1. CASE a \in DOMAIN BinaryPackages(flavor, kind, p)
    <3>1. published'[a] = BinaryPackages(flavor, kind, p)[a]
      BY <1>0, <2>1 DEF Produce, Publish
    <3>2. WaitsForEnvironment(BinaryPackages(flavor, kind, p)[a])
      BY <1>2, <2>1, BinaryPackagesWait DEF LayoutInv, PlanInv
    <3> QED
      BY <3>1, <3>2
  <2>2. CASE a \notin DOMAIN BinaryPackages(flavor, kind, p)
    <3>1. a \in DOMAIN published /\ published'[a] = published[a]
      BY <1>0, <1>2, <2>2 DEF Produce, Publish
    <3> QED
      BY <3>1, <1>2 DEF LayoutInv
  <2> QED
    BY <2>1, <2>2
<1> QED
  BY <1>0, <1>1, <1>2 DEF LayoutInv, WaitsForEnvironment

LEMMA BuildMetaKeepsLayout == LayoutInv /\ BuildMeta => LayoutInv'
<1> SUFFICES ASSUME LayoutInv, BuildMeta PROVE LayoutInv'
  OBVIOUS
<1>0. UNCHANGED <<setup, txn, user, lib>> /\ DOMAIN published \subseteq DOMAIN published'
  BY DEF BuildMeta, Publish
<1>1. PlanInv'
  BY <1>0, PlanStays DEF LayoutInv
<1>2. ASSUME NEW a \in DOMAIN published' \ (Metas \cup {Environment})
      PROVE  a \in DOMAIN published /\ published'[a] = published[a]
  BY <1>2 DEF BuildMeta, Publish, Metas
<1> QED
  BY <1>0, <1>1, <1>2 DEF LayoutInv, WaitsForEnvironment

LEMMA UnpackKeepsLayout == LayoutInv /\ Unpack => LayoutInv'
<1> SUFFICES ASSUME LayoutInv, Unpack PROVE LayoutInv'
  OBVIOUS
<1> DEFINE ready == {a \in txn \ user : StackNames(published[a].pre) \subseteq user}
<1>1. UNCHANGED <<setup, published, txn>> /\ user' = user \cup ready
  BY Zenon DEF Unpack
<1>2. PlanInv'
  BY <1>1, PlanStays DEF LayoutInv
<1>3. Environment \notin Metas
  BY DEF Metas, Environment, FlavorMeta, ExamplesMeta
<1>4. CASE lib' = lib /\ (lib # "none" \/ ready \subseteq Metas)
  BY <1>1, <1>2, <1>3, <1>4 DEF LayoutInv, WaitsForEnvironment
<1>5. ASSUME NEW first \in ready \ Metas,
             lib = "none", lib' = IF first = Environment THEN "link" ELSE "dir"
      PROVE  LayoutInv'
  <2>1. Environment \notin user
    BY <1>5 DEF LayoutInv
  <2>2. first \in DOMAIN published => first = Environment
    BY <1>5, <2>1 DEF LayoutInv, WaitsForEnvironment
  <2>3. first \in DOMAIN published
    BY <1>5 DEF LayoutInv
  <2> QED
    BY <1>1, <1>2, <1>5, <2>2, <2>3 DEF LayoutInv, WaitsForEnvironment
<1> QED
  BY <1>4, <1>5 DEF Unpack

LEMMA LayoutStep == LayoutInv /\ [Next]_vars => LayoutInv'
<1> SUFFICES ASSUME LayoutInv, [Next]_vars PROVE LayoutInv'
  OBVIOUS
<1>1. ASSUME NEW p \in DOMAIN Catalog, BuildNext(p) \/ BuildExtra(p)
      PROVE  LayoutInv'
  BY <1>1, ProduceKeepsLayout DEF BuildNext, BuildExtra
<1>2. ASSUME UNCHANGED <<setup, published, user, lib>>, txn' \subseteq DOMAIN published
      PROVE  LayoutInv'
  BY <1>2, PlanStays DEF LayoutInv, WaitsForEnvironment
<1>3. ASSUME NEW p \in DOMAIN Catalog, StopNext(p) \/ Install(p)
      PROVE  LayoutInv'
  BY <1>2, <1>3 DEF StopNext, Install, userVars, LayoutInv
<1>4. ASSUME NEW g \in Goals, Request(g)
      PROVE  LayoutInv'
  BY <1>2, <1>4 DEF Request, LayoutInv
<1>5. ASSUME Resolve \/ Refuse \/ UNCHANGED vars
      PROVE  LayoutInv'
  BY <1>2, <1>5 DEF Resolve, Refuse, vars, LayoutInv
<1> QED
  BY <1>1, <1>3, <1>4, <1>5, BuildMetaKeepsLayout, UnpackKeepsLayout DEF Next

\* No package creates <prefix>/lib before environment has made it a link,
\* whatever the recipes require of each other, whichever builder wrote the
\* packages, and in whatever order dnf or apt unpack what users ask for.
THEOREM LayoutIsFirst == Spec => []LayoutFirst
<1>1. LayoutInv => LayoutFirst
  BY DEF LayoutInv, LayoutFirst
<1> QED
  BY <1>1, LayoutInit, LayoutStep, PTL DEF Spec

-----------------------------------------------------------------------------
(***************************************************************************)
(* No requirement of a published package names an internal one: the        *)
(* builders drop build-only names from what the recipe lists, and add      *)
(* none; so what a user asks for never draws one in.                       *)
(***************************************************************************)
Clean(reqs) == \A q \in reqs : q[1] = "stack" => q[2] \notin MetaExcluded

InternalInv ==
    /\ PlanInv
    /\ \A a \in DOMAIN published : Clean(published[a].requires) /\ Clean(published[a].pre)
    /\ txn \cap MetaExcluded = {} /\ txn \subseteq DOMAIN published

LEMMA CleanStack == ASSUME NEW S, S \cap MetaExcluded = {} PROVE Clean(Stack(S))
BY DEF Clean, Stack

LEMMA CleanHost == ASSUME NEW S PROVE Clean(Host(S))
BY DEF Clean, Host

LEMMA CleanNames ==
    ASSUME NEW reqs, Clean(reqs) PROVE StackNames(reqs) \cap MetaExcluded = {}
BY DEF Clean, StackNames

LEMMA CleanTranslation ==
    ASSUME NEW reqs, Clean(reqs), NEW system_map PROVE Clean(Translate(reqs, system_map))
<1> SUFFICES ASSUME NEW q \in Translate(reqs, system_map), q[1] = "stack"
             PROVE  q[2] \notin MetaExcluded
  BY DEF Clean
<1>1. CASE q \in reqs
  BY <1>1 DEF Clean
<1>2. CASE q \notin reqs
  <2>1. PICK x \in reqs : q \in Host(system_map[x[2]])
    BY <1>2 DEF Translate
  <2> QED
    BY <2>1 DEF Host
<1> QED
  BY <1>1, <1>2

LEMMA CleanEnvironment == ASSUME NEW p PROVE Clean(OwnEnvironment(p)) /\ Clean(Stack({"environment"}))
BY DEF OwnEnvironment, Clean, Stack, MetaExcluded

LEMMA CleanRuntime == ASSUME NEW names PROVE Clean(Stack(names \ BuildOnlyDeps))
BY DEF Clean, Stack, MetaExcluded, BuildOnlyDeps

\* The math and MPI packages the two builders add on their own.
LEMMA CleanMath ==
    ASSUME NEW f, NEW r
    PROVE  /\ Clean(RpmMath(f, r))
           /\ Clean(IF r.mpi THEN Stack({"openmpi"}) ELSE {})
           /\ Clean(MathAndMpiDeps(f, r))
<1> DEFINE mkl == Host({"intel-oneapi-mkl", "intel-oneapi-mkl-devel"})
           mpi == IF r.mpi THEN Stack({"openmpi"}) ELSE {}
           scalapack == IF r.math = "parallel" THEN Stack({"scalapack"}) ELSE {}
<1>1. Clean(mkl)
  BY CleanHost
<1>2. Clean(mpi) /\ Clean(scalapack) /\ Clean({})
  BY DEF Clean, Stack, MetaExcluded
<1>3. Clean(Stack({"openblas"})) /\ Clean(Stack({"blas", "lapack"}))
  BY DEF Clean, Stack, MetaExcluded
<1>4. Clean(RpmMath(f, r))
  <2>1. RpmMath(f, r) \subseteq mkl \cup scalapack \cup Stack({"openblas"}) \cup Stack({"blas", "lapack"})
    BY DEF RpmMath
  <2> QED
    BY <2>1, <1>1, <1>2, <1>3 DEF Clean
<1>5. Clean(MathAndMpiDeps(f, r))
  <2> DEFINE blas == [mkl       |-> mkl,
                      openblas  |-> Stack({"openblas"}),
                      reference |-> Stack({"blas", "lapack"}),
                      lapack    |-> Stack({"blas", "lapack"})]
  <2>1. Clean(Entry(blas, f.linalg))
    <3> DEFINE B == Stack({"openblas"})
               L == Stack({"blas", "lapack"})
    <3> HIDE DEF mkl, B, L
    <3>1. DOMAIN blas = {"mkl", "openblas", "reference", "lapack"}
      OBVIOUS
    <3>2. Entry(blas, f.linalg) \in {mkl, B, L, {}}
      BY <3>1 DEF Entry, B, L
    <3> QED
      BY <3>2, <1>1, <1>2, <1>3 DEF B, L
  <2>2. MathAndMpiDeps(f, r) \subseteq Entry(blas, f.linalg) \cup Stack({"scalapack"}) \cup mpi
    BY DEF MathAndMpiDeps
  <2>3. Clean(Stack({"scalapack"}))
    BY DEF Clean, Stack, MetaExcluded
  <2> QED
    BY <2>1, <2>2, <2>3, <1>2 DEF Clean
<1> QED
  BY <1>2, <1>4, <1>5

\* Whichever builder writes them, the packages of a recipe require none.
LEMMA BinaryPackagesClean ==
    ASSUME flavor \in Flavors, NEW p \in DOMAIN Catalog, NEW n \in DOMAIN BinaryPackages(flavor, kind, p)
    PROVE  Clean(BinaryPackages(flavor, kind, p)[n].requires) /\ Clean(BinaryPackages(flavor, kind, p)[n].pre)
<1> DEFINE r == Catalog[p]
           sub == Stack(SubpackageDeps(flavor, r, n))
           env == Stack({"environment"})
<1>1. Clean(env) /\ Clean(OwnEnvironment(p))
  BY CleanEnvironment
<1>2. n \in Subpackages(flavor, r) => Clean(sub)
  BY InternalAssumption, CleanStack DEF Subpackages
<1>3. Clean(RpmRequires(flavor, p, r).run)
  <2>1. RpmRequires(flavor, p, r).run =
          Host(Listed(flavor, r.rpm_requires)) \cup RpmRuntime(Listed(flavor, r.requires))
            \cup (RpmMath(flavor, r) \cup IF r.mpi THEN Stack({"openmpi"}) ELSE {})
            \cup OwnEnvironment(p)
    BY Zenon DEF RpmRequires
  <2>2. Clean(RpmRuntime(Listed(flavor, r.requires)))
    BY CleanRuntime DEF RpmRuntime
  <2>3. Clean(Host(Listed(flavor, r.rpm_requires)))
    BY CleanHost
  <2> QED
    BY <2>1, <2>2, <2>3, <1>1, CleanMath DEF Clean
<1>4. Clean(DebDepends(flavor, r, Catalog).run)
  <2>1. DebDepends(flavor, r, Catalog).run =
          Host(Listed(flavor, r.rpm_requires)) \cup MathAndMpiDeps(flavor, r)
            \cup Stack(Listed(flavor, r.requires) \ BuildOnlyDeps)
    BY Zenon DEF DebDepends, RecipeSystemDeps, RecipeStackDeps
  <2>2. Clean(Host(Listed(flavor, r.rpm_requires)))
    BY CleanHost
  <2>3. Clean(Stack(Listed(flavor, r.requires) \ BuildOnlyDeps))
    BY CleanRuntime
  <2> QED
    BY <2>1, <2>2, <2>3, CleanMath DEF Clean
<1>5. CASE kind = "rpm"
  <2>1. BinaryPackages(flavor, kind, p) = RpmPackages(flavor, p, r)
    BY <1>5 DEF BinaryPackages
  <2>2. n \in {p} \cup Subpackages(flavor, r)
    BY <2>1 DEF RpmPackages
  <2>3. CASE n = p
    BY <2>1, <2>2, <2>3, <1>1, <1>3 DEF RpmPackages, RpmRequires
  <2>4. CASE n # p
    <3>1. /\ BinaryPackages(flavor, kind, p)[n].requires = sub \cup env
          /\ BinaryPackages(flavor, kind, p)[n].pre = env
      BY <2>1, <2>2, <2>4 DEF RpmPackages
    <3> QED
      BY <3>1, <2>2, <2>4, <1>1, <1>2 DEF Clean
  <2> QED
    BY <2>3, <2>4
<1>6. CASE kind # "rpm"
  <2>1. BinaryPackages(flavor, kind, p) = DebPackages(flavor, p, r, Catalog, SystemMap)
    BY <1>6 DEF BinaryPackages
  <2>2. n \in {p} \cup Subpackages(flavor, r)
    BY <2>1 DEF DebPackages
  <2>3. CASE n = p
    <3>1. /\ BinaryPackages(flavor, kind, p)[n].requires =
               OwnEnvironment(p) \cup Translate(DebDepends(flavor, r, Catalog).run, SystemMap)
          /\ BinaryPackages(flavor, kind, p)[n].pre = OwnEnvironment(p)
      BY <2>1, <2>2, <2>3 DEF DebPackages
    <3>2. Clean(Translate(DebDepends(flavor, r, Catalog).run, SystemMap))
      BY <1>4, CleanTranslation
    <3> QED
      BY <3>1, <3>2, <1>1 DEF Clean
  <2>4. CASE n # p
    <3>1. /\ BinaryPackages(flavor, kind, p)[n].requires = env \cup sub
          /\ BinaryPackages(flavor, kind, p)[n].pre = env
      BY <2>1, <2>2, <2>4 DEF DebPackages
    <3> QED
      BY <3>1, <2>2, <2>4, <1>1, <1>2 DEF Clean
  <2> QED
    BY <2>3, <2>4
<1> QED
  BY <1>5, <1>6

\* The meta-packages leave the internal packages out.
LEMMA MetaPackageClean ==
    /\ Clean(MetaPackage(MetaRequires).requires) /\ Clean(MetaPackage(MetaRequires).pre)
    /\ Clean(MetaPackage(Examples).requires) /\ Clean(MetaPackage(Examples).pre)
<1>1. MetaRequires \cap MetaExcluded = {}
  BY DEF MetaRequires
<1>2. Examples \cap MetaExcluded = {}
  <2>1. Examples \subseteq ExampleNames
    BY DEF Examples
  <2> QED
    BY <2>1, InternalAssumption
<1>3. Clean({})
  BY DEF Clean
<1>4. Clean(Stack(MetaRequires)) /\ Clean(Stack(Examples))
  BY <1>1, <1>2, CleanStack
<1>5. ASSUME NEW names
      PROVE  MetaPackage(names).requires = Stack(names) /\ MetaPackage(names).pre = {}
  BY DEF MetaPackage
<1>6. Clean(MetaPackage(MetaRequires).requires) /\ Clean(MetaPackage(Examples).requires)
  BY <1>4, <1>5
<1>7. Clean(MetaPackage(MetaRequires).pre) /\ Clean(MetaPackage(Examples).pre)
  BY <1>3, <1>5
<1> QED
  BY <1>6, <1>7

LEMMA InternalInit == Init => InternalInv
BY PlanInit DEF Init, InternalInv

LEMMA ProduceKeepsInternal ==
    ASSUME InternalInv, NEW p \in DOMAIN Catalog, Produce(p)
    PROVE  InternalInv'
<1>1. txn' = txn /\ DOMAIN published \subseteq DOMAIN published'
  BY DEF Produce, Publish, userVars
<1>0. PlanInv' /\ plan[p].packages = BinaryPackages(flavor, kind, p)
  BY PlanStays DEF Produce, PlanInv, InternalInv
<1>2. ASSUME NEW a \in DOMAIN published'
      PROVE  Clean(published'[a].requires) /\ Clean(published'[a].pre)
  <2>1. CASE a \in DOMAIN BinaryPackages(flavor, kind, p)
    <3>1. published'[a] = BinaryPackages(flavor, kind, p)[a]
      BY <1>0, <2>1 DEF Produce, Publish
    <3> QED
      BY <3>1, <2>1, BinaryPackagesClean DEF InternalInv, PlanInv
  <2>2. CASE a \notin DOMAIN BinaryPackages(flavor, kind, p)
    <3>1. a \in DOMAIN published /\ published'[a] = published[a]
      BY <1>0, <1>2, <2>2 DEF Produce, Publish
    <3> QED
      BY <3>1 DEF InternalInv
  <2> QED
    BY <2>1, <2>2
<1> QED
  BY <1>0, <1>1, <1>2 DEF InternalInv, Clean

LEMMA BuildMetaKeepsInternal == InternalInv /\ BuildMeta => InternalInv'
<1> SUFFICES ASSUME InternalInv, BuildMeta PROVE InternalInv'
  OBVIOUS
<1>0. PlanInv'
  BY PlanStays DEF BuildMeta, InternalInv
<1>1. txn' = txn /\ DOMAIN published \subseteq DOMAIN published'
  BY DEF BuildMeta, Publish
<1>2. ASSUME NEW a \in DOMAIN published'
      PROVE  Clean(published'[a].requires) /\ Clean(published'[a].pre)
  <2>1. published'[a] \in {MetaPackage(MetaRequires), MetaPackage(Examples)}
          \/ (a \in DOMAIN published /\ published'[a] = published[a])
    BY <1>2 DEF BuildMeta, Publish
  <2> QED
    BY <2>1, MetaPackageClean DEF InternalInv
<1> QED
  BY <1>0, <1>1, <1>2 DEF InternalInv, Clean

LEMMA ResolveKeepsInternal == InternalInv /\ Resolve => InternalInv'
<1> SUFFICES ASSUME InternalInv, Resolve PROVE InternalInv'
  OBVIOUS
<1>0. PlanInv'
  BY PlanStays DEF Resolve, InternalInv
<1>1. UNCHANGED published /\ txn' = txn \cup Missing /\ Missing \subseteq DOMAIN published
  BY DEF Resolve
<1>2. Missing \cap MetaExcluded = {}
  <2> SUFFICES ASSUME NEW n \in Missing PROVE n \notin MetaExcluded
    OBVIOUS
  <2>1. PICK a \in txn : n \in StackNames(published[a].requires \cup published[a].pre)
    BY DEF Missing
  <2>2. Clean(published[a].requires \cup published[a].pre)
    BY DEF InternalInv, Clean
  <2> QED
    BY <2>1, <2>2, CleanNames
<1> QED
  BY <1>0, <1>1, <1>2 DEF InternalInv, Clean

LEMMA InternalStep == InternalInv /\ [Next]_vars => InternalInv'
<1> SUFFICES ASSUME InternalInv, [Next]_vars PROVE InternalInv'
  OBVIOUS
<1>1. ASSUME NEW p \in DOMAIN Catalog, BuildNext(p) \/ BuildExtra(p)
      PROVE  InternalInv'
  BY <1>1, ProduceKeepsInternal DEF BuildNext, BuildExtra
<1>2. ASSUME UNCHANGED <<setup, published>>,
             txn' \cap MetaExcluded = {}, txn' \subseteq DOMAIN published
      PROVE  InternalInv'
  BY <1>2, PlanStays DEF InternalInv, Clean
<1>3. ASSUME NEW p \in DOMAIN Catalog, StopNext(p) \/ Install(p)
      PROVE  InternalInv'
  BY <1>2, <1>3 DEF StopNext, Install, userVars, InternalInv
<1>4. ASSUME NEW g \in Goals, Request(g)
      PROVE  InternalInv'
  BY <1>2, <1>4, InternalAssumption DEF Request, InternalInv
<1>5. ASSUME Unpack
      PROVE  InternalInv'
  <2>1. UNCHANGED <<setup, published, txn>>
    BY <1>5, Zenon DEF Unpack
  <2> QED
    BY <1>2, <2>1 DEF InternalInv
<1>6. ASSUME Refuse \/ UNCHANGED vars
      PROVE  InternalInv'
  BY <1>2, <1>6 DEF Refuse, vars, InternalInv
<1> QED
  BY <1>1, <1>3, <1>4, <1>5, <1>6, BuildMetaKeepsInternal, ResolveKeepsInternal DEF Next

\* What stays on the build host stays there: whatever users ask for, and
\* whatever the recipes list, no transaction contains an internal package.
THEOREM InternalStays == Spec => []InternalStaysOnHost
<1>1. InternalInv => InternalStaysOnHost
  BY DEF InternalInv, InternalStaysOnHost
<1> QED
  BY <1>1, InternalInit, InternalStep, PTL DEF Spec

-----------------------------------------------------------------------------
(***************************************************************************)
(* The two builders' readings of a recipe.                                 *)
(***************************************************************************)
LEMMA SelectedIsKept == PlanInv => Selected = Kept(flavor)
BY DEF PlanInv, Selected, Kept

\* The loader's selection is the one the deb builder asks about gcc.
LEMMA OwnGcc == PlanInv => ("gcc" \in Selected <=> BuildsOwnGcc(flavor, Catalog))
<1>1. "gcc" \in Kept(flavor) <=> BuildsOwnGcc(flavor, Catalog)
  BY DEF Kept, LoaderKeeps, BuildsOwnGcc, ShouldBuild
<1> QED
  BY <1>1, SelectedIsKept

LEMMA OwnEnvironmentStays ==
    ASSUME NEW p PROVE Translate(OwnEnvironment(p), SystemMap) = OwnEnvironment(p)
<1>1. Translate(Stack({"environment"}), SystemMap) = Stack({"environment"})
  BY TranslateStack
<1>2. Translate({}, SystemMap) = {}
  BY DEF Translate
<1> QED
  BY <1>1, <1>2 DEF OwnEnvironment

LEMMA ReadingsAgree == PlanInv => DebIsTranslatedRpm
<1> SUFFICES ASSUME PlanInv, NEW p \in Selected
             PROVE  LET hosted == IF Catalog[p].bootstrap \/ "gcc" \in Selected
                                  THEN {} ELSE HostCompilers(Catalog[p])
                        rpm == Rpm(flavor, p)
                        deb == Deb(flavor, p)
                    IN  /\ Translate(deb.run, SystemMap) \cup OwnEnvironment(p)
                             = Translate(rpm.run, SystemMap)
                        /\ Translate(deb.build, SystemMap)
                             = Translate(rpm.build \cup hosted, SystemMap)
                        /\ BinaryPackages(flavor, "deb", p)[p].pre = rpm.pre
  BY DEF DebIsTranslatedRpm
<1> DEFINE r == Catalog[p]
           hosted == IF r.bootstrap \/ "gcc" \in Selected THEN {} ELSE HostCompilers(r)
           rpm == Rpm(flavor, p)
           deb == Deb(flavor, p)
<1>1. Translate(deb.run, SystemMap) \cup OwnEnvironment(p) = Translate(rpm.run, SystemMap)
  <2>1. deb.run \cup OwnEnvironment(p) = rpm.run
    BY SameRunRequires DEF Rpm, Deb
  <2> HIDE DEF deb, rpm
  <2> QED
    BY <2>1, TranslateUnion, OwnEnvironmentStays
<1>2. Translate(deb.build, SystemMap) = Translate(rpm.build \cup hosted, SystemMap)
  <2>1. hosted = IF r.bootstrap \/ BuildsOwnGcc(flavor, Catalog) THEN {} ELSE HostCompilers(r)
    BY OwnGcc
  <2>2. deb.build = rpm.build \cup hosted
    BY <2>1, SameBuildRequires DEF Rpm, Deb
  <2> QED
    BY <2>2
<1>3. BinaryPackages(flavor, "deb", p)[p].pre = rpm.pre
  <2>1. p \in {p} \cup Subpackages(flavor, r)
    OBVIOUS
  <2>2. BinaryPackages(flavor, "deb", p) = DebPackages(flavor, p, r, Catalog, SystemMap)
    BY DEF BinaryPackages
  <2>3. BinaryPackages(flavor, "deb", p)[p].pre = OwnEnvironment(p)
    BY <2>1, <2>2 DEF DebPackages
  <2>4. rpm.pre = OwnEnvironment(p)
    BY DEF Rpm, RpmRequires
  <2> QED
    BY <2>3, <2>4
<1> QED
  BY <1>1, <1>2, <1>3

LEMMA PlanStep == PlanInv /\ [Next]_vars => PlanInv'
<1> SUFFICES ASSUME [Next]_vars PROVE UNCHANGED setup
  BY PlanStays
<1>1. ASSUME Unpack PROVE UNCHANGED setup
  BY <1>1, Zenon DEF Unpack
<1> QED
  BY <1>1 DEF Next, BuildNext, StopNext, BuildExtra, Produce, Install, BuildMeta, Request,
     Resolve, Refuse, vars

\* "The DEB equivalent of rpm_builder's BuildRequires / Requires", for every
\* recipe, flavor and map of Debian names.
THEOREM DebReadsLikeRpm == Spec => []DebIsTranslatedRpm
BY PlanInit, PlanStep, ReadingsAgree, PTL DEF Spec

LEMMA BuildersConfigureAlike ==
    ASSUME RecipesNameTheirMath, PlanInv
    PROVE  BuildersAgree
<1> SUFFICES ASSUME NEW p \in Selected
             PROVE  LET rpm == Settings("rpm", flavor, Catalog[p])
                        deb == Settings("deb", flavor, Catalog[p])
                        interface == IF Catalog[p].type = "custom"
                                     THEN ArgsOf(InterfaceArgs(flavor, Catalog[p])) ELSE {}
                        starts == [k \in Builders |-> Configurable(k, flavor, Catalog[p])]
                    IN  /\ starts["rpm"] <=> starts["deb"]
                        /\ starts["rpm"] => /\ rpm.compilers = deb.compilers
                                            /\ rpm.openmp = deb.openmp
                                            /\ rpm.libs = deb.libs
                                            /\ rpm.args = deb.args \cup interface
  BY DEF BuildersAgree
<1> DEFINE r == Catalog[p]
           interface == IF r.type = "custom" THEN ArgsOf(InterfaceArgs(flavor, r)) ELSE {}
           starts == [k \in Builders |-> Configurable(k, flavor, r)]
<1>1. flavor \in Flavors /\ p \in Kept(flavor)
  BY SelectedIsKept DEF PlanInv
<1>2. IsUniform(flavor) /\ (Configurable("rpm", flavor, r) => NamesItsMath(flavor, r))
  BY <1>1 DEF RecipesNameTheirMath
<1>3. /\ starts["rpm"] <=> Configurable("rpm", flavor, r)
      /\ starts["deb"] <=> Configurable("deb", flavor, r)
  BY Zenon DEF Builders
<1>4. starts["rpm"] <=> starts["deb"]
  BY <1>2, <1>3, SameStart
<1>5. ASSUME starts["rpm"]
      PROVE  /\ Settings("rpm", flavor, r).compilers = Settings("deb", flavor, r).compilers
             /\ Settings("rpm", flavor, r).openmp = Settings("deb", flavor, r).openmp
             /\ Settings("rpm", flavor, r).libs = Settings("deb", flavor, r).libs
             /\ Settings("rpm", flavor, r).args
                  = Settings("deb", flavor, r).args \cup interface
  BY <1>2, <1>3, <1>5, SameSettings
<1> HIDE DEF starts, interface
<1> QED
  BY <1>4, <1>5 DEF starts, interface

\* "Renders the same configure line on every builder": in flavors whose own and
\* bootstrap compilers are of one family, and for recipes that name the math they
\* link, whichever keys of flavor_args, interface and bootstrap apply.
THEOREM ConfigureLinesAgree ==
    ASSUME RecipesNameTheirMath
    PROVE  Spec => []BuildersAgree
<1>1. PlanInv => BuildersAgree
  BY RecipesNameTheirMath, BuildersConfigureAlike
<1> QED
  BY <1>1, PlanInit, PlanStep, PTL DEF Spec

-----------------------------------------------------------------------------
(***************************************************************************)
(* What is published is what the plan says, each name from one recipe, all *)
(* packages of a recipe at once; and what was published stays as it is.    *)
(***************************************************************************)
FromPlan(a) ==
    \E p \in DOMAIN Catalog :
        /\ plan[p].starts
        /\ a \in DOMAIN plan[p].packages
        /\ DOMAIN plan[p].packages \subseteq DOMAIN published
        /\ published[a] = plan[p].packages[a]

PublishedInv ==
    /\ \A a \in DOMAIN published \ Metas : FromPlan(a)
    /\ \A a \in DOMAIN published \cap Metas :
          DOMAIN published[a] = {"requires", "pre"} /\ published[a].pre = {}

RepositoryInv == PlanInv /\ PublishedInv /\ TypeOK

LEMMA PackageNames ==
    ASSUME PlanInv, NEW p \in DOMAIN Catalog
    PROVE  DOMAIN plan[p].packages = NamesOf(flavor, p)
<1>1. plan[p].packages = BinaryPackages(flavor, kind, p)
  BY DEF PlanInv
<1> QED
  BY <1>1 DEF BinaryPackages, RpmPackages, DebPackages, NamesOf

\* Each of a recipe's packages has two lists; before it may come environment.
LEMMA PackageShape ==
    ASSUME PlanInv, NEW p \in DOMAIN Catalog, NEW a \in DOMAIN plan[p].packages
    PROVE  /\ DOMAIN plan[p].packages[a] = {"requires", "pre"}
           /\ plan[p].packages[a].pre \in SUBSET Stack({Environment})
<1> DEFINE r == Catalog[p]
<1>1. plan[p].packages = BinaryPackages(flavor, kind, p) /\ a \in {p} \cup Subpackages(flavor, r)
  BY PackageNames DEF PlanInv, NamesOf
<1>2. OwnEnvironment(p) \in SUBSET Stack({Environment})
  BY DEF OwnEnvironment, Environment
<1>3. RpmRequires(flavor, p, r).pre = OwnEnvironment(p)
  BY DEF RpmRequires
<1>4. CASE kind = "rpm"
  <2>1. plan[p].packages[a] =
          IF a = p
          THEN [requires |-> RpmRequires(flavor, p, r).run, pre |-> RpmRequires(flavor, p, r).pre]
          ELSE [requires |-> Stack(SubpackageDeps(flavor, r, a)) \cup Stack({"environment"}),
                pre |-> Stack({"environment"})]
    BY <1>1, <1>4 DEF BinaryPackages, RpmPackages
  <2> QED
    BY <2>1, <1>2, <1>3 DEF Environment
<1>5. CASE kind # "rpm"
  <2> DEFINE env == IF a = p THEN OwnEnvironment(p) ELSE Stack({"environment"})
  <2>1. plan[p].packages[a] =
          [requires |-> env \cup IF a = p
                                 THEN Translate(DebDepends(flavor, r, Catalog).run, SystemMap)
                                 ELSE Stack(SubpackageDeps(flavor, r, a)),
           pre |-> env]
    BY <1>1, <1>5 DEF BinaryPackages, DebPackages
  <2>2. env \in SUBSET Stack({Environment})
    BY <1>2 DEF Environment
  <2> QED
    BY <2>1, <2>2
<1> QED
  BY <1>4, <1>5

\* A name comes from one recipe only.
LEMMA OneRecipe ==
    ASSUME PlanInv, NEW p \in DOMAIN Catalog, NEW q \in DOMAIN Catalog,
           NEW a \in DOMAIN plan[p].packages
    PROVE  a \notin Metas /\ (a \in DOMAIN plan[q].packages => q = p)
BY PackageNames, NamesAssumption DEF PlanInv

LEMMA OwnName ==
    ASSUME PlanInv, NEW p \in DOMAIN Catalog PROVE p \in DOMAIN plan[p].packages
BY PackageNames DEF NamesOf

\* A build adds the packages of its recipe and leaves the others as they are.
LEMMA BuildAdds ==
    ASSUME RepositoryInv, NEW p \in DOMAIN Catalog, BuildNext(p) \/ BuildExtra(p)
    PROVE  /\ UNCHANGED <<setup, host, phase, goal, txn, user, lib>>
           /\ stopped' \subseteq stopped
           /\ DOMAIN published' = DOMAIN published \cup DOMAIN plan[p].packages
           /\ \A a \in DOMAIN published : published'[a] = published[a]
           /\ \A a \in DOMAIN plan[p].packages : published'[a] = plan[p].packages[a]
           /\ plan[p].starts
<1>1. Produce(p) /\ plan[p].starts
  BY DEF BuildNext, BuildExtra, BuildSucceeds
<1>2. published' = [a \in DOMAIN published \cup DOMAIN plan[p].packages |->
                      IF a \in DOMAIN plan[p].packages THEN plan[p].packages[a] ELSE published[a]]
  BY <1>1 DEF Produce, Publish
<1>3. ASSUME NEW a \in DOMAIN published, a \in DOMAIN plan[p].packages
      PROVE  published[a] = plan[p].packages[a]
  <2>1. a \notin Metas
    BY <1>3, OneRecipe DEF RepositoryInv
  <2>2. PICK q \in DOMAIN Catalog : a \in DOMAIN plan[q].packages /\ published[a] = plan[q].packages[a]
    BY <2>1 DEF RepositoryInv, PublishedInv, FromPlan
  <2> QED
    BY <1>3, <2>2, OneRecipe DEF RepositoryInv
<1> QED
  BY <1>1, <1>2, <1>3 DEF Produce, userVars

\* The meta-packages are all that BuildMeta touches.
LEMMA MetaAdds ==
    ASSUME BuildMeta
    PROVE  /\ DOMAIN published \subseteq DOMAIN published'
           /\ DOMAIN published' \subseteq DOMAIN published \cup Metas
           /\ \A a \in DOMAIN published \ Metas : published'[a] = published[a]
           /\ \A a \in DOMAIN published' \cap Metas :
                 \/ a \in DOMAIN published /\ published'[a] = published[a]
                 \/ DOMAIN published'[a] = {"requires", "pre"} /\ published'[a].pre = {}
<1>1. PICK names \in SUBSET Metas :
         published' = [a \in DOMAIN published \cup names |->
                         IF a \in names
                         THEN MetaPackage(IF a = FlavorMeta THEN MetaRequires ELSE Examples)
                         ELSE published[a]]
  <2> DEFINE names == {FlavorMeta} \cup IF kind = "rpm" /\ Examples # {} THEN {ExamplesMeta} ELSE {}
             new == [n \in names |-> MetaPackage(IF n = FlavorMeta THEN MetaRequires ELSE Examples)]
  <2>1. Publish(new)
    BY Zenon DEF BuildMeta
  <2>2. names \in SUBSET Metas
    BY DEF Metas
  <2> HIDE DEF names
  <2>3. published' = [a \in DOMAIN published \cup names |->
                        IF a \in names
                        THEN MetaPackage(IF a = FlavorMeta THEN MetaRequires ELSE Examples)
                        ELSE published[a]]
    BY <2>1 DEF Publish
  <2> QED
    BY <2>2, <2>3
<1>2. \A S : MetaPackage(S).pre = {} /\ DOMAIN MetaPackage(S) = {"requires", "pre"}
  BY DEF MetaPackage
<1> QED
  BY <1>1, <1>2

LEMMA UnpackStep ==
    ASSUME Unpack
    PROVE  LET ready == {a \in txn \ user : StackNames(published[a].pre) \subseteq user}
           IN  /\ UNCHANGED <<setup, published, host, stopped, goal, txn>>
               /\ phase = "resolving" /\ Missing = {}
               /\ user' = user \cup ready
               /\ lib' = lib \/ lib' = "link" \/ lib' = "dir"
               /\ phase' = IF txn \subseteq user' THEN "idle" ELSE phase
<1> DEFINE ready == {a \in txn \ user : StackNames(published[a].pre) \subseteq user}
<1>1. /\ UNCHANGED <<setup, published, host, stopped, goal, txn>>
      /\ phase = "resolving" /\ Missing = {}
      /\ user' = user \cup ready
      /\ phase' = IF txn \subseteq user' THEN "idle" ELSE phase
  BY Zenon DEF Unpack
<1>2. \/ lib' = lib
      \/ \E first \in ready \ Metas : lib' = IF first = Environment THEN "link" ELSE "dir"
  BY Zenon DEF Unpack
<1> QED
  BY <1>1, <1>2

LEMMA RepositoryInit == Init => RepositoryInv
<1> SUFFICES ASSUME Init PROVE RepositoryInv
  OBVIOUS
<1>1. PlanInv
  BY PlanInit
<1>2. DOMAIN published = {}
  BY DEF Init
<1> QED
  BY <1>1, <1>2 DEF Init, RepositoryInv, PublishedInv, TypeOK, PlanInv

LEMMA BuildKeepsRepository ==
    ASSUME RepositoryInv, NEW p \in DOMAIN Catalog, BuildNext(p) \/ BuildExtra(p)
    PROVE  RepositoryInv'
<1>1. PlanInv'
  BY BuildAdds, PlanStays DEF RepositoryInv
<1>2. plan' = plan
  BY BuildAdds DEF setup
<1>3. PublishedInv'
  <2>1. ASSUME NEW a \in DOMAIN published' \ Metas PROVE FromPlan(a)'
    <3>1. CASE a \in DOMAIN plan[p].packages
      BY <1>2, <3>1, BuildAdds DEF FromPlan
    <3>2. CASE a \notin DOMAIN plan[p].packages
      <4>1. a \in DOMAIN published /\ FromPlan(a)
        BY <2>1, <3>2, BuildAdds DEF RepositoryInv, PublishedInv
      <4>2. PICK q \in DOMAIN Catalog :
               /\ plan[q].starts
               /\ a \in DOMAIN plan[q].packages
               /\ DOMAIN plan[q].packages \subseteq DOMAIN published
               /\ published[a] = plan[q].packages[a]
        BY <4>1 DEF FromPlan
      <4>3. DOMAIN plan'[q].packages \subseteq DOMAIN published' /\ published'[a] = published[a]
        BY <1>2, <4>1, <4>2, BuildAdds
      <4> QED
        BY <1>2, <4>2, <4>3 DEF FromPlan
    <3> QED
      BY <3>1, <3>2
  <2>2. ASSUME NEW a \in DOMAIN published' \cap Metas
        PROVE  DOMAIN published'[a] = {"requires", "pre"} /\ published'[a].pre = {}
    <3>1. a \in DOMAIN published
      BY <2>2, BuildAdds, OneRecipe DEF RepositoryInv
    <3> QED
      BY <2>2, <3>1, BuildAdds DEF RepositoryInv, PublishedInv
  <2> QED
    BY <2>1, <2>2 DEF PublishedInv
<1>4. TypeOK'
  <2>1. ASSUME NEW a \in DOMAIN published'
        PROVE  published'[a].pre \in SUBSET Stack({Environment})
               /\ DOMAIN published'[a] = {"requires", "pre"}
    <3>1. CASE a \in DOMAIN plan[p].packages
      BY <3>1, BuildAdds, PackageShape DEF RepositoryInv
    <3>2. CASE a \notin DOMAIN plan[p].packages
      BY <2>1, <3>2, BuildAdds DEF RepositoryInv, TypeOK
    <3> QED
      BY <3>1, <3>2
  <2>2. /\ flavor' \in Flavors /\ extras' \in ExtraSets /\ kind' \in Builders
        /\ DOMAIN plan' = DOMAIN Catalog
    BY <1>1 DEF PlanInv
  <2> QED
    BY <2>1, <2>2, BuildAdds DEF RepositoryInv, TypeOK
<1> QED
  BY <1>1, <1>3, <1>4 DEF RepositoryInv

LEMMA MetaKeepsRepository == RepositoryInv /\ BuildMeta => RepositoryInv'
<1> SUFFICES ASSUME RepositoryInv, BuildMeta PROVE RepositoryInv'
  OBVIOUS
<1>1. /\ UNCHANGED <<setup, host, stopped, goal, txn, user, lib>> /\ phase' = "idle"
  BY DEF BuildMeta
<1>2. PlanInv' /\ plan' = plan
  BY <1>1, PlanStays DEF RepositoryInv, setup
<1>3. PublishedInv'
  <2>1. ASSUME NEW a \in DOMAIN published' \ Metas PROVE FromPlan(a)'
    <3>1. a \in DOMAIN published /\ published'[a] = published[a]
      BY <2>1, MetaAdds
    <3>2. FromPlan(a)
      BY <2>1, <3>1 DEF RepositoryInv, PublishedInv
    <3> QED
      BY <1>2, <3>1, <3>2, MetaAdds DEF FromPlan
  <2> QED
    BY <2>1, MetaAdds DEF RepositoryInv, PublishedInv
<1>4. TypeOK'
  <2>1. ASSUME NEW a \in DOMAIN published'
        PROVE  published'[a].pre \in SUBSET Stack({Environment})
               /\ DOMAIN published'[a] = {"requires", "pre"}
    BY <2>1, MetaAdds DEF RepositoryInv, TypeOK
  <2> QED
    BY <1>1, <1>2, <2>1, MetaAdds DEF RepositoryInv, TypeOK, PlanInv
<1> QED
  BY <1>2, <1>3, <1>4 DEF RepositoryInv

LEMMA InstallKeepsRepository ==
    ASSUME RepositoryInv, NEW p \in DOMAIN Catalog, Install(p)
    PROVE  host' \subseteq DOMAIN published
<1>1. p \in DOMAIN published /\ host' = host \cup DOMAIN plan[p].packages
  BY DEF Install
<1>2. p \notin Metas /\ p \in DOMAIN plan[p].packages
  BY OwnName, OneRecipe DEF RepositoryInv
<1>3. PICK q \in DOMAIN Catalog : p \in DOMAIN plan[q].packages
                                  /\ DOMAIN plan[q].packages \subseteq DOMAIN published
  BY <1>1, <1>2 DEF RepositoryInv, PublishedInv, FromPlan
<1>4. q = p
  BY <1>2, <1>3, OneRecipe DEF RepositoryInv
<1> QED
  BY <1>1, <1>3, <1>4 DEF RepositoryInv, TypeOK

LEMMA RepositoryStep == RepositoryInv /\ [Next]_vars => RepositoryInv'
<1> SUFFICES ASSUME RepositoryInv, [Next]_vars PROVE RepositoryInv'
  OBVIOUS
<1>1. ASSUME UNCHANGED <<setup, published>>,
             host' \subseteq DOMAIN published, stopped' \subseteq DOMAIN Catalog,
             phase' \in {"building", "idle", "resolving", "refused"},
             goal' \in Goals \cup {FlavorMeta},
             txn' \subseteq DOMAIN published, user' \subseteq DOMAIN published,
             lib' \in {"none", "link", "dir"}
      PROVE  RepositoryInv'
  <2>1. PlanInv' /\ plan' = plan
    BY <1>1, PlanStays DEF RepositoryInv, setup
  <2>2. PublishedInv'
    BY <1>1, <2>1 DEF RepositoryInv, PublishedInv, FromPlan
  <2>3. TypeOK'
    BY <1>1, <2>1 DEF RepositoryInv, PlanInv, TypeOK
  <2> QED
    BY <2>1, <2>2, <2>3 DEF RepositoryInv
<1>2. ASSUME NEW p \in DOMAIN Catalog, StopNext(p) \/ Install(p)
      PROVE  RepositoryInv'
  <2>1. CASE StopNext(p)
    BY <1>1, <2>1 DEF StopNext, userVars, RepositoryInv, TypeOK
  <2>2. CASE Install(p)
    BY <1>1, <2>2, InstallKeepsRepository DEF Install, userVars, RepositoryInv, TypeOK
  <2> QED
    BY <1>2, <2>1, <2>2
<1>3. ASSUME NEW g \in Goals, Request(g)
      PROVE  RepositoryInv'
  BY <1>1, <1>3 DEF Request, RepositoryInv, TypeOK
<1>4. ASSUME Resolve \/ Refuse \/ UNCHANGED vars
      PROVE  RepositoryInv'
  BY <1>1, <1>4 DEF Resolve, Refuse, vars, RepositoryInv, TypeOK
<1>5. ASSUME Unpack
      PROVE  RepositoryInv'
  BY <1>1, <1>5, UnpackStep DEF RepositoryInv, TypeOK
<1> QED
  BY <1>2, <1>3, <1>4, <1>5, BuildKeepsRepository, MetaKeepsRepository DEF Next

\* Host and user have published packages only, and no name of a requirement
\* before unpacking is another than environment, for every catalog.
THEOREM TypeCorrect == Spec => []TypeOK
<1>1. RepositoryInv => TypeOK
  BY DEF RepositoryInv
<1> QED
  BY <1>1, RepositoryInit, RepositoryStep, PTL DEF Spec

-----------------------------------------------------------------------------
(***************************************************************************)
(* Between two transactions, what is installed is closed under what it     *)
(* requires.  A transaction that has begun to unpack has resolved all its  *)
(* requirements, so it is not refused any more.                            *)
(***************************************************************************)
Needs(a) == StackNames(published[a].requires \cup published[a].pre)

UserIsClosed == \A a \in user : Needs(a) \subseteq user

ClosedInv ==
    /\ phase = "building" => user = {} /\ txn = {}
    /\ \/ UserIsClosed
       \/ /\ phase = "resolving" /\ Missing = {}
          /\ \A a \in user : Needs(a) \subseteq user \cup txn

LEMMA MissingIsNeeds ==
    /\ \A n : n \in Missing <=> n \notin txn \cup user /\ \E a \in txn : n \in Needs(a)
    /\ \A n : n \in Missing' <=> n \notin txn' \cup user' /\ \E a \in txn' : n \in Needs(a)'
<1>1. \A n : n \in Missing <=> n \notin txn \cup user /\ \E a \in txn : n \in Needs(a)
  BY Zenon DEF Missing, Needs
<1>2. \A n : n \in Missing' <=> n \notin txn' \cup user' /\ \E a \in txn' : n \in Needs(a)'
  BY Zenon DEF Missing, Needs
<1> QED
  BY <1>1, <1>2

LEMMA ClosedInit == Init => ClosedInv
BY DEF Init, ClosedInv, UserIsClosed

\* What a user's machine sees of the repository does not change under it.
LEMMA SameNeedsStayClosed ==
    ASSUME RepositoryInv, ClosedInv, UNCHANGED <<phase, txn, user>>,
           \A a \in DOMAIN published : published'[a] = published[a]
    PROVE  ClosedInv'
<1>1. txn \subseteq DOMAIN published /\ user \subseteq DOMAIN published
  BY DEF RepositoryInv, TypeOK
<1>2. \A a \in txn \cup user : Needs(a)' = Needs(a)
  BY <1>1 DEF Needs
<1>3. Missing' = {} <=> Missing = {}
  BY <1>2, MissingIsNeeds
<1> QED
  BY <1>2, <1>3 DEF ClosedInv, UserIsClosed

LEMMA UnpackKeepsClosed == RepositoryInv /\ ClosedInv /\ Unpack => ClosedInv'
<1> SUFFICES ASSUME ClosedInv, Unpack PROVE ClosedInv'
  OBVIOUS
<1>1. PICK ready \in SUBSET txn :
         /\ UNCHANGED <<published, txn>>
         /\ phase = "resolving" /\ Missing = {}
         /\ user' = user \cup ready
         /\ phase' = IF txn \subseteq user' THEN "idle" ELSE phase
  BY UnpackStep
<1>2. \A a : Needs(a)' = Needs(a)
  BY <1>1 DEF Needs
<1>3. \A a \in txn : Needs(a) \subseteq txn \cup user
  BY <1>1, MissingIsNeeds
<1>4. \A a \in user : Needs(a) \subseteq txn \cup user
  BY DEF ClosedInv, UserIsClosed
<1>5. \A a \in user' : Needs(a)' \subseteq txn' \cup user'
  BY <1>1, <1>2, <1>3, <1>4
<1>6. CASE txn \subseteq user'
  BY <1>1, <1>5, <1>6 DEF ClosedInv, UserIsClosed
<1>7. CASE ~(txn \subseteq user')
  <2>1. Missing' = {}
    BY <1>1, <1>2, <1>3, MissingIsNeeds
  <2> QED
    BY <1>1, <1>5, <1>7, <2>1 DEF ClosedInv
<1> QED
  BY <1>6, <1>7

LEMMA ClosedStep == RepositoryInv /\ ClosedInv /\ [Next]_vars => ClosedInv'
<1> SUFFICES ASSUME RepositoryInv, ClosedInv, [Next]_vars PROVE ClosedInv'
  OBVIOUS
<1>1. ASSUME NEW p \in DOMAIN Catalog, BuildNext(p) \/ BuildExtra(p) PROVE ClosedInv'
  BY <1>1, BuildAdds, SameNeedsStayClosed
<1>2. ASSUME NEW p \in DOMAIN Catalog, StopNext(p) \/ Install(p) PROVE ClosedInv'
  BY <1>2, SameNeedsStayClosed DEF StopNext, Install, userVars
<1>3. CASE BuildMeta
  <2>1. phase = "building" /\ phase' = "idle" /\ user' = user
    BY <1>3 DEF BuildMeta
  <2> QED
    BY <2>1 DEF ClosedInv, UserIsClosed
<1>4. ASSUME UNCHANGED <<published, user>>, UserIsClosed, phase' # "building"
      PROVE  ClosedInv'
  BY <1>4 DEF ClosedInv, UserIsClosed, Needs
<1>5. ASSUME NEW g \in Goals, Request(g) PROVE ClosedInv'
  <2>1. UserIsClosed
    BY <1>5 DEF Request, ClosedInv
  <2> QED
    BY <1>4, <1>5, <2>1 DEF Request
<1>6. CASE Resolve \/ Refuse
  <2>1. UserIsClosed
    BY <1>6 DEF Resolve, Refuse, ClosedInv
  <2> QED
    BY <1>4, <1>6, <2>1 DEF Resolve, Refuse
<1>7. CASE UNCHANGED vars
  BY <1>7, SameNeedsStayClosed DEF vars
<1> QED
  BY <1>1, <1>2, <1>3, <1>5, <1>6, <1>7, UnpackKeepsClosed DEF Next

LEMMA ClosedAlways == Spec => [](RepositoryInv /\ ClosedInv)
BY RepositoryInit, RepositoryStep, ClosedInit, ClosedStep, PTL DEF Spec

-----------------------------------------------------------------------------
(***************************************************************************)
(* What a builder links a package with, the package declares: the math     *)
(* libraries and the OpenMP runtime of the flavor come with the key        *)
(* `math', MPI with the key `mpi', and the rest the recipe names itself.   *)
(***************************************************************************)
LinksAreRequired ==
    \A f \in Flavors, k \in Builders, p \in DOMAIN Catalog :
        Configurable(k, f, Catalog[p]) =>
            \A l \in Settings(k, f, Catalog[p]).libs \cap DOMAIN StackLibraries :
                StackLibraries[l] \in {p} \cup StackNames(BinaryPackages(f, k, p)[p].requires)
                                           \cup LeftOut(f, p, Catalog[p])

\* What a recipe lists, whether the builders look there or not.
Accounted(f, p, r) == Declared(f, p, r) \cup LeftOut(f, p, r)

\* What RecipesDeclareTheirLinks says of one recipe and one flavor.
DeclaresItsLinks(f, p, r) ==
    /\ MathOn(r) => f.linalg \in {"mkl", "openblas", "reference", "lapack"}
    /\ \A x \in {"mkl_gf_", "mkl_intel_"} : x \o f.interface \notin DOMAIN StackLibraries
    /\ \A a \in OwnArgs(f, r) : a[1] = "macro" => a[2] \in Placeholders
    /\ r.type = "custom_makefile" => MathOn(r) /\ (f.linalg = "mkl" => r.math = "parallel")
    /\ \A l \in Provided(f, NamedLibs(f, r)) \cap DOMAIN StackLibraries :
          StackLibraries[l] \in Declared(f, p, r) \cup LeftOut(f, p, r)

Answered(f, l) == f.linalg = "openblas" /\ l \in {"blas", "lapack"}

IsDeclared(f, p, r, l) ==
    /\ Answered(f, l) => "openblas" \in Accounted(f, p, r)
    /\ l \in DOMAIN StackLibraries /\ ~Answered(f, l) => StackLibraries[l] \in Accounted(f, p, r)

LEMMA StackLibrariesByName ==
    /\ DOMAIN StackLibraries = {"openblas", "blas", "lapack", "scalapack", "mpi"}
    /\ StackLibraries["openblas"] = "openblas" /\ StackLibraries["blas"] = "blas"
    /\ StackLibraries["lapack"] = "lapack" /\ StackLibraries["scalapack"] = "scalapack"
    /\ StackLibraries["mpi"] = "openmpi"
BY DEF StackLibraries

LEMMA OtherLibsAreDeclared ==
    ASSUME NEW f, NEW p, NEW r, NEW l, l \notin DOMAIN StackLibraries
    PROVE  IsDeclared(f, p, r, l)
BY StackLibrariesByName DEF IsDeclared, Answered

LEMMA MklIsNoStackLibrary ==
    ASSUME NEW f, NEW p, NEW r, NEW v, v.interface = f.interface, DeclaresItsLinks(f, p, r),
           NEW b, NEW l \in MklLine(v, b)
    PROVE  l \notin DOMAIN StackLibraries
<1>1. InterfaceLib(v) \notin DOMAIN StackLibraries
  <2>1. InterfaceLib(v) \in {"mkl_gf_" \o f.interface, "mkl_intel_" \o f.interface}
    BY Zenon DEF InterfaceLib
  <2> QED
    BY <2>1 DEF DeclaresItsLinks
<1>2. /\ ThreadingLayer(v) \in {"mkl_sequential", "mkl_intel_thread", "mkl_gnu_thread"}
      /\ OpenmpRuntime(v) \in {"iomp5", "omp", "gomp"}
  BY DEF ThreadingLayer, OpenmpRuntime, RuntimeOf
<1>3. l \in {InterfaceLib(v), ThreadingLayer(v), "mkl_core", OpenmpRuntime(v)}
  BY DEF MklLine
<1> QED
  BY <1>1, <1>2, <1>3, StackLibrariesByName

LEMMA ScalapackIsDeclared ==
    ASSUME NEW f, NEW p, NEW r, NEW l \in ScalapackOf(r)
    PROVE  IsDeclared(f, p, r, l)
<1>1. l = "scalapack" /\ r.math = "parallel"
  BY DEF ScalapackOf
<1>2. "scalapack" \in Accounted(f, p, r)
  BY <1>1 DEF Declared, Accounted
<1> QED
  BY <1>1, <1>2, StackLibrariesByName DEF IsDeclared, Answered

LEMMA BlasIsDeclared ==
    ASSUME NEW f, NEW p, NEW r, MathOn(r), DeclaresItsLinks(f, p, r), f.linalg # "mkl",
           NEW l \in {"openblas", "blas", "lapack"}, l = "openblas" => f.linalg = "openblas"
    PROVE  IsDeclared(f, p, r, l)
<1>1. CASE f.linalg = "openblas"
  <2>1. "openblas" \in Accounted(f, p, r)
    BY <1>1 DEF Declared, Accounted
  <2> QED
    BY <1>1, <2>1, StackLibrariesByName DEF IsDeclared, Answered
<1>2. CASE f.linalg \in {"reference", "lapack"}
  <2>1. {"blas", "lapack"} \subseteq Accounted(f, p, r)
    BY <1>2 DEF Declared, Accounted
  <2> QED
    BY <1>2, <2>1, StackLibrariesByName DEF IsDeclared, Answered
<1> QED
  BY <1>1, <1>2 DEF DeclaresItsLinks

\* The line of the math libraries, from whichever view of the flavor.
LEMMA MathIsDeclared ==
    ASSUME NEW f, NEW p, NEW r, NEW v, v.interface = f.interface, v.linalg = f.linalg,
           DeclaresItsLinks(f, p, r), NEW l \in MathLdflags(v, r)
    PROVE  IsDeclared(f, p, r, l)
<1>1. MathOn(r) /\ l \in LinkLine(v, r)
  BY DEF MathLdflags
<1>2. CASE l \in ScalapackOf(r)
  BY <1>2, ScalapackIsDeclared
<1>3. CASE f.linalg = "mkl" /\ l \in MklLine(v, TRUE)
  BY <1>3, MklIsNoStackLibrary, OtherLibsAreDeclared
<1>4. CASE l \in RuntimeIfUsed(v, r)
  <2>1. l \in {"iomp5", "omp", "gomp"}
    BY <1>4 DEF RuntimeIfUsed, OpenmpRuntime, RuntimeOf
  <2> QED
    BY <2>1, StackLibrariesByName, OtherLibsAreDeclared
<1>5. CASE f.linalg = "openblas" /\ l = "openblas"
  BY <1>1, <1>5, BlasIsDeclared
<1>6. CASE f.linalg \in {"reference", "lapack"} /\ l \in {"lapack", "blas"}
  BY <1>1, <1>6, BlasIsDeclared
<1>7. f.linalg \in {"mkl", "openblas", "reference", "lapack"}
  BY <1>1 DEF DeclaresItsLinks
<1>8. LinkLine(v, r) = ScalapackOf(r) \cup
         CASE v.linalg = "mkl"        -> MklLine(v, TRUE)
           [] v.linalg = "accelerate" -> {"Accelerate"} \cup RuntimeIfUsed(v, r)
           [] v.linalg = "openblas"   -> {"openblas"} \cup RuntimeIfUsed(v, r)
           [] OTHER                   -> {"lapack", "blas"} \cup RuntimeIfUsed(v, r)
  BY DEF LinkLine
<1> QED
  BY <1>1, <1>2, <1>3, <1>4, <1>5, <1>6, <1>7, <1>8

\* The recipe's own arguments name what it declares, blas and lapack perhaps by
\* the name of openblas.
LEMMA NamedIsDeclared ==
    ASSUME NEW f, NEW p, NEW r, DeclaresItsLinks(f, p, r), NEW l \in NamedLibs(f, r)
    PROVE  IsDeclared(f, p, r, l)
<1> DEFINE N == NamedLibs(f, r)
<1> HIDE DEF N
<1>1. \A n \in Provided(f, N) \cap DOMAIN StackLibraries : StackLibraries[n] \in Accounted(f, p, r)
  BY DEF DeclaresItsLinks, Accounted, N
<1>2. l \in N
  BY DEF N
<1>3. CASE Answered(f, l)
  <2>1. "openblas" \in Provided(f, N)
    BY <1>2, <1>3 DEF Answered, Provided
  <2> QED
    BY <1>1, <1>3, <2>1, StackLibrariesByName DEF IsDeclared
<1>4. CASE ~Answered(f, l)
  <2>1. l \in Provided(f, N)
    BY <1>2, <1>4 DEF Answered, Provided
  <2> QED
    BY <1>1, <1>4, <2>1 DEF IsDeclared
<1> QED
  BY <1>3, <1>4

\* What is provided for libraries that are declared is declared.
LEMMA ProvidedIsDeclared ==
    ASSUME NEW f, NEW p, NEW r, NEW L, \A l \in L : IsDeclared(f, p, r, l)
    PROVE  \A n \in Provided(f, L) \cap DOMAIN StackLibraries :
              StackLibraries[n] \in Accounted(f, p, r)
<1> SUFFICES ASSUME NEW n \in Provided(f, L), n \in DOMAIN StackLibraries
             PROVE  StackLibraries[n] \in Accounted(f, p, r)
  OBVIOUS
<1>1. \/ n \in L /\ ~Answered(f, n)
      \/ n = "openblas" /\ \E l \in L : Answered(f, l)
  BY DEF Provided, Answered
<1>2. CASE n \in L /\ ~Answered(f, n)
  BY <1>2 DEF IsDeclared
<1>3. CASE n = "openblas" /\ \E l \in L : Answered(f, l)
  BY <1>3, StackLibrariesByName DEF IsDeclared
<1> QED
  BY <1>1, <1>2, <1>3

\* The libraries among a builder's arguments are the recipe's own or MKL.
LEMMA BuildersOwnArgs ==
    /\ \A x : \A a \in Flag(x) : a[1] = "flag"
    /\ \A c : \A a \in CompilerArgs(c) : a[1] \in {"cc", "cxx", "fc"}
BY DEF Flag, CompilerArgs

LEMMA ViewKeeps ==
    ASSUME NEW f, NEW r, FlavorFields \subseteq DOMAIN f
    PROVE  /\ MathFlavor(f, r).interface = f.interface /\ MathFlavor(f, r).linalg = f.linalg
           /\ RecipeArgs(MathFlavor(f, r), r) = RecipeArgs(f, r)
<1> DEFINE v == MathFlavor(f, r)
<1>1. /\ v.interface = f.interface /\ v.linalg = f.linalg
      /\ v.name = f.name /\ v.inherits = f.inherits /\ v.parts = f.parts
  BY DEF MathFlavor, FlavorFields
<1> HIDE DEF v
<1>2. ResolveKey(v, r.flavor_args) = ResolveKey(f, r.flavor_args)
  BY <1>1 DEF ResolveKey, FlavorNames
<1>3. RecipeArgs(v, r) = RecipeArgs(f, r)
  BY <1>2, Zenon DEF RecipeArgs
<1> QED
  BY <1>1, <1>3 DEF v

Libraries == {"lib", "macro"}

LEMMA CmakeLibraries ==
    ASSUME NEW v, NEW r, NEW a \in CmakeArgs(v, r), a[1] \in Libraries
    PROVE  a \in RecipeArgs(v, r) \cup StandardLibraries(v, r)
<1> DEFINE C == CompilerArgs(BuildCompilers(v, r))
           F == Flag("prefix") \cup IF r.defaults.shared THEN Flag("BUILD_SHARED_LIBS=ON")
                                                         ELSE Flag("BUILD_SHARED_LIBS=OFF")
<1>1. CmakeArgs(v, r) = F \cup C \cup StandardLibraries(v, r) \cup RecipeArgs(v, r)
  BY DEF CmakeArgs
<1>2. a \notin C /\ a \notin F
  BY BuildersOwnArgs DEF Libraries
<1> HIDE DEF C, F
<1> QED
  BY <1>1, <1>2

LEMMA RpmLibraries ==
    ASSUME NEW f, NEW r, FlavorFields \subseteq DOMAIN f,
           NEW a \in RpmArgs(f, r), a[1] \in Libraries
    PROVE  \/ a \in OwnArgs(f, r)
           \/ r.type = "cmake" /\ a \in StandardLibraries(MathFlavor(f, r), r)
<1>1. a \notin Flag("prefix") /\ a \notin CompilerArgs(RpmCompilers(f, r))
      /\ a \notin Flag("--enable-shared") /\ a \notin Flag("--host") /\ a \notin Flag("--target")
  BY BuildersOwnArgs DEF Libraries
<1>2. CASE r.type = "autotools"
  BY <1>1, <1>2 DEF RpmArgs, RpmAutotoolsArgs, OwnArgs
<1>3. CASE r.type = "cmake"
  BY <1>3, CmakeLibraries, ViewKeeps DEF RpmArgs, OwnArgs
<1>4. CASE r.type \in {"custom", "meson"}
  BY <1>1, <1>4 DEF RpmArgs, RpmCustomArgs, OwnArgs
<1> QED
  BY <1>2, <1>3, <1>4 DEF RpmArgs

LEMMA UnixLibraries ==
    ASSUME NEW f, NEW r, NEW a \in UnixArgs(f, r), a[1] \in Libraries
    PROVE  \/ a \in OwnArgs(f, r)
           \/ r.type = "cmake" /\ a \in StandardLibraries(f, r)
<1>1. a \notin Flag("prefix") /\ a \notin CompilerArgs(BuildCompilers(f, r))
      /\ a \notin Flag("--enable-shared") /\ a \notin Flag("--host") /\ a \notin Flag("--target")
  BY BuildersOwnArgs DEF Libraries
<1>2. CASE r.type = "autotools"
  BY <1>1, <1>2 DEF UnixArgs, ConfigureArgs, OwnArgs
<1>3. CASE r.type = "cmake"
  BY <1>3, CmakeLibraries DEF UnixArgs, OwnArgs
<1>4. CASE r.type \in {"custom", "meson"}
  BY <1>1, <1>4 DEF UnixArgs, UnixCustomArgs, UnixMesonArgs, OwnArgs
<1> QED
  BY <1>2, <1>3, <1>4 DEF UnixArgs

LEMMA ArgLibsAreDeclared ==
    ASSUME NEW f, NEW p, NEW r, NEW v, DeclaresItsLinks(f, p, r),
           v.interface = f.interface, v.linalg = f.linalg,
           NEW A, \A a \in A : a[1] \in Libraries => a \in OwnArgs(f, r) \cup StandardLibraries(v, r),
           NEW ldflags, ldflags \subseteq MathLdflags(v, r),
           NEW l \in LibsOf(A, Expansion(v, r, ldflags))
    PROVE  IsDeclared(f, p, r, l)
<1> DEFINE E == Expansion(v, r, ldflags)
<1>1. PICK a \in A : \/ a[1] = "lib" /\ l = a[2]
                     \/ a[1] = "macro" /\ l \in E[a[2]]
  BY LibsOfArgs
<1>2. a \in OwnArgs(f, r) \/ a \in StandardLibraries(v, r)
  BY <1>1 DEF Libraries
<1>3. CASE a \in StandardLibraries(v, r)
  <2>1. a[1] = "lib" /\ a[2] \in MklLine(v, ~r.openmp)
    BY <1>3 DEF StandardLibraries
  <2>2. l \in MklLine(v, ~r.openmp)
    BY <1>1, <2>1
  <2> QED
    BY <2>2, MklIsNoStackLibrary, OtherLibsAreDeclared
<1>4. CASE a \in OwnArgs(f, r) /\ a[1] = "lib" /\ l = a[2]
  BY <1>4, NamedIsDeclared DEF NamedLibs
<1>5. CASE a \in OwnArgs(f, r) /\ a[1] = "macro" /\ l \in E[a[2]]
  <2>1. a[2] \in Placeholders
    BY <1>5 DEF DeclaresItsLinks
  <2>2. /\ E["math_ldflags"] = MathLdflags(v, r) /\ E["ldflags"] = ldflags
        /\ E["mkl_linker_flags"] = MklLine(v, TRUE) /\ E["mkl_mpi_linker_flags"] = MklMpiLine(v)
    BY DEF Expansion
  <2> HIDE DEF E
  <2>3. CASE l \in MathLdflags(v, r)
    BY <2>3, MathIsDeclared
  <2>4. CASE l \in MklLine(v, TRUE)
    BY <2>4, MklIsNoStackLibrary, OtherLibsAreDeclared
  <2>5. CASE a[2] = "mkl_mpi_linker_flags" /\ l = "scalapack"
    BY <1>5, <2>5, NamedIsDeclared DEF NamedLibs
  <2> QED
    BY <1>5, <2>1, <2>2, <2>3, <2>4, <2>5 DEF Placeholders, MklMpiLine
<1> QED
  BY <1>1, <1>2, <1>3, <1>4, <1>5

LEMMA DriverLibsAreDeclared ==
    ASSUME NEW f, NEW p, NEW r, NEW l \in DriverLibs(f, r)
    PROVE  IsDeclared(f, p, r, l)
<1>1. \A c, platform : RuntimeOf(c, platform) \in {"iomp5", "omp", "gomp"}
  BY DEF RuntimeOf
<1>2. \/ l \in {"iomp5", "omp", "gomp"}
      \/ l = "mpi" /\ r.mpi
  BY <1>1 DEF DriverLibs
<1>3. CASE l \in {"iomp5", "omp", "gomp"}
  BY <1>3, StackLibrariesByName, OtherLibsAreDeclared
<1>4. CASE l = "mpi" /\ r.mpi
  <2>1. "openmpi" \in Accounted(f, p, r)
    BY <1>4 DEF Declared, Accounted
  <2> QED
    BY <1>4, <2>1, StackLibrariesByName DEF IsDeclared, Answered
<1> QED
  BY <1>2, <1>3, <1>4

LEMMA MakefileLibsAreDeclared ==
    ASSUME NEW f, NEW p, NEW r, NEW v, DeclaresItsLinks(f, p, r), r.type = "custom_makefile",
           v.interface = f.interface, v.linalg = f.linalg,
           NEW l \in RpmMakefileLibs(v, r) \cup UnixMakefileLibs(v, r)
    PROVE  IsDeclared(f, p, r, l)
<1>1. MathOn(r) /\ (f.linalg = "mkl" => r.math = "parallel")
      /\ f.linalg \in {"mkl", "openblas", "reference", "lapack"}
  BY DEF DeclaresItsLinks
<1>2. CASE f.linalg = "mkl"
  <2>1. l \in MklLine(v, TRUE) \/ l \in ScalapackOf(r)
    BY <1>1, <1>2 DEF RpmMakefileLibs, UnixMakefileLibs, MklMpiLine, ScalapackOf
  <2> QED
    BY <2>1, ScalapackIsDeclared, MklIsNoStackLibrary, OtherLibsAreDeclared
<1>3. CASE f.linalg # "mkl"
  <2>1. \/ l \in ScalapackOf(r)
        \/ l \in {"blas", "lapack"}
        \/ l = "openblas" /\ f.linalg = "openblas"
    BY <1>1, <1>3 DEF RpmMakefileLibs, UnixMakefileLibs
  <2> QED
    BY <1>1, <1>3, <2>1, ScalapackIsDeclared, BlasIsDeclared
<1> QED
  BY <1>2, <1>3

LEMMA LibsAreDeclared ==
    ASSUME NEW f, NEW p, NEW r, DeclaresItsLinks(f, p, r), FlavorFields \subseteq DOMAIN f
    PROVE  /\ \A l \in RpmLibs(f, r) : IsDeclared(f, p, r, l)
           /\ \A l \in UnixLibs(f, r) : IsDeclared(f, p, r, l)
<1> DEFINE v == MathFlavor(f, r)
           M == MathLdflags(f, r)
<1>1. v.interface = f.interface /\ v.linalg = f.linalg
  BY ViewKeeps
<1>2. ASSUME NEW l \in RpmLibs(f, r) PROVE IsDeclared(f, p, r, l)
  <2>1. \/ r.type = "custom_makefile" /\ l \in RpmMakefileLibs(v, r)
        \/ l \in DriverLibs(f, r)
        \/ l \in LibsOf(RpmArgs(f, r), Expansion(v, r, {}))
    BY <1>2 DEF RpmLibs
  <2>2. \A a \in RpmArgs(f, r) : a[1] \in Libraries => a \in OwnArgs(f, r) \cup StandardLibraries(v, r)
    BY RpmLibraries
  <2> HIDE DEF v
  <2>3. CASE l \in LibsOf(RpmArgs(f, r), Expansion(v, r, {}))
    BY <1>1, <2>2, <2>3, ArgLibsAreDeclared
  <2>4. CASE r.type = "custom_makefile" /\ l \in RpmMakefileLibs(v, r)
    BY <1>1, <2>4, MakefileLibsAreDeclared
  <2> QED
    BY <2>1, <2>3, <2>4, DriverLibsAreDeclared
<1>3. ASSUME NEW l \in UnixLibs(f, r) PROVE IsDeclared(f, p, r, l)
  <2>1. \/ r.type = "custom_makefile" /\ l \in UnixMakefileLibs(f, r)
        \/ l \in DriverLibs(f, r)
        \/ l \in M
        \/ l \in LibsOf(UnixArgs(f, r), Expansion(f, r, M))
    BY <1>3 DEF UnixLibs
  <2>2. \A a \in UnixArgs(f, r) : a[1] \in Libraries => a \in OwnArgs(f, r) \cup StandardLibraries(f, r)
    BY UnixLibraries
  <2>3. CASE l \in LibsOf(UnixArgs(f, r), Expansion(f, r, M))
    BY <2>2, <2>3, ArgLibsAreDeclared
  <2>4. CASE r.type = "custom_makefile" /\ l \in UnixMakefileLibs(f, r)
    BY <2>4, MakefileLibsAreDeclared
  <2>5. CASE l \in M
    BY <2>5, MathIsDeclared
  <2> QED
    BY <2>1, <2>3, <2>4, <2>5, DriverLibsAreDeclared
<1> QED
  BY <1>2, <1>3

LEMMA DeclaredIsRequired ==
    ASSUME NEW f, NEW p, NEW r, DeclaresItsLinks(f, p, r)
    PROVE  Declared(f, p, r) \subseteq {p} \cup StackNames(RpmRequires(f, p, r).run)
<1> DEFINE R == RpmRequires(f, p, r).run
<1>1. Stack(Listed(f, r.requires) \ BuildOnlyDeps) \subseteq R
  BY Zenon DEF RpmRequires, RpmRuntime
<1>2. RpmMath(f, r) \cup (IF r.mpi THEN Stack({"openmpi"}) ELSE {}) \subseteq R
  BY Zenon DEF RpmRequires
<1> HIDE DEF R
<1>3. ASSUME NEW S, Stack(S) \subseteq R PROVE S \subseteq StackNames(R)
  <2>1. \A n \in S : <<"stack", n>> \in R
    BY <1>3 DEF Stack
  <2>2. \A q \in R : q[1] = "stack" => q[2] \in StackNames(R)
    BY DEF StackNames
  <2>3. \A n \in S : <<"stack", n>>[1] = "stack" /\ <<"stack", n>>[2] = n
    OBVIOUS
  <2> QED
    BY <2>1, <2>2, <2>3
<1>4. r.mpi => "openmpi" \in StackNames(R)
  BY <1>2, <1>3
<1>5. MathOn(r) => f.linalg \in {"mkl", "openblas", "reference", "lapack"}
  BY DEF DeclaresItsLinks
<1>6. r.math = "parallel" => "scalapack" \in StackNames(R)
  BY <1>2, <1>3, <1>5 DEF RpmMath, MathOn
<1>7. MathOn(r) /\ f.linalg = "openblas" => "openblas" \in StackNames(R)
  BY <1>2, <1>3 DEF RpmMath, MathOn
<1>8. MathOn(r) /\ f.linalg \in {"reference", "lapack"} => {"blas", "lapack"} \subseteq StackNames(R)
  BY <1>2, <1>3 DEF RpmMath, MathOn
<1>9. Listed(f, r.requires) \ BuildOnlyDeps \subseteq StackNames(R)
  BY <1>1, <1>3
<1> QED
  BY <1>4, <1>6, <1>7, <1>8, <1>9 DEF Declared, R

\* The main package of either format requires what get_rpm_requires lists.
LEMMA MainPackageRequires ==
    ASSUME NEW f, NEW p \in DOMAIN Catalog, NEW k \in Builders
    PROVE  StackNames(RpmRequires(f, p, Catalog[p]).run)
             \subseteq StackNames(BinaryPackages(f, k, p)[p].requires)
<1> DEFINE r == Catalog[p]
<1>1. p \in {p} \cup Subpackages(f, r)
  OBVIOUS
<1>2. CASE k = "rpm"
  <2>1. BinaryPackages(f, "rpm", p) = RpmPackages(f, p, r)
    BY DEF BinaryPackages
  <2>2. BinaryPackages(f, "rpm", p)[p].requires = RpmRequires(f, p, r).run
    BY <1>1, <2>1 DEF RpmPackages
  <2> QED
    BY <1>2, <2>2
<1>3. CASE k = "deb"
  <2> DEFINE D == DebDepends(f, r, Catalog).run
             T == Translate(D, SystemMap)
  <2>1. BinaryPackages(f, "deb", p) = DebPackages(f, p, r, Catalog, SystemMap)
    BY DEF BinaryPackages
  <2>2. BinaryPackages(f, "deb", p)[p].requires = OwnEnvironment(p) \cup T
    BY <1>1, <2>1 DEF DebPackages
  <2>3. RpmRequires(f, p, r).run = D \cup OwnEnvironment(p)
    BY SameRunRequires
  <2>4. StackNames(D) \subseteq StackNames(T)
    BY DEF Translate, StackNames
  <2> HIDE DEF D, T
  <2>5. \A A, B : StackNames(A \cup B) = StackNames(A) \cup StackNames(B)
    BY DEF StackNames
  <2> QED
    BY <1>3, <2>2, <2>3, <2>4, <2>5
<1> QED
  BY <1>2, <1>3 DEF Builders

LEMMA PackagesRequireTheirLinks ==
    ASSUME RecipesDeclareTheirLinks
    PROVE  LinksAreRequired
<1> SUFFICES ASSUME NEW f \in Flavors, NEW k \in Builders, NEW p \in DOMAIN Catalog,
                    Configurable(k, f, Catalog[p]),
                    NEW l \in Settings(k, f, Catalog[p]).libs \cap DOMAIN StackLibraries
             PROVE  StackLibraries[l] \in {p} \cup StackNames(BinaryPackages(f, k, p)[p].requires)
                                            \cup LeftOut(f, p, Catalog[p])
  BY DEF LinksAreRequired
<1> DEFINE r == Catalog[p]
<1>1. DeclaresItsLinks(f, p, r) /\ FlavorFields \subseteq DOMAIN f
  BY FlavorsAssumption DEF RecipesDeclareTheirLinks, DeclaresItsLinks
<1> HIDE DEF r
<1>2. \/ Settings(k, f, r).libs = Provided(f, RpmLibs(f, r))
      \/ Settings(k, f, r).libs = Provided(f, UnixLibs(f, r))
  BY DEF Settings, RpmSettings, UnixSettings
<1>3. StackLibraries[l] \in Declared(f, p, r) \cup LeftOut(f, p, r)
  BY <1>1, <1>2, LibsAreDeclared, ProvidedIsDeclared DEF r, Accounted
<1> QED
  BY <1>1, <1>3, DeclaredIsRequired, MainPackageRequires DEF r

LEMMA ClosedUserHasLibraries ==
    ASSUME LinksAreRequired, RepositoryInv, ClosedInv
    PROVE  LinkedIsInstalled
<1> SUFFICES ASSUME phase = "idle", NEW p \in user \cap DOMAIN Catalog,
                    NEW l \in plan[p].links \cap DOMAIN StackLibraries
             PROVE  StackLibraries[l] \in user \cup LeftOut(flavor, p, Catalog[p])
  BY DEF LinkedIsInstalled
<1>1. Needs(p) \subseteq user
  BY DEF ClosedInv, UserIsClosed
<1>2. p \in DOMAIN published \ Metas /\ p \in DOMAIN plan[p].packages
  BY OwnName, OneRecipe DEF RepositoryInv, TypeOK
<1>3. PICK q \in DOMAIN Catalog : /\ plan[q].starts
                                  /\ p \in DOMAIN plan[q].packages
                                  /\ published[p] = plan[q].packages[p]
  BY <1>2 DEF RepositoryInv, PublishedInv, FromPlan
<1>4. q = p
  BY <1>2, <1>3, OneRecipe DEF RepositoryInv
<1>5. /\ Configurable(kind, flavor, Catalog[p])
      /\ published[p] = BinaryPackages(flavor, kind, p)[p]
      /\ plan[p].links = Settings(kind, flavor, Catalog[p]).libs
      /\ flavor \in Flavors /\ kind \in Builders
  BY <1>3, <1>4 DEF RepositoryInv, PlanInv
<1>6. StackLibraries[l] \in {p} \cup StackNames(published[p].requires)
                             \cup LeftOut(flavor, p, Catalog[p])
  BY <1>5 DEF LinksAreRequired
<1>7. StackNames(published[p].requires) \subseteq Needs(p)
  BY DEF Needs, StackNames
<1> QED
  BY <1>1, <1>6, <1>7

\* Where recipes list the packages whose libraries they name, no transaction of
\* dnf or apt ends with a shared library of the stack missing that the builders
\* have not skipped with a subpackage named like its recipe: they see to the
\* requirements on math and MPI, whatever users asked for before and was refused,
\* and however transactions are unpacked.
THEOREM LibrariesAreThere ==
    ASSUME RecipesDeclareTheirLinks
    PROVE  Spec => []LinkedIsInstalled
<1>1. RepositoryInv /\ ClosedInv => LinkedIsInstalled
  BY RecipesDeclareTheirLinks, PackagesRequireTheirLinks, ClosedUserHasLibraries
<1> QED
  BY <1>1, ClosedAlways, PTL

-----------------------------------------------------------------------------
(***************************************************************************)
(* One MKL threading layer, one OpenMP runtime, one BLAS: whatever a       *)
(* builder adds to a link line it takes from the flavor, and all of MKL at *)
(* once; and the packages built for a flavor are built by one builder.     *)
(***************************************************************************)

\* What RecipesLeaveMklToBuilders says of one recipe and one flavor.
LeavesMklToBuilders(f, r) ==
    /\ OneFamily(f) /\ DOMAIN f.compilers = DOMAIN Wrappers
    /\ InterfaceLib(f) \in Interfaces
    /\ r.type = "generated" => ~r.openmp
    /\ r.type = "custom_makefile" => f.linalg # "accelerate"
    /\ \A a \in OwnArgs(f, r) :
          /\ a[1] = "lib" =>
                \/ FitsFlavor(f, a[2])
                \/ f.linalg = "mkl" /\ r.type = "cmake" /\ a[2] \in MklLine(f, TRUE)
          /\ a[1] = "macro" =>
                /\ a[2] \in Placeholders
                /\ a[2] \in {"mkl_linker_flags", "mkl_mpi_linker_flags"} => f.linalg = "mkl"

\* A library among those of a package, of which MKL is all or nothing.
Fits(f, libs, l) ==
    \/ FitsFlavor(f, l)
    \/ f.linalg = "mkl" /\ l \in MklLine(f, TRUE) /\ MklLine(f, TRUE) \subseteq libs

LEMMA RuntimeNames ==
    ASSUME NEW f
    PROVE  /\ OpenmpRuntime(f) \in Runtimes /\ ThreadingLayer(f) \in Layers
           /\ MklLine(f, TRUE) \subseteq {InterfaceLib(f), ThreadingLayer(f), "mkl_core", OpenmpRuntime(f)}
           /\ \A b : MklLine(f, b) \subseteq MklLine(f, TRUE)
<1>1. OpenmpRuntime(f) \in Runtimes /\ ThreadingLayer(f) \in Layers
  BY DEF OpenmpRuntime, RuntimeOf, Runtimes, ThreadingLayer, Layers
<1>2. MklLine(f, TRUE) \subseteq {InterfaceLib(f), ThreadingLayer(f), "mkl_core", OpenmpRuntime(f)}
  BY DEF MklLine
<1>3. \A b : MklLine(f, b) \subseteq MklLine(f, TRUE)
  BY DEF MklLine
<1> QED
  BY <1>1, <1>2, <1>3

LEMMA ProvidedAlone ==
    ASSUME NEW f, NEW l
    PROVE  /\ l \notin {"blas", "lapack"} => Provided(f, {l}) = {l}
           /\ f.linalg # "openblas" => Provided(f, {l}) = {l}
           /\ l \in {"blas", "lapack"} /\ f.linalg = "openblas" => Provided(f, {l}) = {"openblas"}
BY DEF Provided

\* The libraries of other groups, and the flavor's own runtime.
LEMMA OthersFit ==
    ASSUME NEW f, NEW l, l \in {"scalapack", "mpi", OpenmpRuntime(f)}
    PROVE  FitsFlavor(f, l)
<1>1. l \in {"scalapack", "mpi"} \cup Runtimes
  BY RuntimeNames
<1>2. l \notin MklParts /\ l \notin BlasLibs /\ l \notin {"blas", "lapack"}
  BY <1>1 DEF MklParts, Layers, Interfaces, Runtimes, BlasLibs
<1>3. l \in Runtimes => l = OpenmpRuntime(f)
  BY <1>1 DEF Runtimes
<1>4. Provided(f, {l}) = {l} /\ {l} \cap BlasLibs = {}
  BY <1>2, ProvidedAlone
<1> QED
  BY <1>2, <1>3, <1>4 DEF FitsFlavor

\* The stack's BLAS under each of the names it is linked by.
LEMMA BlasFits ==
    ASSUME NEW f, f.linalg # "mkl",
           NEW l \in {"openblas", "blas", "lapack", "Accelerate"},
           l = "openblas" => f.linalg = "openblas",
           l = "Accelerate" <=> f.linalg = "accelerate"
    PROVE  FitsFlavor(f, l)
<1>1. l \notin MklParts /\ l \notin Runtimes
  BY DEF MklParts, Layers, Interfaces, Runtimes
<1>2. CASE f.linalg = "openblas"
  <2>1. Provided(f, {l}) = {"openblas"} /\ FlavorBlas(f) = "openblas"
    BY <1>2, ProvidedAlone DEF FlavorBlas
  <2> QED
    BY <1>1, <2>1 DEF FitsFlavor
<1>3. CASE f.linalg = "accelerate"
  <2>1. Provided(f, {l}) = {"Accelerate"} /\ FlavorBlas(f) = "Accelerate"
    BY <1>3, ProvidedAlone DEF FlavorBlas
  <2> QED
    BY <1>1, <2>1 DEF FitsFlavor
<1>4. CASE f.linalg \notin {"openblas", "accelerate"}
  <2>1. Provided(f, {l}) = {l} /\ l \in {"blas", "lapack"} /\ FlavorBlas(f) = "blas"
    BY <1>4, ProvidedAlone DEF FlavorBlas
  <2>2. {l} \cap BlasLibs \subseteq {"blas"}
    BY <2>1 DEF BlasLibs
  <2> QED
    BY <1>1, <2>1, <2>2 DEF FitsFlavor
<1> QED
  BY <1>2, <1>3, <1>4

\* get_math_link_line
LEMMA MathFits ==
    ASSUME NEW f, NEW r, NEW L, MathLdflags(f, r) \subseteq L, NEW l \in MathLdflags(f, r)
    PROVE  Fits(f, L, l)
<1>1. MathLdflags(f, r) = LinkLine(f, r)
  BY DEF MathLdflags
<1>2. LinkLine(f, r) = ScalapackOf(r) \cup
         CASE f.linalg = "mkl"        -> MklLine(f, TRUE)
           [] f.linalg = "accelerate" -> {"Accelerate"} \cup RuntimeIfUsed(f, r)
           [] f.linalg = "openblas"   -> {"openblas"} \cup RuntimeIfUsed(f, r)
           [] OTHER                   -> {"lapack", "blas"} \cup RuntimeIfUsed(f, r)
  BY DEF LinkLine
<1>3. CASE l \in ScalapackOf(r) \cup RuntimeIfUsed(f, r)
  <2>1. l \in {"scalapack", OpenmpRuntime(f)}
    BY <1>3 DEF ScalapackOf, RuntimeIfUsed
  <2> QED
    BY <2>1, OthersFit DEF Fits
<1>4. CASE f.linalg = "mkl" /\ l \in MklLine(f, TRUE)
  BY <1>1, <1>2, <1>4 DEF Fits
<1>5. CASE f.linalg = "accelerate" /\ l = "Accelerate"
  BY <1>5, BlasFits DEF Fits
<1>6. CASE f.linalg = "openblas" /\ l = "openblas"
  BY <1>6, BlasFits DEF Fits
<1>7. CASE f.linalg \notin {"mkl", "accelerate", "openblas"} /\ l \in {"lapack", "blas"}
  BY <1>7, BlasFits DEF Fits
<1> QED
  BY <1>1, <1>2, <1>3, <1>4, <1>5, <1>6, <1>7

\* Arguments with their placeholders expanded; cmake has got all of MKL already.
LEMMA ArgsFit ==
    ASSUME NEW f, NEW r, LeavesMklToBuilders(f, r), NEW L,
           f.linalg = "mkl" /\ r.type = "cmake" => MklLine(f, TRUE) \subseteq L,
           NEW ldflags \in {{}, MathLdflags(f, r)},
           NEW A, LibsOf(A, Expansion(f, r, ldflags)) \subseteq L,
           \A a \in A : a[1] \in Libraries =>
              \/ a \in OwnArgs(f, r)
              \/ r.type = "cmake" /\ a \in StandardLibraries(f, r),
           NEW l \in LibsOf(A, Expansion(f, r, ldflags))
    PROVE  Fits(f, L, l)
<1> DEFINE E == Expansion(f, r, ldflags)
<1>1. PICK a \in A : \/ a[1] = "lib" /\ l = a[2]
                     \/ a[1] = "macro" /\ l \in E[a[2]]
  BY LibsOfArgs
<1>2. \A b \in A : b[1] = "macro" => E[b[2]] \subseteq L
  BY DEF LibsOf
<1>3. CASE r.type = "cmake" /\ a \in StandardLibraries(f, r)
  <2>1. f.linalg = "mkl" /\ a[1] = "lib" /\ a[2] \in MklLine(f, ~r.openmp)
    BY <1>3 DEF StandardLibraries
  <2>2. l \in MklLine(f, TRUE)
    BY <1>1, <2>1, RuntimeNames
  <2> QED
    BY <1>3, <2>1, <2>2 DEF Fits
<1>4. CASE a \in OwnArgs(f, r) /\ a[1] = "lib" /\ l = a[2]
  BY <1>4 DEF LeavesMklToBuilders, Fits
<1>5. CASE a \in OwnArgs(f, r) /\ a[1] = "macro" /\ l \in E[a[2]]
  <2>1. /\ a[2] \in Placeholders
        /\ a[2] \in {"mkl_linker_flags", "mkl_mpi_linker_flags"} => f.linalg = "mkl"
    BY <1>5 DEF LeavesMklToBuilders
  <2>2. /\ E["math_ldflags"] = MathLdflags(f, r) /\ E["ldflags"] = ldflags
        /\ E["mkl_linker_flags"] = MklLine(f, TRUE) /\ E["mkl_mpi_linker_flags"] = MklMpiLine(f)
    BY DEF Expansion
  <2>3. E[a[2]] \subseteq L
    BY <1>2, <1>5
  <2> HIDE DEF E
  <2>4. CASE a[2] \in {"math_ldflags", "ldflags"}
    <3>1. E[a[2]] = MathLdflags(f, r)
      BY <1>5, <2>2, <2>4
    <3> QED
      BY <1>5, <2>3, <3>1, MathFits
  <2>5. CASE a[2] \in {"mkl_linker_flags", "mkl_mpi_linker_flags"}
    <3>1. E[a[2]] \in {MklLine(f, TRUE), {"scalapack"} \cup MklLine(f, TRUE)}
      BY <2>2, <2>5 DEF MklMpiLine
    <3>2. MklLine(f, TRUE) \subseteq L /\ l \in {"scalapack"} \cup MklLine(f, TRUE)
      BY <1>5, <2>3, <3>1
    <3> QED
      BY <2>1, <2>5, <3>2, OthersFit DEF Fits
  <2> QED
    BY <2>1, <2>4, <2>5 DEF Placeholders
<1> QED
  BY <1>1, <1>3, <1>4, <1>5 DEF Libraries

\* compiler_family raises unless all compilers agree.
LEMMA OneCompilerFamily ==
    ASSUME NEW f, DOMAIN f.compilers = DOMAIN Wrappers, CompilerFamily(f) # Unknown,
           NEW role \in DOMAIN Wrappers
    PROVE  Family(f.compilers[role]) = CompilerFamily(f)
<1> DEFINE F(x) == Family(f.compilers[x])
           seen == {F(x) : x \in DOMAIN f.compilers}
<1>1. CompilerFamily(f) = IF Cardinality(seen) = 1 THEN CHOOSE x \in seen : TRUE ELSE Unknown
  BY DEF CompilerFamily
<1>2. DOMAIN Wrappers = {"cc", "cxx", "fc"}
  BY DEF Wrappers
<1> HIDE DEF F
<1>3. seen = {F("cc"), F("cxx"), F("fc")}
  BY <1>2
<1> HIDE DEF seen
<1>4. IsFiniteSet(seen)
  <2>1. IsFiniteSet({F("cc")} \cup {F("cxx")} \cup {F("fc")})
    BY FS_Singleton, FS_Union
  <2>2. seen = {F("cc")} \cup {F("cxx")} \cup {F("fc")}
    BY <1>3
  <2> QED
    BY <2>1, <2>2
<1>5. Cardinality(seen) = 1
  BY <1>1
<1>6. PICK x : seen = {x}
  BY <1>4, <1>5, FS_Singleton
<1>7. CompilerFamily(f) = x
  BY <1>1, <1>5, <1>6
<1>8. F(role) \in seen
  BY <1>2, <1>3
<1> QED
  BY <1>6, <1>7, <1>8 DEF F

LEMMA DriverLibsFit ==
    ASSUME NEW f, NEW r, DOMAIN f.compilers = DOMAIN Wrappers,
           r.openmp => CompilerFamily(f) # Unknown
    PROVE  /\ r.openmp => OpenmpRuntime(f) \in DriverLibs(f, r)
           /\ \A l \in DriverLibs(f, r) : FitsFlavor(f, l)
<1> DEFINE used == {f.compilers.cc, f.compilers.cxx}
                     \cup IF r.fortran THEN {f.compilers.fc} ELSE {}
           R(c) == RuntimeOf(Family(c), f.platform)
<1>1. DriverLibs(f, r) = (IF r.openmp THEN {R(c) : c \in used} ELSE {})
                           \cup (IF r.mpi THEN {"mpi"} ELSE {})
  BY DEF DriverLibs
<1>2. ASSUME r.openmp, NEW c \in used PROVE R(c) = OpenmpRuntime(f)
  <2>1. PICK role \in {"cc", "cxx", "fc"} : c = f.compilers[role]
    BY <1>2
  <2>2. DOMAIN Wrappers = {"cc", "cxx", "fc"}
    BY DEF Wrappers
  <2>3. Family(c) = CompilerFamily(f)
    BY <1>2, <2>1, <2>2, OneCompilerFamily
  <2> QED
    BY <2>3 DEF OpenmpRuntime
<1>3. f.compilers.cc \in used
  OBVIOUS
<1> HIDE DEF used, R
<1>4. r.openmp => OpenmpRuntime(f) \in DriverLibs(f, r)
  BY <1>1, <1>2, <1>3
<1>5. \A l \in DriverLibs(f, r) : l \in {"mpi", OpenmpRuntime(f)}
  BY <1>1, <1>2
<1> QED
  BY <1>4, <1>5, OthersFit

LEMMA MakefileLibsFit ==
    ASSUME NEW f, NEW r, f.linalg # "accelerate", NEW L,
           NEW M \in {RpmMakefileLibs(f, r), UnixMakefileLibs(f, r)}, M \subseteq L, NEW l \in M
    PROVE  Fits(f, L, l)
<1>1. CASE f.linalg = "mkl"
  <2>1. M = {"scalapack"} \cup MklLine(f, TRUE)
    BY <1>1 DEF RpmMakefileLibs, UnixMakefileLibs, MklMpiLine
  <2> QED
    BY <1>1, <2>1, OthersFit DEF Fits
<1>2. CASE f.linalg # "mkl"
  <2>1. \/ l \in {"scalapack", "blas", "lapack"}
        \/ l = "openblas" /\ f.linalg = "openblas"
    BY <1>2 DEF RpmMakefileLibs, UnixMakefileLibs, ScalapackOf
  <2> QED
    BY <1>2, <2>1, OthersFit, BlasFits DEF Fits
<1> QED
  BY <1>1, <1>2

\* CMAKE_<LANG>_STANDARD_LIBRARIES and the compiler driver make MKL complete.
LEMMA CmakeHasMkl ==
    ASSUME NEW f, NEW r, f.linalg = "mkl", r.type = "cmake",
           r.openmp => OpenmpRuntime(f) \in DriverLibs(f, r),
           NEW A, StandardLibraries(f, r) \subseteq A, NEW E, NEW L,
           DriverLibs(f, r) \cup LibsOf(A, E) \subseteq L
    PROVE  MklLine(f, TRUE) \subseteq L
<1>1. \A l \in MklLine(f, ~r.openmp) : <<"lib", l>> \in A
  BY DEF StandardLibraries
<1>2. MklLine(f, ~r.openmp) \subseteq LibsOf(A, E)
  <2> SUFFICES ASSUME NEW l \in MklLine(f, ~r.openmp) PROVE l \in LibsOf(A, E)
    OBVIOUS
  <2>1. <<"lib", l>> \in {a \in A : a[1] = "lib"} /\ <<"lib", l>>[2] = l
    BY <1>1
  <2>2. l \in {a[2] : a \in {x \in A : x[1] = "lib"}}
    BY <2>1
  <2> QED
    BY <2>2, Zenon DEF LibsOf
<1>3. MklLine(f, TRUE) \subseteq MklLine(f, ~r.openmp) \cup IF r.openmp THEN {OpenmpRuntime(f)} ELSE {}
  BY DEF MklLine
<1> QED
  BY <1>2, <1>3

LEMMA LibsFit ==
    ASSUME NEW f, NEW r, FlavorFields \subseteq DOMAIN f, LeavesMklToBuilders(f, r),
           r.openmp => CompilerFamily(f) # Unknown
    PROVE  /\ \A l \in RpmLibs(f, r) : Fits(f, RpmLibs(f, r), l)
           /\ \A l \in UnixLibs(f, r) : Fits(f, UnixLibs(f, r), l)
<1> DEFINE v == MathFlavor(f, r)
           D == DriverLibs(f, r)
           M == MathLdflags(f, r)
<1>1. /\ r.openmp => OpenmpRuntime(f) \in D
      /\ \A l \in D : FitsFlavor(f, l)
  BY DriverLibsFit DEF LeavesMklToBuilders
<1>2. ASSUME NEW l \in RpmLibs(f, r) PROVE Fits(f, RpmLibs(f, r), l)
  <2> DEFINE A == RpmArgs(f, r)
             E == Expansion(f, r, {})
             L == RpmLibs(f, r)
             makefile == IF r.type = "custom_makefile" THEN RpmMakefileLibs(f, r) ELSE {}
  <2>1. SameView(f, v)
    BY MathFlavorOfOneFamily DEF LeavesMklToBuilders
  <2>2. /\ Expansion(v, r, {}) = E /\ RpmMakefileLibs(v, r) = RpmMakefileLibs(f, r)
        /\ StandardLibraries(v, r) = StandardLibraries(f, r)
    <3> HIDE DEF v
    <3>1. /\ MathLdflags(v, r) = MathLdflags(f, r) /\ MklLine(v, TRUE) = MklLine(f, TRUE)
          /\ MklMpiLine(v) = MklMpiLine(f) /\ v.linalg = f.linalg
          /\ MklLine(v, ~r.openmp) = MklLine(f, ~r.openmp)
      BY <2>1, SameMathCommon, TRUE \in BOOLEAN, (~r.openmp) \in BOOLEAN
    <3> QED
      BY <3>1, Zenon DEF Expansion, RpmMakefileLibs, StandardLibraries
  <2>3. L = makefile \cup D \cup LibsOf(A, E)
    BY <2>2 DEF RpmLibs
  <2>4. \A a \in A : a[1] \in Libraries =>
           \/ a \in OwnArgs(f, r)
           \/ r.type = "cmake" /\ a \in StandardLibraries(f, r)
    BY <2>2, RpmLibraries
  <2>5. f.linalg = "mkl" /\ r.type = "cmake" => MklLine(f, TRUE) \subseteq L
    <3> SUFFICES ASSUME f.linalg = "mkl", r.type = "cmake" PROVE MklLine(f, TRUE) \subseteq L
      OBVIOUS
    <3>1. StandardLibraries(f, r) \subseteq A
      BY <2>2 DEF RpmArgs, CmakeArgs
    <3> HIDE DEF A, E, L, D
    <3>2. D \cup LibsOf(A, E) \subseteq L
      BY <2>3
    <3> QED
      BY <1>1, <3>1, <3>2, CmakeHasMkl DEF D
  <2> HIDE DEF A, L
  <2>6. CASE l \in LibsOf(A, E)
    <3>1. LibsOf(A, E) \subseteq L
      BY <2>3
    <3> QED
      BY <2>4, <2>5, <2>6, <3>1, ArgsFit DEF L
  <2>7. CASE l \in makefile
    <3>1. r.type = "custom_makefile" /\ f.linalg # "accelerate" /\ RpmMakefileLibs(f, r) \subseteq L
      BY <2>3, <2>7 DEF LeavesMklToBuilders
    <3> QED
      BY <2>7, <3>1, MakefileLibsFit DEF L
  <2>8. CASE l \in D
    BY <1>1, <2>8 DEF Fits
  <2> QED
    BY <1>2, <2>3, <2>6, <2>7, <2>8 DEF L
<1>3. ASSUME NEW l \in UnixLibs(f, r) PROVE Fits(f, UnixLibs(f, r), l)
  <2> DEFINE A == UnixArgs(f, r)
             E == Expansion(f, r, M)
             L == UnixLibs(f, r)
             makefile == IF r.type = "custom_makefile" THEN UnixMakefileLibs(f, r) ELSE {}
             env == IF r.skip_compiler_env \/ r.type = "cmake" THEN {} ELSE M
  <2>3. L = makefile \cup env \cup D \cup LibsOf(A, E)
    BY DEF UnixLibs
  <2>4. \A a \in A : a[1] \in Libraries =>
           \/ a \in OwnArgs(f, r)
           \/ r.type = "cmake" /\ a \in StandardLibraries(f, r)
    BY UnixLibraries
  <2>5. f.linalg = "mkl" /\ r.type = "cmake" => MklLine(f, TRUE) \subseteq L
    <3> SUFFICES ASSUME f.linalg = "mkl", r.type = "cmake" PROVE MklLine(f, TRUE) \subseteq L
      OBVIOUS
    <3>1. StandardLibraries(f, r) \subseteq A
      BY DEF UnixArgs, CmakeArgs
    <3> HIDE DEF A, E, L, D
    <3>2. D \cup LibsOf(A, E) \subseteq L
      BY <2>3
    <3> QED
      BY <1>1, <3>1, <3>2, CmakeHasMkl DEF D
  <2> HIDE DEF A, L
  <2>6. CASE l \in LibsOf(A, E)
    <3>1. LibsOf(A, E) \subseteq L
      BY <2>3
    <3> QED
      BY <2>4, <2>5, <2>6, <3>1, ArgsFit DEF L
  <2>7. CASE l \in makefile
    <3>1. r.type = "custom_makefile" /\ f.linalg # "accelerate" /\ UnixMakefileLibs(f, r) \subseteq L
      BY <2>3, <2>7 DEF LeavesMklToBuilders
    <3> QED
      BY <2>7, <3>1, MakefileLibsFit DEF L
  <2>8. CASE l \in env
    <3>1. l \in M /\ M \subseteq L
      BY <2>3, <2>8
    <3> QED
      BY <3>1, MathFits DEF L
  <2>9. CASE l \in D
    BY <1>1, <2>9 DEF Fits
  <2> QED
    BY <1>3, <2>3, <2>6, <2>7, <2>8, <2>9 DEF L
<1> QED
  BY <1>2, <1>3

\* What is linked is the flavor's, and of MKL its parts come together.
OfFlavor(f, libs) ==
    \A l \in libs :
       /\ l \in Layers => l = ThreadingLayer(f)
       /\ l \in Interfaces => l = InterfaceLib(f)
       /\ l \in Runtimes => l = OpenmpRuntime(f)
       /\ l \in BlasLibs => l = FlavorBlas(f)
       /\ l \in MklParts => MklLine(f, TRUE) \subseteq libs

\* The installed openblas answers to the names of the reference libraries, and
\* what fits under its own name fits under the other.
LEMMA ProvidedFits ==
    ASSUME NEW f, NEW L, InterfaceLib(f) \in Interfaces, \A l \in L : Fits(f, L, l)
    PROVE  OfFlavor(f, Provided(f, L))
<1> SUFFICES ASSUME NEW l \in Provided(f, L)
             PROVE  /\ l \in Layers => l = ThreadingLayer(f)
                    /\ l \in Interfaces => l = InterfaceLib(f)
                    /\ l \in Runtimes => l = OpenmpRuntime(f)
                    /\ l \in BlasLibs => l = FlavorBlas(f)
                    /\ l \in MklParts => MklLine(f, TRUE) \subseteq Provided(f, L)
  BY DEF OfFlavor
<1>1. PICK m \in L : l \in Provided(f, {m})
  BY DEF Provided
<1>2. CASE FitsFlavor(f, m)
  <2>1. l = m \/ l = "openblas"
    BY <1>1 DEF Provided
  <2>2. l \notin MklParts
    BY <1>2, <2>1 DEF FitsFlavor, MklParts, Layers, Interfaces
  <2>3. l \in Runtimes => l = OpenmpRuntime(f)
    BY <1>2, <2>1 DEF FitsFlavor, Runtimes
  <2>4. l \in BlasLibs => l = FlavorBlas(f)
    BY <1>1, <1>2 DEF FitsFlavor
  <2> QED
    BY <2>2, <2>3, <2>4 DEF MklParts
<1>3. CASE f.linalg = "mkl" /\ m \in MklLine(f, TRUE) /\ MklLine(f, TRUE) \subseteq L
  <2>1. l = m /\ Provided(f, L) = L
    BY <1>1, <1>3 DEF Provided
  <2>2. l \in {InterfaceLib(f), ThreadingLayer(f), "mkl_core", OpenmpRuntime(f)}
    BY <1>3, <2>1, RuntimeNames
  <2>3. /\ OpenmpRuntime(f) \in Runtimes /\ ThreadingLayer(f) \in Layers
        /\ InterfaceLib(f) \in Interfaces /\ FlavorBlas(f) = "mkl_core"
    BY <1>3, RuntimeNames DEF FlavorBlas
  <2>4. /\ l \in Layers => l = ThreadingLayer(f)
        /\ l \in Interfaces => l = InterfaceLib(f)
        /\ l \in Runtimes => l = OpenmpRuntime(f)
        /\ l \in BlasLibs => l = FlavorBlas(f)
    BY <2>2, <2>3 DEF Layers, Interfaces, Runtimes, BlasLibs
  <2> QED
    BY <1>3, <2>1, <2>4
<1> QED
  BY <1>2, <1>3 DEF Fits

\* Whichever builder it is, once math_common lets it get that far.
LEMMA SettingsFit ==
    ASSUME RecipesLeaveMklToBuilders, NEW f \in Flavors, NEW k \in Builders,
           NEW p \in DOMAIN Catalog, Configurable(k, f, Catalog[p])
    PROVE  OfFlavor(f, Settings(k, f, Catalog[p]).libs)
<1> DEFINE r == Catalog[p]
<1>1. LeavesMklToBuilders(f, r)
  BY Zenon DEF RecipesLeaveMklToBuilders, LeavesMklToBuilders
<1>2. FlavorFields \subseteq DOMAIN f
  BY FlavorsAssumption
<1> HIDE DEF r
<1>3. SameView(f, MathFlavor(f, r))
  BY <1>1, <1>2, MathFlavorOfOneFamily DEF LeavesMklToBuilders
<1>4. r.openmp => CompilerFamily(f) # Unknown
  <2>1. r.openmp => r.type # "generated"
    BY <1>1 DEF LeavesMklToBuilders
  <2>2. r.type # "generated" => CompilerFamily(IF k = "rpm" THEN MathFlavor(f, r) ELSE f) # Unknown
    BY Zenon DEF Configurable, r
  <2> QED
    BY <1>3, <2>1, <2>2 DEF SameView
<1>5. /\ \A l \in RpmLibs(f, r) : Fits(f, RpmLibs(f, r), l)
      /\ \A l \in UnixLibs(f, r) : Fits(f, UnixLibs(f, r), l)
  BY <1>1, <1>2, <1>4, LibsFit
<1>6. OfFlavor(f, Provided(f, RpmLibs(f, r))) /\ OfFlavor(f, Provided(f, UnixLibs(f, r)))
  BY <1>1, <1>5, ProvidedFits DEF LeavesMklToBuilders
<1>7. \/ Settings(k, f, r).libs = Provided(f, RpmLibs(f, r))
      \/ Settings(k, f, r).libs = Provided(f, UnixLibs(f, r))
  BY DEF Settings, RpmSettings, UnixSettings
<1> QED
  BY <1>6, <1>7 DEF r

LEMMA AtMostOne == ASSUME NEW S, NEW x, S \subseteq {x} PROVE Cardinality(S) <= 1
<1>1. S = {} \/ S = {x}
  OBVIOUS
<1>2. Cardinality({}) = 0
  BY FS_EmptySet
<1>3. Cardinality({x}) = 1
  BY FS_Singleton
<1> QED
  BY <1>1, <1>2, <1>3

\* A recipe's package of its own name is what the plan made of it.
LEMMA BuiltFromPlan ==
    ASSUME RepositoryInv, NEW p \in DOMAIN published \cap DOMAIN Catalog
    PROVE  /\ plan[p].starts /\ published[p] = plan[p].packages[p]
           /\ DOMAIN plan[p].packages \subseteq DOMAIN published
<1>1. p \in DOMAIN published \ Metas /\ p \in DOMAIN plan[p].packages
  BY OwnName, OneRecipe DEF RepositoryInv, TypeOK
<1>2. PICK q \in DOMAIN Catalog : /\ plan[q].starts
                                  /\ p \in DOMAIN plan[q].packages
                                  /\ DOMAIN plan[q].packages \subseteq DOMAIN published
                                  /\ published[p] = plan[q].packages[p]
  BY <1>1 DEF RepositoryInv, PublishedInv, FromPlan
<1>3. q = p
  BY <1>1, <1>2, OneRecipe DEF RepositoryInv
<1> QED
  BY <1>2, <1>3

LEMMA OneFlavorIsBuilt ==
    ASSUME RecipesLeaveMklToBuilders, RepositoryInv
    PROVE  OneThreadingModel
<1> DEFINE built == DOMAIN published \cap DOMAIN Catalog
           all == UNION {plan[p].links : p \in built}
           f == flavor
<1>1. ASSUME NEW p \in built PROVE OfFlavor(f, plan[p].links)
  <2>1. plan[p].starts
    BY BuiltFromPlan
  <2>2. /\ f \in Flavors /\ kind \in Builders /\ Configurable(kind, f, Catalog[p])
        /\ plan[p].links = Settings(kind, f, Catalog[p]).libs
    BY <2>1 DEF RepositoryInv, PlanInv
  <2> QED
    BY <2>2, RecipesLeaveMklToBuilders, SettingsFit
<1> HIDE DEF f, built
<1>2. ASSUME NEW group \in {Layers, Interfaces, Runtimes, BlasLibs}
      PROVE  Cardinality(all \cap group) <= 1
  <2> DEFINE the(x) == \A p \in built : \A l \in plan[p].links : l \in group => l = x
  <2>1. PICK x : the(x)
    <3>1. /\ group = Layers => the(ThreadingLayer(f))
          /\ group = Interfaces => the(InterfaceLib(f))
          /\ group = Runtimes => the(OpenmpRuntime(f))
          /\ group = BlasLibs => the(FlavorBlas(f))
      BY <1>1 DEF OfFlavor
    <3> QED
      BY <1>2, <3>1
  <2>2. all \cap group \subseteq {x}
    BY <2>1
  <2> QED
    BY <2>2, AtMostOne
<1>3. ASSUME NEW p \in built, plan[p].links \cap MklParts # {},
             NEW group \in {Layers, Interfaces, {"mkl_core"}, Runtimes}
      PROVE  \/ plan[p].links \cap group # {}
             \/ group = Runtimes /\ f.threading = "sequential"
  <2>1. MklLine(f, TRUE) \subseteq plan[p].links
    BY <1>1, <1>3 DEF OfFlavor
  <2>2. InterfaceLib(f) \in Interfaces
    <3>1. plan[p].starts
      BY BuiltFromPlan DEF built
    <3>2. f \in Flavors /\ kind \in Builders /\ Configurable(kind, f, Catalog[p]) /\ p \in DOMAIN Catalog
      BY <3>1 DEF RepositoryInv, PlanInv, f, built
    <3> QED
      BY <3>2, RecipesLeaveMklToBuilders, Zenon DEF RecipesLeaveMklToBuilders
  <2>3. /\ {InterfaceLib(f), ThreadingLayer(f), "mkl_core"} \subseteq MklLine(f, TRUE)
        /\ f.threading # "sequential" => OpenmpRuntime(f) \in MklLine(f, TRUE)
    BY DEF MklLine
  <2> QED
    BY <2>1, <2>2, <2>3, RuntimeNames
<1> QED
  BY <1>2, <1>3, Zenon DEF OneThreadingModel, built, f

\* Where recipes leave MKL to the builders, whatever has been built for a flavor
\* agrees on one MKL threading layer, one interface, one OpenMP runtime and one
\* BLAS, and no package links a part of MKL without the rest: for every recipe,
\* flavor and builder, however far the build got and whatever stopped it.
THEOREM OneThreadingLayer ==
    ASSUME RecipesLeaveMklToBuilders
    PROVE  Spec => []OneThreadingModel
<1>1. RepositoryInv => OneThreadingModel
  BY RecipesLeaveMklToBuilders, OneFlavorIsBuilt
<1> QED
  BY <1>1, RepositoryInit, RepositoryStep, PTL DEF Spec

-----------------------------------------------------------------------------
(***************************************************************************)
(* The order of the builds is enough for what the builders demand.  What   *)
(* is published was built with everything it needed on the host, and stays *)
(* there; so a package whose predecessors are on the host finds there what *)
(* these are made of and what they needed themselves.                      *)
(***************************************************************************)
HostInv ==
    /\ plan = Plan(flavor, kind, extras)
    /\ \A p \in DOMAIN published \cap DOMAIN Catalog : plan[p].needs \subseteq host
    /\ \A p \in host \cap DOMAIN Catalog : DOMAIN plan[p].packages \subseteq host
    /\ host \cap Metas = {}
    /\ phase # "building" => Selected \subseteq host

LEMMA HostInit == Init => HostInv
<1> SUFFICES ASSUME Init PROVE HostInv
  OBVIOUS
<1>1. DOMAIN published = {} /\ host = {} /\ phase = "building"
  BY DEF Init
<1>2. plan = Plan(flavor, kind, extras)
  BY DEF Init
<1> QED
  BY <1>1, <1>2 DEF HostInv

\* No package of a recipe has the name of another recipe.
LEMMA OwnRecipe ==
    ASSUME PlanInv, NEW p \in DOMAIN Catalog, NEW q \in DOMAIN plan[p].packages \cap DOMAIN Catalog
    PROVE  q = p
BY OwnName, OneRecipe

LEMMA SameHostKeeps ==
    ASSUME HostInv, UNCHANGED <<setup, host, phase>>,
           DOMAIN published' \cap DOMAIN Catalog \subseteq DOMAIN published
    PROVE  HostInv'
<1>1. UNCHANGED <<flavor, extras, kind, plan>> /\ host' = host /\ phase' = phase
  BY DEF setup
<1>2. Selected' = Selected
  BY <1>1 DEF Selected
<1>3. (plan = Plan(flavor, kind, extras))'
  BY <1>1 DEF HostInv
<1>4. /\ \A p \in DOMAIN published' \cap DOMAIN Catalog : plan'[p].needs \subseteq host'
      /\ \A p \in host' \cap DOMAIN Catalog : DOMAIN plan'[p].packages \subseteq host'
      /\ host' \cap Metas = {}
      /\ phase' # "building" => Selected' \subseteq host'
  BY <1>1, <1>2 DEF HostInv
<1> QED
  BY <1>3, <1>4 DEF HostInv

LEMMA BuildKeepsHost ==
    ASSUME RepositoryInv, HostInv, NEW p \in DOMAIN Catalog, BuildNext(p) \/ BuildExtra(p)
    PROVE  HostInv'
<1>1. plan[p].needs \subseteq host
  BY DEF BuildNext, BuildExtra, BuildSucceeds
<1>2. /\ UNCHANGED <<flavor, extras, kind, plan>> /\ host' = host /\ phase' = phase
      /\ DOMAIN published' = DOMAIN published \cup DOMAIN plan[p].packages
  BY BuildAdds DEF setup
<1>3. \A q \in DOMAIN published' \cap DOMAIN Catalog : q \in DOMAIN published \/ q = p
  BY <1>2, OwnRecipe DEF RepositoryInv
<1>4. Selected' = Selected
  BY <1>2 DEF Selected
<1>5. (plan = Plan(flavor, kind, extras))'
  BY <1>2 DEF HostInv
<1>6. /\ \A q \in DOMAIN published' \cap DOMAIN Catalog : plan'[q].needs \subseteq host'
      /\ \A q \in host' \cap DOMAIN Catalog : DOMAIN plan'[q].packages \subseteq host'
      /\ host' \cap Metas = {}
      /\ phase' # "building" => Selected' \subseteq host'
  BY <1>1, <1>2, <1>3, <1>4 DEF HostInv
<1> QED
  BY <1>5, <1>6 DEF HostInv

LEMMA InstallKeepsHost ==
    ASSUME RepositoryInv, HostInv, NEW p \in DOMAIN Catalog, Install(p)
    PROVE  HostInv'
<1>1. /\ UNCHANGED <<flavor, extras, kind, plan>> /\ published' = published /\ phase' = phase
      /\ host' = host \cup DOMAIN plan[p].packages
  BY DEF Install, setup, userVars
<1>2. /\ \A q \in host' \cap DOMAIN Catalog : q \in host \/ q = p
      /\ DOMAIN plan[p].packages \cap Metas = {}
  BY <1>1, OwnRecipe, OneRecipe DEF RepositoryInv
<1>3. Selected' = Selected
  BY <1>1 DEF Selected
<1>4. (plan = Plan(flavor, kind, extras))'
  BY <1>1 DEF HostInv
<1>5. /\ \A q \in DOMAIN published' \cap DOMAIN Catalog : plan'[q].needs \subseteq host'
      /\ \A q \in host' \cap DOMAIN Catalog : DOMAIN plan'[q].packages \subseteq host'
      /\ host' \cap Metas = {}
      /\ phase' # "building" => Selected' \subseteq host'
  BY <1>1, <1>2, <1>3 DEF HostInv
<1> QED
  BY <1>4, <1>5 DEF HostInv

LEMMA MetaKeepsHost == RepositoryInv /\ HostInv /\ BuildMeta => HostInv'
<1> SUFFICES ASSUME RepositoryInv, HostInv, BuildMeta PROVE HostInv'
  OBVIOUS
<1>1. UNCHANGED <<flavor, extras, kind, plan>> /\ host' = host /\ Selected \subseteq host
  BY DEF BuildMeta, setup
<1>2. \A q \in DOMAIN Catalog : q \notin Metas
  BY OwnName, OneRecipe DEF RepositoryInv
<1>3. \A q \in DOMAIN published' \cap DOMAIN Catalog : q \in DOMAIN published
  BY <1>2, MetaAdds
<1>4. Selected' = Selected
  BY <1>1 DEF Selected
<1>5. (plan = Plan(flavor, kind, extras))'
  BY <1>1 DEF HostInv
<1>6. /\ \A q \in DOMAIN published' \cap DOMAIN Catalog : plan'[q].needs \subseteq host'
      /\ \A q \in host' \cap DOMAIN Catalog : DOMAIN plan'[q].packages \subseteq host'
      /\ host' \cap Metas = {}
      /\ phase' # "building" => Selected' \subseteq host'
  BY <1>1, <1>3, <1>4 DEF HostInv
<1> QED
  BY <1>5, <1>6 DEF HostInv

\* What users do leaves the build host alone, and they come after the build.
LEMMA UserKeepsHost ==
    ASSUME HostInv, UNCHANGED <<setup, published, host>>, phase # "building"
    PROVE  HostInv'
<1>1. UNCHANGED <<flavor, extras, kind, plan, published, host>>
  BY DEF setup
<1>2. Selected' = Selected
  BY <1>1 DEF Selected
<1>3. (plan = Plan(flavor, kind, extras))'
  BY <1>1 DEF HostInv
<1>4. /\ \A q \in DOMAIN published' \cap DOMAIN Catalog : plan'[q].needs \subseteq host'
      /\ \A q \in host' \cap DOMAIN Catalog : DOMAIN plan'[q].packages \subseteq host'
      /\ host' \cap Metas = {}
      /\ phase' # "building" => Selected' \subseteq host'
  BY <1>1, <1>2 DEF HostInv
<1> QED
  BY <1>3, <1>4 DEF HostInv

LEMMA HostStep == RepositoryInv /\ HostInv /\ [Next]_vars => HostInv'
<1> SUFFICES ASSUME RepositoryInv, HostInv, [Next]_vars PROVE HostInv'
  OBVIOUS
<1>1. ASSUME NEW p \in DOMAIN Catalog, StopNext(p) PROVE HostInv'
  BY <1>1, SameHostKeeps DEF StopNext, userVars
<1>2. ASSUME NEW g \in Goals, Request(g) PROVE HostInv'
  BY <1>2, UserKeepsHost DEF Request
<1>3. CASE Resolve \/ Refuse
  BY <1>3, UserKeepsHost DEF Resolve, Refuse
<1>4. CASE Unpack
  BY <1>4, UnpackStep, UserKeepsHost
<1>5. CASE UNCHANGED vars
  BY <1>5, SameHostKeeps DEF vars
<1> QED
  BY <1>1, <1>2, <1>3, <1>4, <1>5, BuildKeepsHost, InstallKeepsHost, MetaKeepsHost DEF Next

LEMMA StackNamesOfUnion ==
    ASSUME NEW A, NEW B PROVE StackNames(A \cup B) = StackNames(A) \cup StackNames(B)
BY DEF StackNames

LEMMA StackNamesOfHost == ASSUME NEW S PROVE StackNames(Host(S)) = {}
BY DEF StackNames, Host

\* What a build needs of the stack, whichever builder it is.
LEMMA BuildNames ==
    ASSUME NEW f, NEW p, NEW r, NEW recipes
    PROVE  /\ StackNames(RpmRequires(f, p, r).build) =
                Listed(f, r.requires) \cup StackNames(RpmMath(f, r))
                  \cup IF r.mpi THEN {"openmpi"} ELSE {}
           /\ StackNames(DebDepends(f, r, recipes).build) = StackNames(RpmRequires(f, p, r).build)
<1> DEFINE system == Host(Listed(f, r.rpm_build_requires))
           hosted == IF r.bootstrap /\ f.bootstrap_gcc THEN HostCompilers(r) ELSE {}
           listed == Stack(Listed(f, r.requires))
           mpi == IF r.mpi THEN Stack({"openmpi"}) ELSE {}
           more == IF r.bootstrap \/ BuildsOwnGcc(f, recipes) THEN {} ELSE HostCompilers(r)
           R == RpmRequires(f, p, r).build
           M == RpmMath(f, r)
<1>1. R = system \cup HostTools \cup hosted \cup listed \cup (M \cup mpi)
  BY Zenon DEF RpmRequires
<1>2. StackNames({}) = {}
  BY DEF StackNames
<1>3. StackNames(HostCompilers(r)) = {} /\ StackNames(HostTools) = {} /\ StackNames(system) = {}
  BY StackNamesOfHost DEF HostCompilers, HostTools
<1>4. StackNames(hosted) = {} /\ StackNames(more) = {}
  BY <1>2, <1>3
<1>5. StackNames(listed) = Listed(f, r.requires)
  BY StackNamesOfStack
<1>6. StackNames(mpi) = IF r.mpi THEN {"openmpi"} ELSE {}
  BY <1>2, StackNamesOfStack
<1>7. DebDepends(f, r, recipes).build = R \cup more
  BY SameBuildRequires
<1> HIDE DEF system, hosted, listed, mpi, more, R, M
<1>8. StackNames(R) = StackNames(system) \cup StackNames(HostTools) \cup StackNames(hosted)
                        \cup StackNames(listed) \cup (StackNames(M) \cup StackNames(mpi))
  BY <1>1, Zenon DEF StackNames
<1> QED
  BY <1>3, <1>4, <1>5, <1>6, <1>7, <1>8, StackNamesOfUnion DEF R, M

\* The entry that counts is that of one of the first keys.
LEMMA EntryOfFirstKey ==
    ASSUME NEW f, NEW m, NEW K, FirstKeys(f, m) # {}, FirstKeys(f, m) \subseteq K
    PROVE  \E key \in K \cap DOMAIN m : ResolveKey(f, m) = m[key]
<1> DEFINE names == FlavorNames(f)
           known == {i \in DOMAIN names : names[i] \in DOMAIN m}
           first(i) == \A j \in known : i <= j
           chosen == CHOOSE i \in known : first(i)
<1>1. FirstKeys(f, m) = {names[i] : i \in {j \in known : first(j)}}
  BY Zenon DEF FirstKeys
<1>2. ResolveKey(f, m) = IF known = {} THEN {} ELSE m[names[chosen]]
  BY Zenon DEF ResolveKey, FirstKnown
<1> HIDE DEF first
<1>3. \E i \in known : first(i)
  BY <1>1
<1>4. chosen \in known /\ first(chosen)
  BY <1>3
<1> HIDE DEF chosen
<1>5. names[chosen] \in K
  BY <1>1, <1>4
<1> QED
  BY <1>2, <1>4, <1>5

\* load_yaml_files adds gcc to every package outside the bootstrap.
LEMMA GccIsOrdered ==
    ASSUME NEW f, NEW p, NEW r PROVE ImplicitGcc(p, r) \subseteq EffectiveDependencies(f, p, r)
<1> SUFFICES ASSUME ImplicitGcc(p, r) # {} PROVE "gcc" \in EffectiveDependencies(f, p, r)
  BY DEF ImplicitGcc
<1> DEFINE Q == InjectGcc(p, r)
           L == LoaderRequires(p, r)
<1>1. Q = [k \in DOMAIN r.requires \cup {"all"} |->
             Entry(r.requires, k) \cup IF k = "all" THEN {"gcc"} ELSE {}]
  BY DEF InjectGcc
<1>2. "all" \in DOMAIN Q /\ "gcc" \in Q["all"]
  BY <1>1
<1> HIDE DEF Q
<1>3. "all" \in DOMAIN L /\ "gcc" \in L["all"]
  <2>1. CASE r.math \notin {"serial", "parallel", "true"}
    BY <1>2, <2>1 DEF LoaderRequires, InjectMath, Q
  <2>2. CASE r.math \in {"serial", "parallel", "true"}
    <3>1. L = [k \in DOMAIN Q \cup MathKeys |->
                 Entry(Q, k) \cup IF k \in MathKeys THEN MathLibraries(p, r, k) ELSE {}]
      BY <2>2 DEF LoaderRequires, InjectMath, Q
    <3> QED
      BY <1>2, <3>1 DEF Entry
  <2> QED
    BY <2>1, <2>2
<1> QED
  BY <1>3 DEF EffectiveDependencies, Listed, Entry

\* And the math libraries to those with math, if the flavor's name says the same as
\* its `linalg'.
LEMMA MathIsOrdered ==
    ASSUME NEW f, NEW p, NEW r, NEW math, math = StackNames(RpmMath(f, r)),
           math # {}, p \notin math, FirstKeys(f, LoaderRequires(p, r)) # {},
           FirstKeys(f, LoaderRequires(p, r)) \subseteq KeysFor(f)
    PROVE  math \subseteq EffectiveDependencies(f, p, r)
<1> DEFINE Q == InjectGcc(p, r)
           L == LoaderRequires(p, r)
<1>1. PICK key \in KeysFor(f) \cap DOMAIN L : ResolveKey(f, L) = L[key]
  BY EntryOfFirstKey
<1>2. r.math \in {"serial", "parallel"}
  BY DEF RpmMath, StackNames
<1>3. key \in MathKeys
  BY DEF KeysFor, MathKeys
<1>4. L = [k \in DOMAIN Q \cup MathKeys |->
             Entry(Q, k) \cup IF k \in MathKeys THEN MathLibraries(p, r, k) ELSE {}]
  BY <1>2 DEF LoaderRequires, InjectMath
<1> HIDE DEF Q, L
<1>5. MathLibraries(p, r, key) \subseteq L[key]
  BY <1>3, <1>4
<1>6. math \subseteq MathLibraries(p, r, key)
  <2> DEFINE S == IF r.math = "parallel" THEN Stack({"scalapack"}) ELSE {}
             blas == CASE key \in MklKeys        -> {}
                       [] key \in {"gcc", "lbl"} -> {"openblas"} \ {p}
                       [] key = "macos"          -> {"openblas", "lapack"} \ {p}
                       [] key = "debug"          ->
                             IF p = "lapack" THEN {} ELSE {"blas", "lapack"} \ {p}
  <2>1. MathLibraries(p, r, key) = blas \cup IF r.math = "parallel" THEN {"scalapack"} \ {p} ELSE {}
    BY Zenon DEF MathLibraries
  <2>2. StackNames(S) = IF r.math = "parallel" THEN {"scalapack"} ELSE {}
    <3>1. StackNames({}) = {}
      BY DEF StackNames
    <3> QED
      BY <3>1, StackNamesOfStack
  <2>3. RpmMath(f, r) =
          IF f.linalg = "mkl" THEN Host({"intel-oneapi-mkl", "intel-oneapi-mkl-devel"}) \cup S
          ELSE IF f.linalg = "openblas" THEN Stack({"openblas"}) \cup S
          ELSE IF f.linalg \in {"reference", "lapack"} THEN Stack({"blas", "lapack"}) \cup S
          ELSE {}
    BY <1>2, Zenon DEF RpmMath
  <2> HIDE DEF S, blas
  <2>4. CASE f.linalg = "mkl"
    <3> DEFINE mkl == Host({"intel-oneapi-mkl", "intel-oneapi-mkl-devel"})
    <3>1. StackNames(mkl) = {}
      BY StackNamesOfHost
    <3>2. RpmMath(f, r) = mkl \cup S
      BY <2>3, <2>4
    <3> HIDE DEF mkl
    <3>3. math = StackNames(S)
      BY <3>1, <3>2, StackNamesOfUnion
    <3> QED
      BY <2>1, <2>2, <3>3
  <2>5. CASE f.linalg = "openblas"
    <3>1. math = {"openblas"} \cup StackNames(S)
      BY <2>3, <2>5, StackNamesOfUnion, StackNamesOfStack
    <3>2. key \in {"gcc", "lbl", "macos"}
      BY <2>5 DEF KeysFor
    <3>3. "openblas" \in blas
      BY <3>1, <3>2 DEF blas, MklKeys
    <3> QED
      BY <2>1, <2>2, <3>1, <3>3
  <2>6. CASE f.linalg \in {"reference", "lapack"}
    <3>1. math = {"blas", "lapack"} \cup StackNames(S)
      BY <2>3, <2>6, StackNamesOfUnion, StackNamesOfStack
    <3>2. key = "debug"
      BY <2>6 DEF KeysFor
    <3>3. {"blas", "lapack"} \subseteq blas
      BY <3>1, <3>2 DEF blas, MklKeys
    <3> QED
      BY <2>1, <2>2, <3>1, <3>3
  <2>7. CASE f.linalg \notin {"mkl", "openblas", "reference", "lapack"}
    BY <2>3, <2>7 DEF StackNames
  <2> QED
    BY <2>4, <2>5, <2>6, <2>7
<1> QED
  BY <1>1, <1>5, <1>6 DEF EffectiveDependencies, Listed, L

\* What RecipesOrderTheirNeeds says of one recipe and one flavor.
OrdersItsNeeds(f, p, r) ==
    LET before == EffectiveDependencies(f, p, r) \cap Kept(f)
        listed == Listed(f, r.requires)
        math == StackNames(RpmMath(f, r))
    IN  /\ Describable(f, "deb", p)
        /\ \A opted \in ExtraSets : listed \subseteq Kept(f) \cup (opted \cap DOMAIN Catalog)
        /\ listed \cap Kept(f) \subseteq
              before \cup UNION {Listed(f, Catalog[q].requires) : q \in before}
        /\ r.mpi => \E q \in before : q = "openmpi" \/ Catalog[q].mpi
        /\ math # {} => LET keys == FirstKeys(f, LoaderRequires(p, r))
                        IN  keys # {} /\ keys \subseteq KeysFor(f)
        /\ p \notin math
        /\ \A n \in math : \E q \in math \cap Kept(f) : n \in NamesOf(f, q)

LEMMA PlanFields ==
    ASSUME HostInv, NEW p \in DOMAIN Catalog
    PROVE  /\ plan[p].after = EffectiveDependencies(flavor, p, Catalog[p]) \cap Kept(flavor)
           /\ plan[p].starts <=> Configurable(kind, flavor, Catalog[p]) /\ Describable(flavor, kind, p)
           /\ plan[p].needs = BuildNeeds(flavor, kind, extras, p)
BY Zenon DEF HostInv, Plan

\* What is on the host has brought what it is made of and what it was built with.
LEMMA HostIsFurnished ==
    ASSUME RepositoryInv, HostInv, NEW q \in host \cap DOMAIN Catalog
    PROVE  /\ NamesOf(flavor, q) \subseteq host
           /\ Listed(flavor, Catalog[q].requires) \subseteq host
           /\ Catalog[q].mpi => "openmpi" \in host
<1>1. NamesOf(flavor, q) \subseteq host
  BY PackageNames DEF HostInv, RepositoryInv
<1>2. q \in DOMAIN published
  BY DEF RepositoryInv, TypeOK
<1>3. BuildNeeds(flavor, kind, extras, q) \subseteq host
  BY <1>2, PlanFields DEF HostInv
<1>4. StackNames(RpmRequires(flavor, q, Catalog[q]).build) \subseteq host
  BY <1>3, BuildNames DEF BuildNeeds, Rpm, Deb
<1> QED
  BY <1>1, <1>4, BuildNames

\* A name whose turn it is finds what its build needs, unless it is a recipe that
\* flavor.conf opts in.
LEMMA NeedsAreThere ==
    ASSUME RecipesOrderTheirNeeds, RepositoryInv, HostInv, NEW p \in DOMAIN Catalog,
           Ready(p), Configurable(kind, flavor, Catalog[p]),
           CheckedDependencies(flavor, extras, p) \cap Extras \subseteq host
    PROVE  BuildSucceeds(p)
<1> DEFINE f == flavor
           r == Catalog[p]
           before == EffectiveDependencies(f, p, r) \cap Kept(f)
           listed == Listed(f, r.requires)
           math == StackNames(RpmMath(f, r))
<1>1. Selected = Kept(f) /\ f \in Flavors /\ extras \in ExtraSets /\ kind \in Builders
  BY SelectedIsKept DEF RepositoryInv, PlanInv
<1>2. p \in Kept(f) /\ before \subseteq host
  BY <1>1, PlanFields DEF Ready
<1>3. OrdersItsNeeds(f, p, r)
  BY <1>1, <1>2, Zenon DEF RecipesOrderTheirNeeds, OrdersItsNeeds
<1>4. /\ Describable(f, "deb", p)
      /\ listed \subseteq Kept(f) \cup (extras \cap DOMAIN Catalog)
      /\ listed \cap Kept(f) \subseteq before \cup UNION {Listed(f, Catalog[q].requires) : q \in before}
      /\ r.mpi => \E q \in before : q = "openmpi" \/ Catalog[q].mpi
      /\ math # {} => /\ FirstKeys(f, LoaderRequires(p, r)) # {}
                      /\ FirstKeys(f, LoaderRequires(p, r)) \subseteq KeysFor(f)
      /\ p \notin math
      /\ \A n \in math : \E q \in math \cap Kept(f) : n \in NamesOf(f, q)
  BY <1>1, <1>3, Zenon DEF OrdersItsNeeds
<1>5. \A q \in before : q \in host \cap DOMAIN Catalog
  BY <1>2 DEF Kept
<1>6. \A q \in DOMAIN Catalog : ShouldBuild(f, Catalog[q]) <=> q \in Kept(f)
  BY DEF Kept, LoaderKeeps, ShouldBuild
<1>7. CheckedDependencies(f, extras, p) =
        {d \in (ImplicitGcc(p, r) \cup listed) \cap DOMAIN Catalog : d \in Kept(f) \/ d \in extras}
  BY <1>6 DEF CheckedDependencies, PackageDependencies
<1>8. ASSUME NEW d \in CheckedDependencies(f, extras, p), d \notin Kept(f) PROVE d \in host
  BY <1>1, <1>7, <1>8 DEF Extras
<1>9. listed \subseteq host
  <2> SUFFICES ASSUME NEW d \in listed PROVE d \in host
    OBVIOUS
  <2>1. CASE d \in Kept(f)
    <3>1. d \in before \/ \E q \in before : d \in Listed(f, Catalog[q].requires)
      BY <1>4, <2>1
    <3> QED
      BY <1>2, <1>5, <3>1, HostIsFurnished
  <2>2. CASE d \notin Kept(f)
    BY <1>4, <1>7, <1>8, <2>2
  <2> QED
    BY <2>1, <2>2
<1>10. math \subseteq host
  <2> SUFFICES ASSUME NEW n \in math PROVE n \in host
    OBVIOUS
  <2>1. math \subseteq EffectiveDependencies(f, p, r)
    BY <1>4, MathIsOrdered
  <2>2. PICK q \in before : n \in NamesOf(f, q)
    BY <1>4, <2>1
  <2> QED
    BY <1>5, <2>2, HostIsFurnished
<1>11. r.mpi => "openmpi" \in host
  BY <1>4, <1>5, HostIsFurnished
<1>12. CheckedDependencies(f, extras, p) \subseteq host
  <2> SUFFICES ASSUME NEW d \in CheckedDependencies(f, extras, p), d \in Kept(f) PROVE d \in host
    BY <1>8
  <2>1. d \in listed \/ d \in before
    BY <1>7, GccIsOrdered
  <2> QED
    BY <1>2, <1>9, <2>1
<1>13. StackNames(RpmRequires(f, p, r).build) \subseteq host
  BY <1>9, <1>10, <1>11, BuildNames
<1>14. BuildNeeds(f, kind, extras, p) \subseteq host
  BY <1>12, <1>13, BuildNames DEF BuildNeeds, Rpm, Deb
<1>15. Describable(f, kind, p)
  BY <1>4 DEF Describable
<1> QED
  BY <1>14, <1>15, PlanFields DEF BuildSucceeds

LEMMA HostAlways == Spec => [](RepositoryInv /\ HostInv)
BY RepositoryInit, RepositoryStep, HostInit, HostStep, PTL DEF Spec

\* Where the order of the recipes reflects what they list, `build next' never meets a
\* package whose build lacks something, unless that is a recipe opted in and not
\* built: the order is made from one reading of the recipes, by flavor names, and
\* suffices for what two builders demand from two others, by `linalg' and features.
THEOREM OrderIsEnough ==
    ASSUME RecipesOrderTheirNeeds
    PROVE  Spec => StopsOnlyForExtras
<1>1. ASSUME RepositoryInv, HostInv, [Next]_vars, NEW p \in stopped' \ stopped,
             Configurable(kind, flavor, Catalog[p])
      PROVE  (CheckedDependencies(flavor, extras, p) \cap Extras) \ host # {}
  <2>1. PICK q \in DOMAIN Catalog : StopNext(q) /\ stopped' = stopped \cup {q}
    <3>1. ASSUME NEW q \in DOMAIN Catalog, BuildNext(q) \/ BuildExtra(q) PROVE stopped' \subseteq stopped
      BY <1>1, <3>1, BuildAdds
    <3>2. ASSUME NEW q \in DOMAIN Catalog, Install(q) PROVE stopped' = stopped
      BY <3>2 DEF Install
    <3>3. ASSUME NEW g \in Goals, Request(g) PROVE stopped' = stopped
      BY <3>3 DEF Request
    <3>4. BuildMeta \/ Resolve \/ Refuse \/ UNCHANGED vars => stopped' = stopped
      BY DEF BuildMeta, Resolve, Refuse, vars
    <3>5. Unpack => stopped' = stopped
      BY UnpackStep
    <3> QED
      BY <1>1, <3>1, <3>2, <3>3, <3>4, <3>5 DEF Next, StopNext
  <2>2. p = q /\ Ready(p) /\ ~BuildSucceeds(p) /\ p \in DOMAIN Catalog
    BY <1>1, <2>1 DEF StopNext
  <2> QED
    BY <1>1, <2>2, RecipesOrderTheirNeeds, NeedsAreThere
<1>2. RepositoryInv /\ HostInv /\ [Next]_vars =>
        [\A p \in stopped' \ stopped :
            Configurable(kind, flavor, Catalog[p]) =>
               (CheckedDependencies(flavor, extras, p) \cap Extras) \ host # {}]_vars
  BY <1>1
<1> QED
  BY <1>2, HostAlways, PTL DEF Spec, StopsOnlyForExtras

-----------------------------------------------------------------------------
(***************************************************************************)
(* What a published package requires is published: its recipe's build has  *)
(* needed it on the host.  Only meta-packages may promise more, and no     *)
(* other package asks for one.                                             *)
(***************************************************************************)
GoalInv ==
    /\ goal \in Metas \/ txn \cap Metas = {}
    /\ \A a \in DOMAIN published \cap Metas :
          StackNames(published[a].requires) \subseteq Selected \cup Extras \cup Examples

\* The names a build needs of the stack.
StackNeeds(f, p) == StackNames(Rpm(f, p).build)

LEMMA StackNeedsAreNeeds ==
    ASSUME HostInv, NEW p \in DOMAIN Catalog PROVE StackNeeds(flavor, p) \subseteq plan[p].needs
<1>1. plan[p].needs = BuildNeeds(flavor, kind, extras, p)
  BY PlanFields
<1> QED
  BY <1>1, BuildNames DEF BuildNeeds, StackNeeds, Rpm, Deb

LEMMA StackNamesOfTranslation ==
    ASSUME NEW A, NEW system_map PROVE StackNames(Translate(A, system_map)) = StackNames(A)
<1> DEFINE S == {q \in A : q[1] = "stack"}
           H == UNION {Host(system_map[q[2]]) : q \in {x \in A : x[1] = "host"}}
<1>1. Translate(A, system_map) = S \cup H
  BY Zenon DEF Translate
<1>2. \A q \in H : q[1] # "stack"
  BY DEF Host
<1> HIDE DEF H
<1>3. {q \in S \cup H : q[1] = "stack"} = S
  BY <1>2
<1> QED
  BY <1>1, <1>3 DEF StackNames

\* To run, the main package requires what its build needed, and environment.
LEMMA MainPackageNeeds ==
    ASSUME NEW f, NEW p \in DOMAIN Catalog, NEW k \in Builders
    PROVE  StackNames(BinaryPackages(f, k, p)[p].requires) \subseteq StackNeeds(f, p) \cup {Environment}
<1> DEFINE r == Catalog[p]
           R == RpmRequires(f, p, r).run
           system == Host(Listed(f, r.rpm_requires))
           M == RpmMath(f, r)
           mpi == IF r.mpi THEN Stack({"openmpi"}) ELSE {}
           runtime == RpmRuntime(Listed(f, r.requires))
           env == OwnEnvironment(p)
<1>1. StackNames({}) = {}
  BY DEF StackNames
<1>2. StackNames(env) \subseteq {Environment}
  BY <1>1, StackNamesOfStack DEF OwnEnvironment, Environment
<1>3. StackNames(runtime) \subseteq Listed(f, r.requires)
  BY StackNamesOfStack DEF RpmRuntime
<1>4. StackNames(system) = {}
  BY StackNamesOfHost
<1>5. StackNames(mpi) \subseteq IF r.mpi THEN {"openmpi"} ELSE {}
  BY <1>1, StackNamesOfStack
<1>6. R = system \cup runtime \cup (M \cup mpi) \cup env
  BY Zenon DEF RpmRequires
<1> HIDE DEF R, system, runtime, M, mpi, env
<1>7. StackNames(R) = StackNames(system) \cup StackNames(runtime)
                        \cup (StackNames(M) \cup StackNames(mpi)) \cup StackNames(env)
  BY <1>6, Zenon DEF StackNames
<1>8. StackNames(R) \subseteq StackNeeds(f, p) \cup {Environment}
  <2>1. StackNeeds(f, p) = Listed(f, r.requires) \cup StackNames(M)
                             \cup IF r.mpi THEN {"openmpi"} ELSE {}
    BY BuildNames DEF StackNeeds, Rpm, M
  <2> QED
    BY <1>2, <1>3, <1>4, <1>5, <1>7, <2>1
<1>9. p \in {p} \cup Subpackages(f, r)
  OBVIOUS
<1>10. CASE k = "rpm"
  <2>1. BinaryPackages(f, "rpm", p) = RpmPackages(f, p, r)
    BY DEF BinaryPackages
  <2>2. BinaryPackages(f, "rpm", p)[p].requires = R
    BY <1>9, <2>1 DEF RpmPackages, R
  <2> QED
    BY <1>8, <1>10, <2>2
<1>11. CASE k = "deb"
  <2> DEFINE D == DebDepends(f, r, Catalog).run
             T == Translate(D, SystemMap)
  <2>1. BinaryPackages(f, "deb", p) = DebPackages(f, p, r, Catalog, SystemMap)
    BY DEF BinaryPackages
  <2>2. BinaryPackages(f, "deb", p)[p].requires = env \cup T
    BY <1>9, <2>1 DEF DebPackages, env
  <2>3. D \subseteq R
    BY SameRunRequires DEF R
  <2> HIDE DEF D
  <2>4. StackNames(D) \subseteq StackNames(R)
    BY <2>3 DEF StackNames
  <2>5. StackNames(env \cup T) = StackNames(env) \cup StackNames(D)
    BY StackNamesOfUnion, StackNamesOfTranslation
  <2> QED
    BY <1>2, <1>8, <1>11, <2>2, <2>4, <2>5
<1> QED
  BY <1>10, <1>11 DEF Builders

LEMMA SubpackageNeeds ==
    ASSUME NEW f, NEW p \in DOMAIN Catalog, NEW k \in Builders, NEW s \in Subpackages(f, Catalog[p]), s # p
    PROVE  StackNames(BinaryPackages(f, k, p)[s].requires)
             \subseteq SubpackageDeps(f, Catalog[p], s) \cup {Environment}
<1> DEFINE r == Catalog[p]
           D == Stack(SubpackageDeps(f, r, s))
           E == Stack({"environment"})
<1>1. s \in {p} \cup Subpackages(f, r)
  OBVIOUS
<1>2. StackNames(D) = SubpackageDeps(f, r, s) /\ StackNames(E) = {Environment}
  BY StackNamesOfStack DEF Environment
<1>3. BinaryPackages(f, k, p)[s].requires = D \cup E
  <2>1. CASE k = "rpm"
    <3>1. BinaryPackages(f, k, p) = RpmPackages(f, p, r)
      BY <2>1 DEF BinaryPackages
    <3> QED
      BY <1>1, <3>1 DEF RpmPackages
  <2>2. CASE k # "rpm"
    <3>1. BinaryPackages(f, k, p) = DebPackages(f, p, r, Catalog, SystemMap)
      BY <2>2 DEF BinaryPackages
    <3> QED
      BY <1>1, <3>1 DEF DebPackages
  <2> QED
    BY <2>1, <2>2
<1> HIDE DEF D, E
<1> QED
  BY <1>2, <1>3, StackNamesOfUnion

\* Everything but the meta-packages, once the flavor is built.
LEMMA PublishedNeeds ==
    ASSUME SubpackagesAskForNoMore, RepositoryInv, HostInv, phase # "building",
           NEW a \in DOMAIN published \ Metas
    PROVE  Needs(a) \subseteq DOMAIN published \ Metas
<1>1. PICK p \in DOMAIN Catalog : /\ a \in DOMAIN plan[p].packages
                                  /\ DOMAIN plan[p].packages \subseteq DOMAIN published
                                  /\ published[a] = plan[p].packages[a]
  BY DEF RepositoryInv, PublishedInv, FromPlan
<1>2. /\ flavor \in Flavors /\ kind \in Builders /\ host \subseteq DOMAIN published
      /\ plan[p].packages = BinaryPackages(flavor, kind, p)
  BY DEF RepositoryInv, PlanInv, TypeOK
<1>3. Environment \in DOMAIN published \ Metas
  <2>1. Environment \in Selected
    BY <1>2, SelectedIsKept DEF SubpackagesAskForNoMore, RepositoryInv
  <2> QED
    BY <1>2, <2>1 DEF HostInv, Environment, Metas, FlavorMeta, ExamplesMeta
<1>4. p \in DOMAIN published
  BY <1>1, OwnName DEF RepositoryInv
<1>5. StackNeeds(flavor, p) \subseteq DOMAIN published \ Metas
  BY <1>2, <1>4, StackNeedsAreNeeds DEF HostInv
<1>6. StackNames(published[a].requires) \subseteq DOMAIN published \ Metas
  <2>1. CASE a = p
    BY <1>1, <1>2, <1>3, <1>5, <2>1, MainPackageNeeds
  <2>2. CASE a # p
    <3>1. a \in Subpackages(flavor, Catalog[p]) \ {p}
      BY <1>1, <2>2, PackageNames DEF NamesOf, RepositoryInv
    <3>2. SubpackageDeps(flavor, Catalog[p], a) \subseteq NamesOf(flavor, p) \cup StackNeeds(flavor, p)
      BY <1>2, <3>1 DEF SubpackagesAskForNoMore, StackNeeds
    <3>3. NamesOf(flavor, p) \subseteq DOMAIN published \ Metas
      BY <1>1, PackageNames, OneRecipe DEF RepositoryInv
    <3> QED
      BY <1>1, <1>2, <1>3, <1>5, <2>2, <3>1, <3>2, <3>3, SubpackageNeeds
  <2> QED
    BY <2>1, <2>2
<1>7. StackNames(published[a].pre) \subseteq {Environment}
  <2>1. published[a].pre \subseteq Stack({Environment})
    BY DEF RepositoryInv, TypeOK
  <2> QED
    BY <2>1 DEF StackNames, Stack
<1> QED
  BY <1>3, <1>6, <1>7, StackNamesOfUnion DEF Needs

LEMMA MetaNeeds ==
    ASSUME RepositoryInv, GoalInv, NEW a \in DOMAIN published \cap Metas
    PROVE  Needs(a) \subseteq Selected \cup Extras \cup Examples
<1>1. published[a].pre = {}
  BY DEF RepositoryInv, PublishedInv
<1>2. published[a].requires \cup published[a].pre = published[a].requires
  BY <1>1
<1> QED
  BY <1>2 DEF Needs, GoalInv

\* Once the opted-in recipes are built as well, so is everything users may ask for.
LEMMA NothingIsMissing ==
    ASSUME SubpackagesAskForNoMore, RepositoryInv, HostInv, GoalInv, phase # "building",
           goal \notin Metas \/ Extras \subseteq DOMAIN published
    PROVE  Missing \subseteq DOMAIN published
<1> SUFFICES ASSUME NEW a \in txn PROVE Needs(a) \subseteq DOMAIN published
  BY MissingIsNeeds
<1>1. a \in DOMAIN published
  BY DEF RepositoryInv, TypeOK
<1>2. CASE a \notin Metas
  BY <1>1, <1>2, PublishedNeeds
<1>3. CASE a \in Metas
  <2>1. Extras \subseteq DOMAIN published
    BY <1>3 DEF GoalInv
  <2>2. Selected \subseteq DOMAIN published
    BY DEF HostInv, RepositoryInv, TypeOK
  <2>3. Examples \subseteq DOMAIN published
    <3> SUFFICES ASSUME NEW n \in Examples PROVE n \in DOMAIN published
      OBVIOUS
    <3>1. PICK p \in (Selected \cup Extras) \cap DOMAIN Catalog : n \in Subpackages(flavor, Catalog[p])
      BY Zenon DEF Examples
    <3>2. DOMAIN plan[p].packages \subseteq DOMAIN published
      BY <2>1, <2>2, <3>1, BuiltFromPlan
    <3> QED
      BY <3>1, <3>2, PackageNames DEF NamesOf, RepositoryInv
  <2> QED
    BY <1>1, <1>3, <2>1, <2>2, <2>3, MetaNeeds
<1> QED
  BY <1>2, <1>3

LEMMA GoalInit == Init => GoalInv
<1> SUFFICES ASSUME Init PROVE GoalInv
  OBVIOUS
<1>1. DOMAIN published = {} /\ txn = {}
  BY DEF Init
<1> QED
  BY <1>1 DEF GoalInv

\* What meta-packages may list is known from the start.
LEMMA PromisesStay ==
    ASSUME UNCHANGED setup
    PROVE  UNCHANGED <<Selected, Extras, Examples>>
<1>1. UNCHANGED <<flavor, extras, plan>>
  BY DEF setup
<1>2. Selected' = Selected /\ Extras' = Extras
  BY <1>1 DEF Selected, Extras
<1>3. Examples' = Examples
  BY <1>1, <1>2, Zenon DEF Examples
<1> QED
  BY <1>2, <1>3

LEMMA SameMetasKeepGoal ==
    ASSUME GoalInv, UNCHANGED setup, goal' \in Metas \/ txn' \cap Metas = {},
           \A a \in DOMAIN published' \cap Metas :
              a \in DOMAIN published /\ published'[a] = published[a]
    PROVE  GoalInv'
BY PromisesStay DEF GoalInv

LEMMA MetaKeepsGoal == GoalInv /\ BuildMeta => GoalInv'
<1> SUFFICES ASSUME GoalInv, BuildMeta PROVE GoalInv'
  OBVIOUS
<1> DEFINE names == {FlavorMeta} \cup IF kind = "rpm" /\ Examples # {} THEN {ExamplesMeta} ELSE {}
           new == [n \in names |-> MetaPackage(IF n = FlavorMeta THEN MetaRequires ELSE Examples)]
<1>1. Publish(new)
  BY Zenon DEF BuildMeta
<1>2. UNCHANGED <<setup, goal, txn>>
  BY DEF BuildMeta
<1>3. \A S : StackNames(MetaPackage(S).requires) = S
  BY StackNamesOfStack DEF MetaPackage
<1>4. MetaRequires \subseteq Selected \cup Extras
  BY DEF MetaRequires
<1> HIDE DEF names
<1>5. ASSUME NEW a \in DOMAIN published' \cap Metas
      PROVE  StackNames(published'[a].requires) \subseteq Selected \cup Extras \cup Examples
  <2>1. CASE a \in names
    <3>1. published'[a] = MetaPackage(IF a = FlavorMeta THEN MetaRequires ELSE Examples)
      BY <1>1, <2>1 DEF Publish
    <3> QED
      BY <1>3, <1>4, <3>1
  <2>2. CASE a \notin names
    <3>1. a \in DOMAIN published /\ published'[a] = published[a]
      BY <1>1, <1>5, <2>2 DEF Publish
    <3> QED
      BY <1>5, <3>1 DEF GoalInv
  <2> QED
    BY <2>1, <2>2
<1> QED
  BY <1>2, <1>5, PromisesStay DEF GoalInv

LEMMA ResolveKeepsGoal ==
    SubpackagesAskForNoMore /\ RepositoryInv /\ HostInv /\ GoalInv /\ Resolve => GoalInv'
<1> SUFFICES ASSUME SubpackagesAskForNoMore, RepositoryInv, HostInv, GoalInv, Resolve PROVE GoalInv'
  OBVIOUS
<1>1. UNCHANGED <<setup, published, goal>> /\ txn' = txn \cup Missing /\ phase = "resolving"
  BY DEF Resolve
<1>2. ASSUME goal \notin Metas PROVE txn' \cap Metas = {}
  <2>1. \A a \in txn : Needs(a) \cap Metas = {}
    BY <1>1, <1>2, PublishedNeeds DEF GoalInv, RepositoryInv, TypeOK
  <2> QED
    BY <1>1, <1>2, <2>1, MissingIsNeeds DEF GoalInv
<1> QED
  BY <1>1, <1>2, SameMetasKeepGoal

LEMMA GoalStep ==
    SubpackagesAskForNoMore /\ RepositoryInv /\ HostInv /\ GoalInv /\ [Next]_vars => GoalInv'
<1> SUFFICES ASSUME SubpackagesAskForNoMore, RepositoryInv, HostInv, GoalInv, [Next]_vars PROVE GoalInv'
  OBVIOUS
<1>1. ASSUME NEW p \in DOMAIN Catalog, BuildNext(p) \/ BuildExtra(p) PROVE GoalInv'
  <2>1. \A a \in DOMAIN published' \cap Metas : a \in DOMAIN published /\ published'[a] = published[a]
    <3>1. /\ DOMAIN published' = DOMAIN published \cup DOMAIN plan[p].packages
          /\ \A a \in DOMAIN published : published'[a] = published[a]
      BY <1>1, BuildAdds
    <3>2. PlanInv
      BY DEF RepositoryInv
    <3>3. \A a \in DOMAIN plan[p].packages : a \notin Metas
      BY <3>2, OneRecipe
    <3> QED
      BY <3>1, <3>3
  <2> QED
    BY <1>1, <2>1, BuildAdds, SameMetasKeepGoal DEF GoalInv
<1>2. ASSUME NEW p \in DOMAIN Catalog, StopNext(p) \/ Install(p) PROVE GoalInv'
  BY <1>2, SameMetasKeepGoal DEF StopNext, Install, userVars, GoalInv
<1>3. ASSUME NEW g \in Goals, Request(g) PROVE GoalInv'
  BY <1>3, SameMetasKeepGoal DEF Request
<1>4. CASE Refuse \/ UNCHANGED vars
  BY <1>4, SameMetasKeepGoal DEF Refuse, vars, GoalInv
<1>5. CASE Unpack
  BY <1>5, UnpackStep, SameMetasKeepGoal DEF GoalInv
<1> QED
  BY <1>1, <1>2, <1>3, <1>4, <1>5, MetaKeepsGoal, ResolveKeepsGoal DEF Next

\* Where subpackages require no more than their recipe's build did, whatever a user
\* asks for can be installed, except that a meta-package waits for the recipes that
\* flavor.conf opts in: dnf and apt never meet a requirement nobody has published,
\* although those of a package and those of its build are derived apart.
THEOREM PublishedIsInstallable ==
    ASSUME SubpackagesAskForNoMore
    PROVE  Spec => RefusedOnlyForExtras
<1>1. RepositoryInv /\ HostInv /\ GoalInv /\ [Next]_vars => (RepositoryInv /\ HostInv /\ GoalInv)'
  BY SubpackagesAskForNoMore, RepositoryStep, HostStep, GoalStep
<1>2. Init => RepositoryInv /\ HostInv /\ GoalInv
  BY RepositoryInit, HostInit, GoalInit
<1>3. ASSUME RepositoryInv, HostInv, GoalInv, [Next]_vars, phase' = "refused", phase # "refused"
      PROVE  goal \in Metas /\ ~(Extras \subseteq DOMAIN published)
  <2>1. Refuse
    <3>1. ASSUME NEW p \in DOMAIN Catalog, BuildNext(p) \/ BuildExtra(p) PROVE phase' = phase
      BY <1>3, <3>1, BuildAdds
    <3>2. ASSUME NEW p \in DOMAIN Catalog, StopNext(p) \/ Install(p) PROVE phase' = phase
      BY <3>2 DEF StopNext, Install, userVars
    <3>3. ASSUME NEW g \in Goals, Request(g) PROVE phase' = "resolving"
      BY <3>3 DEF Request
    <3>4. BuildMeta => phase' = "idle"
      BY DEF BuildMeta
    <3>5. Resolve \/ UNCHANGED vars => phase' = phase
      BY DEF Resolve, vars
    <3>6. Unpack => phase' = "idle" \/ phase' = phase
      BY UnpackStep
    <3> QED
      BY <1>3, <3>1, <3>2, <3>3, <3>4, <3>5, <3>6 DEF Next
  <2>2. phase = "resolving" /\ ~(Missing \subseteq DOMAIN published)
    BY <2>1 DEF Refuse
  <2> QED
    BY <1>3, <2>2, SubpackagesAskForNoMore, NothingIsMissing
<1>4. RepositoryInv /\ HostInv /\ GoalInv /\ [Next]_vars =>
        [phase' = "refused" /\ phase # "refused"
           => goal \in Metas /\ ~(Extras \subseteq DOMAIN published)]_vars
  BY <1>3
<1> QED
  BY <1>1, <1>2, <1>4, PTL DEF Spec, RefusedOnlyForExtras

=============================================================================
