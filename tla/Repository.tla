----------------------------- MODULE Repository -----------------------------
(***************************************************************************)
(* From the recipes to a user's machine: one flavor is built package by    *)
(* package on a build host, each build installed before the next begins,   *)
(* the meta-packages follow, and a user installs from the result with dnf  *)
(* or apt.                                                                 *)
(*                                                                         *)
(* Four parts of the code derive the dependencies of the same recipe (see  *)
(* Recipes) and each is used at another moment: the order by `build next', *)
(* BuildRequires or the registry check when a build starts, Requires and   *)
(* Requires(pre) on the user's machine.  A fifth decides what a package is *)
(* linked with (see BuildSettings).  This module runs them against each    *)
(* other.                                                                  *)
(***************************************************************************)
EXTENDS BuildSettings

CONSTANTS
    Catalog,      \* recipes/*.yaml: a function from names to recipes
    Flavors,      \* the flavors that may be built
    ExtraSets,    \* values extra_packages may have in flavor.conf
    SystemMap,    \* the deb builder's names for packages of the host
    ExampleNames, \* the subpackages whose name ends in -examples
    Goals         \* what users ask dnf or apt for

ASSUME FlavorsAssumption == \A f \in Flavors : FlavorFields \subseteq DOMAIN f

\* Users do not ask for internal packages, and no subpackage requires one.
ASSUME InternalAssumption ==
    /\ (Goals \cup ExampleNames) \cap MetaExcluded = {}
    /\ \A f \in Flavors, p \in DOMAIN Catalog : \A s \in DOMAIN Catalog[p].subpackages :
          SubpackageDeps(f, Catalog[p], s) \cap MetaExcluded = {}

VARIABLES
    flavor, extras, \* the flavor being built, and flavor.conf
    kind,           \* the builder: "rpm" or "deb"
    plan,           \* what that builder makes of each recipe, see Plan
    published,      \* the binary packages: name -> what it requires
    host,           \* the names installed on the build host
    stopped,        \* recipes whose last build did not start or link
    phase,          \* "building", then the user: "idle", "resolving", ...
    goal, txn,      \* what the user asked for, and what must be unpacked for it
    user,           \* the names installed on the user's machine
    lib             \* the user's <prefix>/lib: "none", a "link", or a "dir"

setup == <<flavor, extras, kind, plan>>
vars == <<setup, published, host, stopped, phase, goal, txn, user, lib>>
userVars == <<phase, goal, txn, user, lib>>

FlavorMeta == "_meta"
ExamplesMeta == "examples"
Metas == {FlavorMeta, ExamplesMeta}
Environment == "environment"

\* The names a recipe's binary packages have.
NamesOf(f, p) == {p} \cup Subpackages(f, Catalog[p])

\* No two recipes of recipes/ produce a package of the same name, and none that
\* of a meta-package.
ASSUME NamesAssumption ==
    \A f \in Flavors, p \in DOMAIN Catalog :
        /\ NamesOf(f, p) \cap Metas = {}
        /\ \A q \in DOMAIN Catalog \ {p} : NamesOf(f, p) \cap NamesOf(f, q) = {}

Selected == {p \in DOMAIN plan : plan[p].selected}

\* The recipes extra_packages opts in.
Extras == extras \ Selected

Builders == {"rpm", "deb"}

\* The recipes load_yaml_files keeps for a flavor.
Kept(f) == {p \in DOMAIN Catalog : LoaderKeeps(f, Catalog[p])}

-----------------------------------------------------------------------------
(* What a builder makes of a recipe *)

Rpm(f, p) == RpmRequires(f, p, Catalog[p])
Deb(f, p) == DebDepends(f, Catalog[p], Catalog)

\* check_dependencies: a dependency outside the flavor comes from the host.
CheckedDependencies(f, opted, p) ==
    {d \in PackageDependencies(f, p, Catalog[p]) \cap DOMAIN Catalog :
        ShouldBuild(f, Catalog[d]) \/ d \in opted}

\* What must be on the host before p compiles: rpmbuild insists on its
\* BuildRequires; the deb builder checks the registry, and what it declares as
\* Build-Depends has to be there when the build links.
BuildNeeds(f, k, opted, p) ==
    IF k = "rpm" THEN StackNames(Rpm(f, p).build)
    ELSE CheckedDependencies(f, opted, p) \cup StackNames(Deb(f, p).build)

\* A host package without a Debian name fails the deb builder.
Describable(f, k, p) ==
    k = "deb" => IsTranslated(Deb(f, p).build \cup Deb(f, p).run, SystemMap)

\* The binary packages of a recipe.
BinaryPackages(f, k, p) ==
    IF k = "rpm" THEN RpmPackages(f, p, Catalog[p])
    ELSE DebPackages(f, p, Catalog[p], Catalog, SystemMap)

\* For each recipe: whether the flavor selects it, what precedes it in the order,
\* whether its build can start and what it needs then, the packages it results
\* in and the libraries these are linked with.
Plan(f, k, opted) ==
    [p \in DOMAIN Catalog |->
        [selected |-> p \in Kept(f),
         after    |-> EffectiveDependencies(f, p, Catalog[p]) \cap Kept(f),
         starts   |-> Configurable(k, f, Catalog[p]) /\ Describable(f, k, p),
         needs    |-> BuildNeeds(f, k, opted, p),
         packages |-> BinaryPackages(f, k, p),
         links    |-> Settings(k, f, Catalog[p]).libs]]

-----------------------------------------------------------------------------
(* The build host *)

BuildSucceeds(p) == plan[p].starts /\ plan[p].needs \subseteq host

\* Mutation: dependencies that the builders add on their own are no edges.
ReadyByRequires(p) ==
    /\ p \in Selected \ DOMAIN published
    /\ Selected \cap DOMAIN published \subseteq host
    /\ Listed(flavor, Catalog[p].requires) \cap Selected \subseteq host
    /\ stopped \subseteq {p}
    /\ p # Environment => Environment \in host

\* Mutation: a name whose build was refused is not the next one again.
ReadyOnce(p) ==
    /\ p \in Selected \ DOMAIN published
    /\ Selected \cap DOMAIN published \subseteq host
    /\ plan[p].after \subseteq host
    /\ stopped = {}
    /\ p # Environment => Environment \in host

\* `build next': the names before p in the order are built and installed, and a
\* name whose build was refused is the next one again.
Ready(p) ==
    /\ p \in Selected \ DOMAIN published
    /\ Selected \cap DOMAIN published \subseteq host
    /\ plan[p].after \subseteq host
    /\ stopped \subseteq {p}
    /\ p # Environment => Environment \in host

\* A package written again replaces the one of that name.
Publish(new) ==
    published' = [a \in DOMAIN published \cup DOMAIN new |->
                    IF a \in DOMAIN new THEN new[a] ELSE published[a]]

Produce(p) ==
    /\ Publish(plan[p].packages)
    /\ stopped' = stopped \ {p}
    /\ UNCHANGED <<setup, host, userVars>>

BuildNext(p) == phase = "building" /\ Ready(p) /\ BuildSucceeds(p) /\ Produce(p)

StopNext(p) ==
    /\ phase = "building" /\ Ready(p) /\ ~BuildSucceeds(p)
    /\ stopped' = stopped \cup {p}
    /\ UNCHANGED <<setup, published, host, userVars>>

\* `scls build <p>' of a recipe flavor.conf opts in (require_buildable).
BuildExtra(p) ==
    /\ p \in Extras \ DOMAIN published
    /\ BuildSucceeds(p)
    /\ Produce(p)

\* install_rpm, install_deb: the package with its subpackages, in one
\* transaction.
Install(p) ==
    LET names == DOMAIN plan[p].packages
        needs == UNION {StackNames(published[n].requires) : n \in names}
    IN  /\ p \in DOMAIN published \ host
        /\ needs \subseteq host \cup names
        /\ host' = host \cup names
        /\ UNCHANGED <<setup, published, stopped, userVars>>

\* Mutation: the recipes of other flavors are listed as well.
MetaRequiresAllRecipes == DOMAIN Catalog \ MetaExcluded

\* get_flavor_package_list and read_extra_packages, without META_EXCLUDED.
MetaRequires == (Selected \cup Extras) \ MetaExcluded

\* _discover_example_subpackages, which skips names without a recipe
Examples ==
    LET recipes == (Selected \cup Extras) \cap DOMAIN Catalog
    IN  ExampleNames \cap UNION {Subpackages(flavor, Catalog[p]) : p \in recipes}

MetaPackage(names) == [requires |-> Stack(names), pre |-> {}]

\* build_flavor_meta_package, the last name of the order; the rpm builder adds
\* a meta-package of the examples, if there are any.
BuildMeta ==
    /\ phase = "building"
    /\ Selected \subseteq host
    /\ LET names == {FlavorMeta} \cup IF kind = "rpm" /\ Examples # {} THEN {ExamplesMeta} ELSE {}
       IN  Publish([n \in names |-> MetaPackage(IF n = FlavorMeta THEN MetaRequires ELSE Examples)])
    /\ phase' = "idle"
    /\ UNCHANGED <<setup, host, stopped, goal, txn, user, lib>>

-----------------------------------------------------------------------------
(* The user's machine: dnf and apt as the comments of the builders have them *)

Missing == (UNION {StackNames(published[a].requires \cup published[a].pre) : a \in txn})
             \ (txn \cup user)

Request(g) ==
    /\ phase \in {"idle", "refused"}
    /\ g \in DOMAIN published \ user
    /\ goal' = g /\ txn' = {g} /\ phase' = "resolving"
    /\ UNCHANGED <<setup, published, host, stopped, user, lib>>

Resolve ==
    /\ phase = "resolving" /\ Missing # {} /\ Missing \subseteq DOMAIN published
    /\ txn' = txn \cup Missing
    /\ UNCHANGED <<setup, published, host, stopped, phase, goal, user, lib>>

Refuse ==
    /\ phase = "resolving" /\ ~(Missing \subseteq DOMAIN published)
    /\ phase' = "refused"
    /\ UNCHANGED <<setup, published, host, stopped, goal, txn, user, lib>>

\* Only Requires(pre) and Pre-Depends order a transaction: what waits for nothing
\* comes in any order, and what matters of that order is who brings the first
\* files (a meta-package has none).
Unpack ==
    LET ready == {a \in txn \ user : StackNames(published[a].pre) \subseteq user}
    IN  /\ phase = "resolving" /\ Missing = {} /\ ready # {}
        /\ user' = user \cup ready
        /\ \/ lib' = lib /\ (lib # "none" \/ ready \subseteq Metas)
           \/ \E first \in ready \ Metas :
                 lib = "none" /\ lib' = IF first = Environment THEN "link" ELSE "dir"
        /\ phase' = IF txn \subseteq user' THEN "idle" ELSE phase
        /\ UNCHANGED <<setup, published, host, stopped, goal, txn>>

-----------------------------------------------------------------------------
Init ==
    /\ flavor \in Flavors /\ extras \in ExtraSets /\ kind \in Builders
    /\ plan = Plan(flavor, kind, extras)
    /\ published = <<>> /\ host = {} /\ stopped = {}
    /\ phase = "building" /\ goal = FlavorMeta /\ txn = {} /\ user = {} /\ lib = "none"

Next ==
    \/ \E p \in DOMAIN Catalog : BuildNext(p) \/ StopNext(p) \/ BuildExtra(p) \/ Install(p)
    \/ BuildMeta
    \/ \E g \in Goals : Request(g)
    \/ Resolve \/ Refuse \/ Unpack

\* The operator repeats `build next' and builds the recipes opted in; a package
\* manager that has begun a transaction carries it through.
Fairness ==
    /\ WF_vars(\E p \in DOMAIN Catalog : BuildNext(p) \/ Install(p))
    /\ WF_vars(\E p \in DOMAIN Catalog : BuildExtra(p))
    /\ WF_vars(BuildMeta)
    /\ WF_vars(Resolve \/ Refuse \/ Unpack)

Spec == Init /\ [][Next]_vars /\ Fairness

-----------------------------------------------------------------------------
\* The variables stay in their sets.
TypeOK ==
    /\ flavor \in Flavors /\ extras \in ExtraSets /\ kind \in Builders
    /\ DOMAIN plan = DOMAIN Catalog
    /\ \A a \in DOMAIN published :
          published[a].pre \in SUBSET Stack({Environment}) /\ DOMAIN published[a] = {"requires", "pre"}
    /\ host \subseteq DOMAIN published /\ stopped \subseteq DOMAIN Catalog
    /\ phase \in {"building", "idle", "resolving", "refused"}
    /\ goal \in Goals \cup {FlavorMeta}
    /\ txn \subseteq DOMAIN published /\ user \subseteq DOMAIN published
    /\ lib \in {"none", "link", "dir"}

\* "The DEB equivalent of rpm_builder's BuildRequires / Requires": for every
\* recipe of the flavor the deb builder derives the requirements of the rpm
\* builder, with the host's packages under their Debian names.  Building, it adds
\* the host's compilers to packages outside the bootstrap where the flavor has no
\* gcc of its own.
DebIsTranslatedRpm ==
    published = <<>> =>
      \A p \in Selected :
        LET hosted == IF Catalog[p].bootstrap \/ "gcc" \in Selected
                      THEN {} ELSE HostCompilers(Catalog[p])
            rpm == Rpm(flavor, p)
            deb == Deb(flavor, p)
        IN  /\ Translate(deb.run, SystemMap) \cup OwnEnvironment(p) = Translate(rpm.run, SystemMap)
            /\ Translate(deb.build, SystemMap) = Translate(rpm.build \cup hosted, SystemMap)
            /\ BinaryPackages(flavor, "deb", p)[p].pre = rpm.pre

\* The recipes of a flavor say themselves what they link.
RecipesNameTheirMath ==
    \A f \in Flavors :
        /\ IsUniform(f)
        /\ \A p \in Kept(f) :
              Configurable("rpm", f, Catalog[p]) => NamesItsMath(f, Catalog[p])

\* "Renders the same configure line on every builder": for every recipe of the
\* flavor the rpm and the deb builder start or refuse the build alike, and give
\* it the same compilers, the same OpenMP flag, the same arguments and the same
\* libraries.  One exception: `custom' recipes get the arguments of the integer
\* interface (--with-64-bit-blas-indices) from the rpm builder only.
BuildersAgree ==
    published = <<>> =>
      \A p \in Selected :
        LET rpm == Settings("rpm", flavor, Catalog[p])
            deb == Settings("deb", flavor, Catalog[p])
            interface == IF Catalog[p].type = "custom"
                         THEN ArgsOf(InterfaceArgs(flavor, Catalog[p])) ELSE {}
            starts == [k \in Builders |-> Configurable(k, flavor, Catalog[p])]
        IN  /\ starts["rpm"] <=> starts["deb"]
            /\ starts["rpm"] => /\ rpm.compilers = deb.compilers
                                /\ rpm.openmp = deb.openmp
                                /\ rpm.libs = deb.libs
                                /\ rpm.args = deb.args \cup interface

Layers     == {"mkl_sequential", "mkl_gnu_thread", "mkl_intel_thread"}
Interfaces == {"mkl_gf_lp64", "mkl_gf_ilp64", "mkl_intel_lp64", "mkl_intel_ilp64"}
Runtimes   == {"gomp", "omp", "iomp5"}
BlasLibs   == {"openblas", "blas", "mkl_core", "Accelerate"}
MklParts   == Layers \cup Interfaces \cup {"mkl_core"}

\* doc/MKL_ABI_POLICY.md, scripts/check_mkl_linkage.sh: "a per-package check
\* cannot see a per-flavor invariant".  Over all that has been built for the
\* flavor there is one MKL threading layer, one interface, one OpenMP runtime
\* and one BLAS; and what links any of MKL links all four of its parts itself.
OneThreadingModel ==
    LET built == DOMAIN published \cap DOMAIN Catalog
        all == UNION {plan[p].links : p \in built}
    IN  /\ \A group \in {Layers, Interfaces, Runtimes, BlasLibs} : Cardinality(all \cap group) <= 1
        /\ \A p \in built : plan[p].links \cap MklParts # {} =>
              \A group \in {Layers, Interfaces, {"mkl_core"}, Runtimes} :
                 \/ plan[p].links \cap group # {}
                 \/ group = Runtimes /\ flavor.threading = "sequential"

\* The packages the stack's shared math and MPI libraries come in.
StackLibraries ==
    [openblas |-> "openblas", blas |-> "blas", lapack |-> "lapack",
     scalapack |-> "scalapack", mpi |-> "openmpi"]

\* The packages a recipe declares by its keys `math', `mpi' and `requires'.
Declared(f, p, r) ==
    {p} \cup (Listed(f, r.requires) \ BuildOnlyDeps)
      \cup (IF ~MathOn(r) THEN {}
            ELSE IF f.linalg = "openblas" THEN {"openblas"}
            ELSE IF f.linalg \in {"reference", "lapack"} THEN {"blas", "lapack"} ELSE {})
      \cup (IF r.math = "parallel" THEN {"scalapack"} ELSE {})
      \cup (IF r.mpi THEN {"openmpi"} ELSE {})

\* The arguments that are not the builders'.
OwnArgs(f, r) == RecipeArgs(f, r) \cup InterfaceArgs(f, r) \cup f.configure_flags

\* The BLAS a flavor is built on.
FlavorBlas(f) ==
    CASE f.linalg = "mkl"        -> "mkl_core"
      [] f.linalg = "accelerate" -> "Accelerate"
      [] f.linalg = "openblas"   -> "openblas"
      [] OTHER                   -> "blas"

\* No part of MKL, and no BLAS or OpenMP runtime but the flavor's.
FitsFlavor(f, l) ==
    /\ l \notin MklParts
    /\ l \in Runtimes => l = OpenmpRuntime(f)
    /\ Provided(f, {l}) \cap BlasLibs \subseteq {FlavorBlas(f)}

\* Recipes that get to be built leave MKL to the builders' placeholders, and those
\* of MKL to MKL flavors.  There cmake recipes, which get all of MKL anyway, may
\* repeat parts of it (armadillo does).
RecipesLeaveMklToBuilders ==
    \A f \in Flavors, p \in DOMAIN Catalog :
        LET r == Catalog[p]
        IN  (\E k \in Builders : Configurable(k, f, r)) =>
              /\ OneFamily(f) /\ DOMAIN f.compilers = DOMAIN Wrappers
              /\ InterfaceLib(f) \in Interfaces
              /\ r.type = "generated" => ~r.openmp
              /\ r.type = "custom_makefile" => f.linalg # "accelerate"
              /\ \A a \in OwnArgs(f, r) :
                    /\ a[1] = "lib" =>
                          \/ FitsFlavor(f, a[2])
                          \/ f.linalg = "mkl" /\ r.type = "cmake" /\ a[2] \in MklLine(f, TRUE)
                    /\ a[1] = "macro" =>
                          /\ a[2] \in Placeholders
                          /\ a[2] \in {"mkl_linker_flags", "mkl_mpi_linker_flags"}
                                => f.linalg = "mkl"

\* The libraries those name; the placeholder of a parallel MKL line stands for the
\* stack's ScaLAPACK as well.
NamedLibs(f, r) ==
    {a[2] : a \in {x \in OwnArgs(f, r) : x[1] = "lib"}}
      \cup IF \E a \in OwnArgs(f, r) : a[1] = "macro" /\ a[2] = "mkl_mpi_linker_flags"
           THEN {"scalapack"} ELSE {}

\* Recipes that get to be built declare the packages they name libraries of, or
\* list them where the builders do not look.
RecipesDeclareTheirLinks ==
    \A f \in Flavors, p \in DOMAIN Catalog :
        LET r == Catalog[p]
        IN  (\E k \in Builders : Configurable(k, f, r)) =>
              /\ MathOn(r) => f.linalg \in {"mkl", "openblas", "reference", "lapack"}
              /\ \A x \in {"mkl_gf_", "mkl_intel_"} : x \o f.interface \notin DOMAIN StackLibraries
              /\ \A a \in OwnArgs(f, r) : a[1] = "macro" => a[2] \in Placeholders
              /\ r.type = "custom_makefile" =>
                    MathOn(r) /\ (f.linalg = "mkl" => r.math = "parallel")
              /\ \A l \in Provided(f, NamedLibs(f, r)) \cap DOMAIN StackLibraries :
                    StackLibraries[l] \in Declared(f, p, r) \cup LeftOut(f, p, r)

\* Requirements are not derived from what objects link (AutoReqProv is off), yet
\* whatever a user has installed when a transaction is over, the libraries of
\* the stack that its main packages were linked with are installed as well.  The
\* only ones that may be missing are those listed under a subpackage named like
\* the recipe, which both builders skip: "scls-<F>-lapack does not require
\* scls-<F>-blas, although liblapack.so.3 NEEDs libblas.so.3"
\* (todo/backlog.md:78).
LinkedIsInstalled ==
    phase = "idle" =>
        \A p \in user \cap DOMAIN Catalog :
            \A l \in plan[p].links \cap DOMAIN StackLibraries :
                StackLibraries[l] \in user \cup LeftOut(flavor, p, Catalog[p])

\* The key under which the loader finds a flavor's entry.
FirstKeys(f, mapping) ==
    LET names == FlavorNames(f)
        known == {i \in DOMAIN names : names[i] \in DOMAIN mapping}
    IN  {names[i] : i \in {j \in known : \A k \in known : j <= k}}

\* The keys whose injected libraries are those of the flavor's `linalg'.
KeysFor(f) ==
    CASE f.linalg = "openblas"                -> {"gcc", "lbl", "macos"}
      [] f.linalg \in {"reference", "lapack"} -> {"debug"}
      [] OTHER                                -> MathKeys

\* Recipes list what their flavor builds or flavor.conf may opt in.  What the
\* loader's entries hide of it, a package before them in the order lists too, as
\* with openmpi.  The math libraries are keyed by flavor names that mean the same
\* as `linalg', and come from recipes the flavor builds.
RecipesOrderTheirNeeds ==
    \A f \in Flavors : \A p \in Kept(f) :
        LET r == Catalog[p]
            before == EffectiveDependencies(f, p, r) \cap Kept(f)
            listed == Listed(f, r.requires)
            math == StackNames(RpmMath(f, r))
        IN  (\E k \in Builders : Configurable(k, f, r)) =>
              /\ Describable(f, "deb", p)
              /\ \A opted \in ExtraSets : listed \subseteq Kept(f) \cup (opted \cap DOMAIN Catalog)
              /\ listed \cap Kept(f) \subseteq
                    before \cup UNION {Listed(f, Catalog[q].requires) : q \in before}
              /\ r.mpi => \E q \in before : q = "openmpi" \/ Catalog[q].mpi
              /\ math # {} => LET keys == FirstKeys(f, LoaderRequires(p, r))
                              IN  keys # {} /\ keys \subseteq KeysFor(f)
              /\ p \notin math
              /\ \A n \in math : \E q \in math \cap Kept(f) : n \in NamesOf(f, q)

\* The order of the builds, from one reading of the recipes, is enough for what
\* the builders demand from another: a build next in turn is only ever stopped
\* by a recipe that extra_packages opts in and nobody has built yet, or because
\* math_common rejects the flavor.
StopsOnlyForExtras ==
    [][\A p \in stopped' \ stopped :
          Configurable(kind, flavor, Catalog[p]) =>
             (CheckedDependencies(flavor, extras, p) \cap Extras) \ host # {}]_vars

\* A subpackage requires what its recipe's build did, or its siblings.
SubpackagesAskForNoMore ==
    \A f \in Flavors :
        /\ Environment \in Kept(f)
        /\ \A p \in DOMAIN Catalog : \A s \in Subpackages(f, Catalog[p]) \ {p} :
              SubpackageDeps(f, Catalog[p], s) \subseteq NamesOf(f, p) \cup StackNames(Rpm(f, p).build)

\* A published package can be installed: the user is only refused a meta-package
\* while a recipe that it lists from extra_packages is not built.
RefusedOnlyForExtras ==
    [][phase' = "refused" /\ phase # "refused"
         => goal \in Metas /\ ~(Extras \subseteq DOMAIN published)]_vars

\* Whatever the user asks for, and in whatever order dnf or apt unpack it, no
\* package creates <prefix>/lib before environment has made it a link.
LayoutFirst == lib # "dir"

\* META_EXCLUDED packages are "not part of what a user gets": neither the
\* meta-package nor the requirements of any other package bring one in.
InternalStaysOnHost == txn \cap MetaExcluded = {}

\* Every transaction that begins ends, installed or refused: Requires(pre) and
\* Pre-Depends leave an order in which everything can be unpacked.
TransactionEnds == phase = "resolving" ~> phase # "resolving"

\* `build next', repeated, builds and installs the whole stack of a flavor that
\* math_common accepts, and its meta-package; nothing in it waits for something
\* that comes later.
StackIsBuilt ==
    CompilerFamily(flavor) # Unknown /\ ThreadingAgrees(flavor)
        => <>(Selected \subseteq host /\ FlavorMeta \in DOMAIN published)
=============================================================================
