------------------------------ MODULE Recipes ------------------------------
(***************************************************************************)
(* What the recipes mean for a flavor: the names under which a flavor      *)
(* looks up keys, the recipes it selects, and the dependencies of a        *)
(* package.  Four pieces of code derive them, each in its own way: the     *)
(* loader of the build order, the registry and its dependency check, the   *)
(* rpm builder and the deb builder.                                        *)
(*                                                                         *)
(* Dependency lists are sets here (their order and repeats are the subject *)
(* of BuildOrder), and a plain list is the dictionary whose only key is    *)
(* "all".  A package of the stack required by name is <<"stack", n>>, a    *)
(* package of the operating system <<"host", n>>.                          *)
(***************************************************************************)
EXTENDS Integers, Sequences, FiniteSets

NoParent   == "no parent"      \* a flavor file without `inherits'
Everywhere == {"every flavor"} \* a recipe or subpackage without include_flavors

BuildOnlyDeps == {"cmake", "autoconf", "automake", "libtool", "pkg-config", "gklib"}
MetaExcluded  == {"gklib"}

Stack(names) == {<<"stack", n>> : n \in names}
Host(names)  == {<<"host", n>> : n \in names}

\* The packages of the stack among a set of requirements.
StackNames(reqs) == {r[2] : r \in {q \in reqs : q[1] = "stack"}}

-----------------------------------------------------------------------------
(* Flavor names and keys *)

\* The flavor, its parent, then the components of its name, the last one first.
\* `parts' is the name split at its hyphens.
FlavorNamesOf(name, inherits, parts) ==
    LET own == IF inherits = NoParent THEN <<name>> ELSE <<name, inherits>>
        last == Len(parts)
        IsFresh(part) == \A i \in DOMAIN own : own[i] # part
    IN  own \o SelectSeq([i \in 1 .. last |-> parts[last + 1 - i]], IsFresh)

FlavorNames(f) == FlavorNamesOf(f.name, f.inherits, f.parts)

IsNameOf(f, names) == \E i \in DOMAIN FlavorNames(f) : FlavorNames(f)[i] \in names

\* Only the first name that is a key counts, even if its entry is empty.
FirstKnown(names, mapping) ==
    LET known == {i \in DOMAIN names : names[i] \in DOMAIN mapping}
    IN  IF known = {} THEN {}
        ELSE mapping[names[CHOOSE i \in known : \A j \in known : i <= j]]

ResolveKey(f, mapping) == FirstKnown(FlavorNames(f), mapping)

Entry(mapping, key) == IF key \in DOMAIN mapping THEN mapping[key] ELSE {}

\* What a flavor-aware field lists for the flavor.
Listed(f, mapping) == Entry(mapping, "all") \cup ResolveKey(f, mapping)

\* should_build_package: the exclusion wins over the inclusion.
ShouldBuild(f, r) ==
    /\ ~IsNameOf(f, r.exclude_flavors)
    /\ r.include_flavors = Everywhere \/ IsNameOf(f, r.include_flavors)

\* The same decision in load_yaml_files, which reads the recipe files itself.
LoaderKeeps(f, r) ==
    /\ ~IsNameOf(f, r.exclude_flavors)
    /\ r.include_flavors = Everywhere \/ IsNameOf(f, r.include_flavors)

-----------------------------------------------------------------------------
(* Dependencies in the build order *)

ImplicitGcc(p, r) == IF r.bootstrap \/ p = "gcc" THEN {} ELSE {"gcc"}

InjectGcc(p, r) ==
    IF ImplicitGcc(p, r) = {} THEN r.requires
    ELSE [k \in DOMAIN r.requires \cup {"all"} |->
            Entry(r.requires, k) \cup IF k = "all" THEN {"gcc"} ELSE {}]

MklKeys == {"mkl", "intel", "gcc-mkl-cuda"}
MathKeys == {"macos", "debug", "gcc", "lbl"} \cup MklKeys

\* The math libraries load_yaml_files adds to the entry of one flavor key.
MathLibraries(p, r, key) ==
    LET blas == CASE key \in MklKeys        -> {}
                  [] key \in {"gcc", "lbl"} -> {"openblas"} \ {p}
                  [] key = "macos"          -> {"openblas", "lapack"} \ {p}
                  [] key = "debug"          ->
                        IF p = "lapack" THEN {} ELSE {"blas", "lapack"} \ {p}
    IN  blas \cup IF r.math = "parallel" THEN {"scalapack"} \ {p} ELSE {}

\* Every math key gets an entry, possibly an empty one, which then hides the
\* entries of the names that come after it.
InjectMath(p, r, requires) ==
    IF r.math \notin {"serial", "parallel", "true"} THEN requires
    ELSE [k \in DOMAIN requires \cup MathKeys |->
            Entry(requires, k) \cup IF k \in MathKeys THEN MathLibraries(p, r, k) ELSE {}]

LoaderRequires(p, r) == InjectMath(p, r, InjectGcc(p, r))

\* normalize_dependencies: the edges of p in the build order.
EffectiveDependencies(f, p, r) == Listed(f, LoaderRequires(p, r))

\* get_package_dependencies: what the registry and check_dependencies go by.
PackageDependencies(f, p, r) == ImplicitGcc(p, r) \cup Listed(f, r.requires)

-----------------------------------------------------------------------------
(* Requirements of an rpm *)

OwnEnvironment(p) == IF p = "environment" THEN {} ELSE Stack({"environment"})

\* The compilers a package built with the host's gcc needs from the host.
HostCompilers(r) == Host({"gcc", "gcc-c++"} \cup IF r.fortran THEN {"gcc-gfortran"} ELSE {})

HostTools == Host({"make", "git"})

\* Mutation: build tools are filtered from list-form dependencies only.
RpmRuntimeWithTools(names) == Stack(names)

RpmRuntime(names) == Stack(names \ BuildOnlyDeps)

\* Mutation: packages with serial math bring their BLAS themselves.
RpmMathParallelOnly(f, r) ==
    IF r.math # "parallel" THEN {}
    ELSE Stack({"scalapack"}) \cup IF f.linalg = "openblas" THEN Stack({"openblas"})
                                  ELSE IF f.linalg = "lapack" THEN Stack({"blas", "lapack"}) ELSE {}

RpmMath(f, r) ==
    LET scalapack == IF r.math = "parallel" THEN Stack({"scalapack"}) ELSE {}
        mkl == Host({"intel-oneapi-mkl", "intel-oneapi-mkl-devel"})
    IN  IF r.math \notin {"serial", "parallel"} THEN {}
        ELSE IF f.linalg = "mkl" THEN mkl \cup scalapack
        ELSE IF f.linalg = "openblas" THEN Stack({"openblas"}) \cup scalapack
        ELSE IF f.linalg \in {"reference", "lapack"} THEN Stack({"blas", "lapack"}) \cup scalapack
        ELSE {}

\* get_rpm_requires: BuildRequires, Requires and Requires(pre).
RpmRequires(f, p, r) ==
    LET shared == RpmMath(f, r) \cup IF r.mpi THEN Stack({"openmpi"}) ELSE {}
        listed == Listed(f, r.requires)
    IN  [build |-> Host(Listed(f, r.rpm_build_requires)) \cup HostTools
                     \cup (IF r.bootstrap /\ f.bootstrap_gcc THEN HostCompilers(r) ELSE {})
                     \cup Stack(listed) \cup shared,
         run   |-> Host(Listed(f, r.rpm_requires)) \cup RpmRuntime(listed)
                     \cup shared \cup OwnEnvironment(p),
         pre   |-> OwnEnvironment(p)]

-----------------------------------------------------------------------------
(* Requirements of a deb *)

\* _translate_system_deps: the host's names become Debian's, some several, some
\* none; a name that is not in the map is an error.
Translate(names, system_map) ==
    {q \in names : q[1] = "stack"}
        \cup UNION {Host(system_map[q[2]]) : q \in {x \in names : x[1] = "host"}}

IsTranslated(names, system_map) ==
    \A q \in names : q[1] = "host" => q[2] \in DOMAIN system_map

RecipeSystemDeps(f, r) ==
    [build |-> Host(Listed(f, r.rpm_build_requires)), run |-> Host(Listed(f, r.rpm_requires))]

BuildsOwnGcc(f, recipes) ==
    "gcc" \in DOMAIN recipes /\ ShouldBuild(f, recipes["gcc"])

AutoSystemDeps(f, r, recipes) ==
    LET hosted == IF r.bootstrap THEN f.bootstrap_gcc ELSE ~BuildsOwnGcc(f, recipes)
    IN  HostTools \cup IF hosted THEN HostCompilers(r) ELSE {}

\* Mutation: ScaLAPACK is required with the stack's own BLAS only.
MathAndMpiWithoutMklScalapack(f, r) ==
    LET blas == [mkl       |-> Host({"intel-oneapi-mkl", "intel-oneapi-mkl-devel"}),
                 openblas  |-> Stack({"openblas", "scalapack"}),
                 reference |-> Stack({"blas", "lapack", "scalapack"}),
                 lapack    |-> Stack({"blas", "lapack", "scalapack"})]
        math == IF r.math \in {"serial", "parallel"} THEN Entry(blas, f.linalg) ELSE {}
    IN  IF r.math = "serial" THEN math \ Stack({"scalapack"}) ELSE math

\* _collect_math_and_mpi_deps: for building and for running alike.
MathAndMpiDeps(f, r) ==
    LET blas == [mkl       |-> Host({"intel-oneapi-mkl", "intel-oneapi-mkl-devel"}),
                 openblas  |-> Stack({"openblas"}),
                 reference |-> Stack({"blas", "lapack"}),
                 lapack    |-> Stack({"blas", "lapack"})]
    IN  (IF r.math \in {"serial", "parallel"} THEN Entry(blas, f.linalg) ELSE {})
          \cup (IF r.math = "parallel" /\ f.linalg \in DOMAIN blas
                THEN Stack({"scalapack"}) ELSE {})
          \cup (IF r.mpi THEN Stack({"openmpi"}) ELSE {})

RecipeStackDeps(f, r) ==
    LET listed == Listed(f, r.requires)
    IN  [build |-> Stack(listed), run |-> Stack(listed \ BuildOnlyDeps)]

\* get_deb_depends before the translation.
DebDepends(f, r, recipes) ==
    [build |-> RecipeSystemDeps(f, r).build \cup AutoSystemDeps(f, r, recipes)
                 \cup MathAndMpiDeps(f, r) \cup RecipeStackDeps(f, r).build,
     run   |-> RecipeSystemDeps(f, r).run \cup MathAndMpiDeps(f, r)
                 \cup RecipeStackDeps(f, r).run]

-----------------------------------------------------------------------------
(* Binary packages: the main one and the subpackages *)

\* get_subpackages_for_flavor
Subpackages(f, r) ==
    {s \in DOMAIN r.subpackages :
        \/ r.subpackages[s].include_flavors = Everywhere
        \/ IsNameOf(f, r.subpackages[s].include_flavors)}

\* get_subpackage_dependencies
SubpackageDeps(f, r, s) == Listed(f, r.subpackages[s].requires)

\* What neither builder requires: the dependencies of a subpackage named like
\* the recipe, whose files stay in the main package.
LeftOut(f, p, r) == IF p \in Subpackages(f, r) THEN SubpackageDeps(f, r, p) ELSE {}

\* Mutation: a package asks for everything it requires before it is unpacked.
RpmPackagesAllFirst(f, p, r) ==
    [n \in {p} \cup Subpackages(f, r) |->
       LET needs == IF n = p THEN RpmRequires(f, p, r).run
                    ELSE Stack(SubpackageDeps(f, r, n)) \cup Stack({"environment"})
       IN  [requires |-> needs, pre |-> needs]]

\* Mutation: subpackages do not wait for the environment package.
RpmPackagesSubsUnordered(f, p, r) ==
    [n \in {p} \cup Subpackages(f, r) |->
       IF n = p
       THEN [requires |-> RpmRequires(f, p, r).run, pre |-> RpmRequires(f, p, r).pre]
       ELSE [requires |-> Stack(SubpackageDeps(f, r, n)) \cup Stack({"environment"}),
             pre |-> {}]]

\* generate_spec and get_subpackages_for_spec
RpmPackages(f, p, r) ==
    [n \in {p} \cup Subpackages(f, r) |->
       IF n = p
       THEN [requires |-> RpmRequires(f, p, r).run, pre |-> RpmRequires(f, p, r).pre]
       ELSE [requires |-> Stack(SubpackageDeps(f, r, n)) \cup Stack({"environment"}),
             pre |-> Stack({"environment"})]]

\* Mutation: the environment package waits for itself.
DebPackagesNoException(f, p, r, recipes, system_map) ==
    [n \in {p} \cup Subpackages(f, r) |->
       [requires |-> Stack({"environment"})
                       \cup IF n = p THEN Translate(DebDepends(f, r, recipes).run, system_map)
                            ELSE Stack(SubpackageDeps(f, r, n)),
        pre |-> Stack({"environment"})]]

\* _binary_packages
DebPackages(f, p, r, recipes, system_map) ==
    [n \in {p} \cup Subpackages(f, r) |->
       LET env == IF n = p THEN OwnEnvironment(p) ELSE Stack({"environment"})
       IN  [requires |-> env \cup IF n = p
                                  THEN Translate(DebDepends(f, r, recipes).run, system_map)
                                  ELSE Stack(SubpackageDeps(f, r, n)),
            pre |-> env]]
=============================================================================
