---------------------------- MODULE RecipesProofs ----------------------------
(***************************************************************************)
(* What the two package builders derive from one recipe, for every recipe, *)
(* flavor and set of recipes: the same requirements, on their own code     *)
(* paths.                                                                  *)
(***************************************************************************)
EXTENDS BuildSettings, TLAPS

-----------------------------------------------------------------------------
\* The names of packages of the stack are the same on every host.
LEMMA TranslateStack ==
    ASSUME NEW S, NEW system_map
    PROVE  Translate(Stack(S), system_map) = Stack(S)
<1>1. \A q \in Stack(S) : q[1] = "stack"
  BY DEF Stack
<1>2. {q \in Stack(S) : q[1] = "stack"} = Stack(S)
  BY <1>1
<1>3. {x \in Stack(S) : x[1] = "host"} = {}
  BY <1>1
<1>4. UNION {Host(system_map[q[2]]) : q \in {x \in Stack(S) : x[1] = "host"}} = {}
  BY <1>3
<1> QED
  BY <1>2, <1>4 DEF Translate

\* A requirement is translated whatever it is listed with.
LEMMA TranslateUnion ==
    ASSUME NEW A, NEW B, NEW system_map
    PROVE  Translate(A \cup B, system_map) = Translate(A, system_map) \cup Translate(B, system_map)
<1>1. ASSUME NEW q \in Translate(A \cup B, system_map)
      PROVE  q \in Translate(A, system_map) \cup Translate(B, system_map)
  <2>1. CASE q \in A \cup B /\ q[1] = "stack"
    BY <2>1 DEF Translate
  <2>2. CASE \E x \in A \cup B : x[1] = "host" /\ q \in Host(system_map[x[2]])
    BY <2>2 DEF Translate
  <2> QED
    BY <1>1, <2>1, <2>2 DEF Translate
<1>2. ASSUME NEW q \in Translate(A, system_map) \cup Translate(B, system_map)
      PROVE  q \in Translate(A \cup B, system_map)
  BY <1>2 DEF Translate
<1> QED
  BY <1>1, <1>2

\* get_rpm_requires and _collect_math_and_mpi_deps choose the same math and MPI
\* packages.
LEMMA SameMathAndMpi ==
    ASSUME NEW f, NEW r
    PROVE  RpmMath(f, r) \cup (IF r.mpi THEN Stack({"openmpi"}) ELSE {}) = MathAndMpiDeps(f, r)
<1> DEFINE M == Host({"intel-oneapi-mkl", "intel-oneapi-mkl-devel"})
           B == Stack({"openblas"})
           L == Stack({"blas", "lapack"})
           S == Stack({"scalapack"})
           mpi == IF r.mpi THEN Stack({"openmpi"}) ELSE {}
           blas == [mkl |-> M, openblas |-> B, reference |-> L, lapack |-> L]
           own == IF r.math \in {"serial", "parallel"} THEN Entry(blas, f.linalg) ELSE {}
           scalapack == IF r.math = "parallel" /\ f.linalg \in DOMAIN blas THEN S ELSE {}
<1>1. MathAndMpiDeps(f, r) = own \cup scalapack \cup mpi
  BY Zenon DEF MathAndMpiDeps
<1>2. RpmMath(f, r) =
        IF r.math \notin {"serial", "parallel"} THEN {}
        ELSE IF f.linalg = "mkl" THEN M \cup (IF r.math = "parallel" THEN S ELSE {})
        ELSE IF f.linalg = "openblas" THEN B \cup (IF r.math = "parallel" THEN S ELSE {})
        ELSE IF f.linalg \in {"reference", "lapack"} THEN L \cup (IF r.math = "parallel" THEN S ELSE {})
        ELSE {}
  BY Zenon DEF RpmMath
<1> HIDE DEF M, B, L, S, mpi
<1>3. DOMAIN blas = {"mkl", "openblas", "reference", "lapack"}
  OBVIOUS
<1>4. RpmMath(f, r) = own \cup scalapack
  <2>1. CASE r.math \notin {"serial", "parallel"}
    BY <1>2, <2>1
  <2>2. CASE r.math \in {"serial", "parallel"} /\ f.linalg \notin DOMAIN blas
    BY <1>2, <1>3, <2>2 DEF Entry
  <2>3. CASE r.math \in {"serial", "parallel"} /\ f.linalg = "mkl"
    BY <1>2, <1>3, <2>3 DEF Entry
  <2>4. CASE r.math \in {"serial", "parallel"} /\ f.linalg = "openblas"
    BY <1>2, <1>3, <2>4 DEF Entry
  <2>5. CASE r.math \in {"serial", "parallel"} /\ f.linalg \in {"reference", "lapack"}
    BY <1>2, <1>3, <2>5 DEF Entry
  <2> QED
    BY <1>3, <2>1, <2>2, <2>3, <2>4, <2>5
<1> QED
  BY <1>1, <1>4 DEF mpi

\* To run, the package of either format requires the same, environment aside.
LEMMA SameRunRequires ==
    ASSUME NEW f, NEW p, NEW r, NEW recipes
    PROVE  DebDepends(f, r, recipes).run \cup OwnEnvironment(p) = RpmRequires(f, p, r).run
<1> DEFINE shared == RpmMath(f, r) \cup IF r.mpi THEN Stack({"openmpi"}) ELSE {}
           listed == Listed(f, r.requires)
           system == Host(Listed(f, r.rpm_requires))
<1>1. RpmRequires(f, p, r).run = system \cup Stack(listed \ BuildOnlyDeps) \cup shared \cup OwnEnvironment(p)
  BY Zenon DEF RpmRequires, RpmRuntime
<1>2. DebDepends(f, r, recipes).run = system \cup MathAndMpiDeps(f, r) \cup Stack(listed \ BuildOnlyDeps)
  BY Zenon DEF DebDepends, RecipeSystemDeps, RecipeStackDeps
<1>3. MathAndMpiDeps(f, r) = shared
  BY SameMathAndMpi
<1> HIDE DEF shared, listed, system
<1> QED
  BY <1>1, <1>2, <1>3

\* To build, the deb builder asks for the host's compilers besides where the
\* flavor has no gcc of its own.
LEMMA SameBuildRequires ==
    ASSUME NEW f, NEW p, NEW r, NEW recipes
    PROVE  DebDepends(f, r, recipes).build =
             RpmRequires(f, p, r).build
               \cup IF r.bootstrap \/ BuildsOwnGcc(f, recipes) THEN {} ELSE HostCompilers(r)
<1> DEFINE shared == RpmMath(f, r) \cup IF r.mpi THEN Stack({"openmpi"}) ELSE {}
           listed == Stack(Listed(f, r.requires))
           system == Host(Listed(f, r.rpm_build_requires))
           H == HostCompilers(r)
           rpm == IF r.bootstrap /\ f.bootstrap_gcc THEN H ELSE {}
           hosted == IF r.bootstrap THEN f.bootstrap_gcc ELSE ~BuildsOwnGcc(f, recipes)
<1>1. RpmRequires(f, p, r).build = system \cup HostTools \cup rpm \cup listed \cup shared
  BY Zenon DEF RpmRequires
<1>2. DebDepends(f, r, recipes).build =
        system \cup AutoSystemDeps(f, r, recipes) \cup MathAndMpiDeps(f, r) \cup listed
  BY Zenon DEF DebDepends, RecipeSystemDeps, RecipeStackDeps
<1>3. MathAndMpiDeps(f, r) = shared
  BY SameMathAndMpi
<1>4. AutoSystemDeps(f, r, recipes) = HostTools \cup IF hosted THEN H ELSE {}
  BY Zenon DEF AutoSystemDeps
<1>5. (IF hosted THEN H ELSE {}) = rpm \cup IF r.bootstrap \/ BuildsOwnGcc(f, recipes) THEN {} ELSE H
  <2>1. CASE r.bootstrap
    BY <2>1
  <2>2. CASE ~r.bootstrap
    BY <2>2
  <2> QED
    BY <2>1, <2>2
<1> HIDE DEF shared, listed, system, rpm, hosted
<1> QED
  BY <1>1, <1>2, <1>3, <1>4, <1>5

-----------------------------------------------------------------------------
(***************************************************************************)
(* What the two builders pass to a build.  The rpm builder sees the flavor *)
(* through math_flavor(); in a uniform flavor nothing in it is different   *)
(* but the compilers' names.                                               *)
(***************************************************************************)
SameView(f, v) ==
    /\ \A x \in FlavorFields \ {"compilers"} : v[x] = f[x]
    /\ CompilerFamily(v) = CompilerFamily(f)

LEMMA MathFlavorOfOneFamily ==
    ASSUME NEW f, NEW r, FlavorFields \subseteq DOMAIN f, OneFamily(f)
    PROVE  /\ SameView(f, MathFlavor(f, r))
           /\ MathFlavor(f, r).compilers = RpmNative(f, r)
<1> DEFINE v == MathFlavor(f, r)
<1>1. v = [f EXCEPT !.compilers = RpmNative(f, r)] /\ "compilers" \in DOMAIN f
  BY DEF MathFlavor, FlavorFields
<1>2. \A x \in FlavorFields \ {"compilers"} : v[x] = f[x]
  BY <1>1
<1>3. CASE r.bootstrap /\ f.bootstrap_compilers # NoCompilers
  <2>1. v = [f EXCEPT !.compilers = f.bootstrap_compilers]
    BY <1>1, <1>3 DEF RpmNative
  <2>2. CompilerFamily(v) = CompilerFamily(f)
    BY <1>3, <2>1 DEF OneFamily
  <2> QED
    BY <1>1, <1>2, <2>2 DEF SameView
<1>4. CASE ~(r.bootstrap /\ f.bootstrap_compilers # NoCompilers)
  <2>1. v.compilers = f.compilers
    BY <1>1, <1>4 DEF RpmNative
  <2> HIDE DEF v
  <2>2. CompilerFamily(v) = CompilerFamily(f)
    BY <2>1 DEF CompilerFamily
  <2> QED
    BY <1>1, <1>2, <2>2 DEF SameView, v
<1> QED
  BY <1>3, <1>4

LEMMA MathFlavorIsSameView ==
    ASSUME NEW f, NEW r, IsUniform(f)
    PROVE  /\ SameView(f, MathFlavor(f, r))
           /\ MathFlavor(f, r).compilers = RpmNative(f, r)
BY MathFlavorOfOneFamily DEF IsUniform

\* What math_common derives from the view is the same.
LEMMA SameMathCommon ==
    ASSUME NEW f, NEW v, NEW r, SameView(f, v)
    PROVE  /\ ThreadingAgrees(v) <=> ThreadingAgrees(f)
           /\ \A b \in BOOLEAN : MklLine(v, b) = MklLine(f, b)
           /\ MklMpiLine(v) = MklMpiLine(f)
           /\ MathLdflags(v, r) = MathLdflags(f, r)
           /\ OpenmpFlags(v, r) = OpenmpFlags(f, r)
           /\ v.linalg = f.linalg
           /\ v.bootstrap_compilers = f.bootstrap_compilers
<1>1. /\ v.linalg = f.linalg /\ v.threading = f.threading /\ v.interface = f.interface
      /\ v.platform = f.platform /\ v.bootstrap_compilers = f.bootstrap_compilers
      /\ CompilerFamily(v) = CompilerFamily(f)
  BY DEF SameView, FlavorFields
<1>2. ThreadingAgrees(v) <=> ThreadingAgrees(f)
  BY <1>1 DEF ThreadingAgrees
<1>3. /\ OpenmpRuntime(v) = OpenmpRuntime(f) /\ OpenmpFlag(v) = OpenmpFlag(f)
      /\ ThreadingLayer(v) = ThreadingLayer(f) /\ InterfaceLib(v) = InterfaceLib(f)
  BY <1>1, Zenon DEF OpenmpRuntime, OpenmpFlag, ThreadingLayer, InterfaceLib
<1>4. \A b \in BOOLEAN : MklLine(v, b) = MklLine(f, b)
  BY <1>1, <1>3, Zenon DEF MklLine
<1>5. MklMpiLine(v) = MklMpiLine(f)
  BY <1>4, Zenon DEF MklMpiLine
<1>6. RuntimeIfUsed(v, r) = RuntimeIfUsed(f, r) /\ MklLine(v, TRUE) = MklLine(f, TRUE)
  BY <1>3, <1>4 DEF RuntimeIfUsed
<1>7. LinkLine(v, r) = LinkLine(f, r)
  BY <1>1, <1>6, Zenon DEF LinkLine
<1>8. MathLdflags(v, r) = MathLdflags(f, r) /\ OpenmpFlags(v, r) = OpenmpFlags(f, r)
  BY <1>3, <1>7, Zenon DEF MathLdflags, OpenmpFlags
<1> QED
  BY <1>1, <1>2, <1>4, <1>5, <1>8

LEMMA SameRecipeArgs ==
    ASSUME NEW f, NEW v, NEW r, SameView(f, v)
    PROVE  RecipeArgs(v, r) = RecipeArgs(f, r)
<1>1. v.name = f.name /\ v.inherits = f.inherits /\ v.parts = f.parts
  BY DEF SameView, FlavorFields
<1>2. FlavorNames(v) = FlavorNames(f)
  BY <1>1 DEF FlavorNames
<1>3. ResolveKey(v, r.flavor_args) = ResolveKey(f, r.flavor_args)
  BY <1>2 DEF ResolveKey
<1> QED
  BY <1>3, Zenon DEF RecipeArgs

LEMMA SameCompilers ==
    ASSUME NEW f, NEW r
    PROVE  /\ RpmCompilers(f, r) = BuildCompilers(f, r)
           /\ UnixEnvCompilers(f, r) = BuildCompilers(f, r)
BY DEF RpmCompilers, RpmNative, BuildCompilers, UnixEnvCompilers

LEMMA SameCmakeArgs ==
    ASSUME NEW f, NEW r, IsUniform(f)
    PROVE  CmakeArgs(MathFlavor(f, r), r) = CmakeArgs(f, r)
<1> DEFINE v == MathFlavor(f, r)
<1>1. SameView(f, v) /\ v.compilers = RpmNative(f, r)
  BY MathFlavorIsSameView
<1> HIDE DEF v
<1>2. v.bootstrap_compilers = f.bootstrap_compilers /\ v.linalg = f.linalg
  BY <1>1, SameMathCommon
<1>3. BuildCompilers(v, r) = BuildCompilers(f, r)
  BY <1>1, <1>2 DEF BuildCompilers, RpmNative
<1>4. StandardLibraries(v, r) = StandardLibraries(f, r)
  <2>1. MklLine(v, ~r.openmp) = MklLine(f, ~r.openmp)
    BY <1>1, SameMathCommon, (~r.openmp) \in BOOLEAN
  <2> QED
    BY <1>2, <2>1 DEF StandardLibraries
<1>5. RecipeArgs(v, r) = RecipeArgs(f, r)
  BY <1>1, SameRecipeArgs
<1>6. CmakeArgs(v, r) = CmakeArgs(f, r)
  BY <1>3, <1>4, <1>5, Zenon DEF CmakeArgs
<1> QED
  BY <1>6 DEF v

\* The rpm builder's arguments are the deb builder's; `custom' recipes get those
\* of the interface besides.
LEMMA SameArgs ==
    ASSUME NEW f, NEW r, IsUniform(f)
    PROVE  RpmArgs(f, r) = UnixArgs(f, r) \cup IF r.type = "custom" THEN InterfaceArgs(f, r) ELSE {}
<1>1. CASE r.type = "autotools"
  <2>1. ConfigureArgs(f, r) \cup InterfaceArgs(f, r) = RpmAutotoolsArgs(f, r)
    <3>1. f.configure_flags = {} /\ RpmCompilers(f, r) = BuildCompilers(f, r)
      BY SameCompilers DEF IsUniform
    <3> QED
      BY <3>1 DEF ConfigureArgs, RpmAutotoolsArgs
  <2> QED
    BY <1>1, <2>1 DEF RpmArgs, UnixArgs
<1>2. CASE r.type = "cmake"
  BY <1>2, SameCmakeArgs DEF RpmArgs, UnixArgs
<1>3. CASE r.type = "meson"
  BY <1>3 DEF RpmArgs, UnixArgs, RpmCustomArgs, UnixMesonArgs
<1>4. CASE r.type = "custom"
  BY <1>4 DEF RpmArgs, UnixArgs, RpmCustomArgs, UnixCustomArgs
<1>5. CASE r.type \notin {"autotools", "cmake", "meson", "custom"}
  BY <1>5 DEF RpmArgs, UnixArgs
<1> QED
  BY <1>1, <1>2, <1>3, <1>4, <1>5

LEMMA ArgsOfUnion == ASSUME NEW A, NEW B PROVE ArgsOf(A \cup B) = ArgsOf(A) \cup ArgsOf(B)
BY DEF ArgsOf

\* math_common lets both builders get as far.
LEMMA SameStart ==
    ASSUME NEW f, NEW r, IsUniform(f)
    PROVE  Configurable("rpm", f, r) <=> Configurable("deb", f, r)
<1> DEFINE v == MathFlavor(f, r)
<1>1. SameView(f, v)
  BY MathFlavorIsSameView
<1>2. /\ v.linalg = f.linalg /\ v.threading = f.threading
      /\ CompilerFamily(v) = CompilerFamily(f) /\ CompilerFamily(f) # "llvm"
      /\ ThreadingAgrees(v) <=> ThreadingAgrees(f)
  BY <1>1, SameMathCommon DEF SameView, FlavorFields, IsUniform
<1> HIDE DEF v
<1>3. Configurable("rpm", f, r) <=>
        \/ r.type = "generated"
        \/ /\ CompilerFamily(v) # Unknown
           /\ ThreadingAgrees(v) \/ CompilerFamily(v) = "llvm"
           /\ (MathOn(r) /\ v.linalg = "mkl") => ~(v.threading = "sequential" /\ r.openmp)
  BY <1>2 DEF Configurable, v
<1>4. Configurable("deb", f, r) <=>
        \/ r.type = "generated"
        \/ /\ CompilerFamily(f) # Unknown
           /\ ThreadingAgrees(f) \/ CompilerFamily(f) = "llvm"
           /\ (MathOn(r) /\ f.linalg = "mkl") => ~(f.threading = "sequential" /\ r.openmp)
  BY <1>2 DEF Configurable
<1> QED
  BY <1>2, <1>3, <1>4

\* Both expand the placeholders alike, but for LDFLAGS.
LEMMA SameExpansion ==
    ASSUME NEW f, NEW r, IsUniform(f)
    PROVE  LET rpm == Expansion(MathFlavor(f, r), r, {})
               unix == Expansion(f, r, MathLdflags(f, r))
           IN  /\ \A m \in Placeholders \ {"ldflags"} : rpm[m] = unix[m]
               /\ rpm["ldflags"] = {} /\ unix["ldflags"] = MathLdflags(f, r)
<1> DEFINE v == MathFlavor(f, r)
<1>1. /\ MathLdflags(v, r) = MathLdflags(f, r)
      /\ MklLine(v, TRUE) = MklLine(f, TRUE) /\ MklMpiLine(v) = MklMpiLine(f)
  BY MathFlavorIsSameView, SameMathCommon, TRUE \in BOOLEAN
<1> HIDE DEF v
<1> DEFINE rpm == Expansion(v, r, {})
           unix == Expansion(f, r, MathLdflags(f, r))
<1>2. /\ rpm["math_ldflags"] = unix["math_ldflags"]
      /\ rpm["mkl_linker_flags"] = unix["mkl_linker_flags"]
      /\ rpm["mkl_mpi_linker_flags"] = unix["mkl_mpi_linker_flags"]
      /\ rpm["ldflags"] = {} /\ unix["ldflags"] = MathLdflags(f, r)
  BY <1>1 DEF Expansion
<1> HIDE DEF rpm, unix
<1>3. \A m \in Placeholders \ {"ldflags"} : rpm[m] = unix[m]
  BY <1>2 DEF Placeholders
<1> QED
  BY <1>2, <1>3 DEF v, rpm, unix

LEMMA LibsOfArgs ==
    ASSUME NEW args, NEW expansion, NEW n
    PROVE  n \in LibsOf(args, expansion) <=>
             \E a \in args : \/ a[1] = "lib" /\ n = a[2]
                             \/ a[1] = "macro" /\ n \in expansion[a[2]]
BY DEF LibsOf

\* So the arguments link the same, but for LDFLAGS.
LEMMA SameArgLibs ==
    ASSUME NEW f, NEW r, IsUniform(f), NamesItsMath(f, r)
    PROVE  LibsOf(UnixArgs(f, r), Expansion(f, r, MathLdflags(f, r))) =
             LibsOf(RpmArgs(f, r), Expansion(MathFlavor(f, r), r, {}))
               \cup IF AsksForLdflags(UnixArgs(f, r)) THEN MathLdflags(f, r) ELSE {}
<1> DEFINE RA == RpmArgs(f, r)
           UA == UnixArgs(f, r)
           rpm == Expansion(MathFlavor(f, r), r, {})
           M == MathLdflags(f, r)
           unix == Expansion(f, r, M)
           I == IF r.type = "custom" THEN InterfaceArgs(f, r) ELSE {}
<1>1. RA = UA \cup I
  BY SameArgs
<1>2. \A a \in I : a[1] \notin {"lib", "macro"}
  BY DEF NamesItsMath, ArgsOf
<1>3. \A a \in RA : a[1] = "macro" => a[2] \in Placeholders
  BY DEF NamesItsMath
<1>4. /\ \A m \in Placeholders \ {"ldflags"} : rpm[m] = unix[m]
      /\ rpm["ldflags"] = {} /\ unix["ldflags"] = M
  BY SameExpansion
<1> HIDE DEF RA, UA, rpm, unix, M, I
<1>5. ASSUME NEW n \in LibsOf(UA, unix)
      PROVE  n \in LibsOf(RA, rpm) \cup IF AsksForLdflags(UA) THEN M ELSE {}
  <2>1. PICK a \in UA : \/ a[1] = "lib" /\ n = a[2]
                        \/ a[1] = "macro" /\ n \in unix[a[2]]
    BY <1>5, LibsOfArgs
  <2>2. CASE a[1] = "lib" /\ n = a[2]
    BY <1>1, <2>1, <2>2, LibsOfArgs
  <2>3. CASE a[1] = "macro" /\ n \in unix[a[2]] /\ a[2] = "ldflags"
    BY <1>4, <2>1, <2>3 DEF AsksForLdflags
  <2>4. CASE a[1] = "macro" /\ n \in unix[a[2]] /\ a[2] # "ldflags"
    <3>1. a \in RA /\ a[2] \in Placeholders \ {"ldflags"}
      BY <1>1, <1>3, <2>1, <2>4
    <3>2. n \in rpm[a[2]]
      BY <1>4, <2>4, <3>1
    <3> QED
      BY <2>4, <3>1, <3>2, LibsOfArgs
  <2> QED
    BY <2>1, <2>2, <2>3, <2>4
<1>6. ASSUME NEW n \in LibsOf(RA, rpm) PROVE n \in LibsOf(UA, unix)
  <2>1. PICK a \in RA : \/ a[1] = "lib" /\ n = a[2]
                        \/ a[1] = "macro" /\ n \in rpm[a[2]]
    BY <1>6, LibsOfArgs
  <2>2. a \in UA
    BY <1>1, <1>2, <2>1
  <2>3. CASE a[1] = "lib" /\ n = a[2]
    BY <2>2, <2>3, LibsOfArgs
  <2>4. CASE a[1] = "macro" /\ n \in rpm[a[2]]
    <3>1. a[2] \in Placeholders \ {"ldflags"}
      BY <1>3, <1>4, <2>1, <2>4
    <3>2. n \in unix[a[2]]
      BY <1>4, <2>4, <3>1
    <3> QED
      BY <2>2, <2>4, <3>2, LibsOfArgs
  <2> QED
    BY <2>1, <2>3, <2>4
<1>7. ASSUME AsksForLdflags(UA), NEW n \in M PROVE n \in LibsOf(UA, unix)
  <2>1. PICK a \in UA : a[1] = "macro" /\ a[2] = "ldflags"
    BY <1>7 DEF AsksForLdflags
  <2>2. n \in unix[a[2]]
    BY <1>4, <1>7, <2>1
  <2> QED
    BY <2>1, <2>2, LibsOfArgs
<1>8. LibsOf(UA, unix) = LibsOf(RA, rpm) \cup IF AsksForLdflags(UA) THEN M ELSE {}
  BY <1>5, <1>6, <1>7
<1> QED
  BY <1>8 DEF RA, UA, rpm, unix, M

\* The Makefile.inc of the two builders name openblas differently.
LEMMA SameMakefile ==
    ASSUME NEW f, NEW r, IsUniform(f)
    PROVE  LET rpm == RpmMakefileLibs(MathFlavor(f, r), r)
               unix == UnixMakefileLibs(f, r)
           IN  \/ f.linalg # "openblas" /\ rpm = unix
               \/ /\ f.linalg = "openblas"
                  /\ rpm = ScalapackOf(r) \cup {"openblas"}
                  /\ unix = ScalapackOf(r) \cup {"blas", "lapack"}
<1> DEFINE v == MathFlavor(f, r)
<1>1. v.linalg = f.linalg /\ MklMpiLine(v) = MklMpiLine(f) /\ f.linalg # "accelerate"
  BY MathFlavorIsSameView, SameMathCommon DEF IsUniform
<1> HIDE DEF v
<1>2. CASE f.linalg = "mkl"
  BY <1>1, <1>2 DEF RpmMakefileLibs, UnixMakefileLibs, v
<1>3. CASE f.linalg = "openblas"
  BY <1>1, <1>3 DEF RpmMakefileLibs, UnixMakefileLibs, v
<1>4. CASE f.linalg \notin {"mkl", "openblas"}
  BY <1>1, <1>4 DEF RpmMakefileLibs, UnixMakefileLibs, v
<1> QED
  BY <1>2, <1>3, <1>4

LEMMA SameLibs ==
    ASSUME NEW f, NEW r, IsUniform(f), NamesItsMath(f, r)
    PROVE  Provided(f, RpmLibs(f, r)) = Provided(f, UnixLibs(f, r))
<1> DEFINE rpm == IF r.type = "custom_makefile" THEN RpmMakefileLibs(MathFlavor(f, r), r) ELSE {}
           unix == IF r.type = "custom_makefile" THEN UnixMakefileLibs(f, r) ELSE {}
           D == DriverLibs(f, r)
           M == MathLdflags(f, r)
           L == LibsOf(RpmArgs(f, r), Expansion(MathFlavor(f, r), r, {}))
           env == IF r.skip_compiler_env \/ r.type = "cmake" THEN {} ELSE M
           asked == IF AsksForLdflags(UnixArgs(f, r)) THEN M ELSE {}
<1>1. RpmLibs(f, r) = rpm \cup D \cup L
  BY Zenon DEF RpmLibs
<1>2. UnixLibs(f, r) = unix \cup env \cup D \cup L \cup asked
  <2>1. UnixLibs(f, r) = unix \cup env \cup D \cup LibsOf(UnixArgs(f, r), Expansion(f, r, M))
    BY Zenon DEF UnixLibs
  <2>2. LibsOf(UnixArgs(f, r), Expansion(f, r, M)) = L \cup asked
    BY SameArgLibs
  <2> HIDE DEF unix, env, D, L, asked
  <2> QED
    BY <2>1, <2>2
<1>3. env \cup asked \subseteq RpmLibs(f, r)
  BY DEF NamesItsMath
<1>4. \/ rpm = unix
      \/ /\ f.linalg = "openblas"
         /\ rpm = ScalapackOf(r) \cup {"openblas"}
         /\ unix = ScalapackOf(r) \cup {"blas", "lapack"}
  BY SameMakefile
<1> HIDE DEF rpm, unix, D, M, L, env, asked
<1>5. CASE rpm = unix
  BY <1>1, <1>2, <1>3, <1>5
<1>6. CASE /\ f.linalg = "openblas"
           /\ rpm = ScalapackOf(r) \cup {"openblas"}
           /\ unix = ScalapackOf(r) \cup {"blas", "lapack"}
  <2> DEFINE B == {"blas", "lapack"}
             rl == RpmLibs(f, r)
             ul == UnixLibs(f, r)
  <2>1. Provided(f, ul) = (ul \ B) \cup {"openblas"}
    BY <1>2, <1>6 DEF Provided
  <2>2. "openblas" \in rl
    BY <1>1, <1>6
  <2>3. Provided(f, rl) = (rl \ B) \cup {"openblas"}
    BY <1>6, <2>2 DEF Provided
  <2>4. (ul \ B) \cup {"openblas"} = (rl \ B) \cup {"openblas"}
    BY <1>1, <1>2, <1>3, <1>6
  <2> QED
    BY <2>1, <2>3, <2>4
<1> QED
  BY <1>4, <1>5, <1>6

\* Settings for settings.
LEMMA SameSettings ==
    ASSUME NEW f, NEW r, IsUniform(f), NamesItsMath(f, r)
    PROVE  LET rpm == Settings("rpm", f, r)
               deb == Settings("deb", f, r)
               interface == IF r.type = "custom" THEN ArgsOf(InterfaceArgs(f, r)) ELSE {}
           IN  /\ rpm.compilers = deb.compilers
               /\ rpm.openmp = deb.openmp
               /\ rpm.libs = deb.libs
               /\ rpm.args = deb.args \cup interface
<1> DEFINE I == IF r.type = "custom" THEN InterfaceArgs(f, r) ELSE {}
           interface == IF r.type = "custom" THEN ArgsOf(InterfaceArgs(f, r)) ELSE {}
<1>1. RpmCompilers(f, r) = UnixEnvCompilers(f, r)
  BY SameCompilers
<1>2. OpenmpFlags(MathFlavor(f, r), r) = OpenmpFlags(f, r)
  BY MathFlavorIsSameView, SameMathCommon
<1>3. ArgsOf(RpmArgs(f, r)) = ArgsOf(UnixArgs(f, r)) \cup interface
  <2>1. RpmArgs(f, r) = UnixArgs(f, r) \cup I
    BY SameArgs
  <2>2. ArgsOf(I) = interface
    BY DEF ArgsOf
  <2> HIDE DEF I, interface
  <2> QED
    BY <2>1, <2>2, ArgsOfUnion
<1>4. Provided(f, RpmLibs(f, r)) = Provided(f, UnixLibs(f, r))
  BY SameLibs
<1>5. /\ Settings("rpm", f, r) = RpmSettings(f, r)
      /\ Settings("deb", f, r) = UnixSettings(f, r)
  BY DEF Settings
<1> QED
  BY <1>1, <1>2, <1>3, <1>4, <1>5 DEF RpmSettings, UnixSettings

=============================================================================
