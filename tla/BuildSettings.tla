---------------------------- MODULE BuildSettings ----------------------------
(***************************************************************************)
(* What a builder passes to the build of one package: the compilers, the   *)
(* OpenMP flag, the arguments of its configure step and the libraries it   *)
(* is linked with.  The rpm builder writes them into a spec and the unix   *)
(* builder, from which the deb builder inherits, runs them itself; each    *)
(* has its own code for it, over the rules of math_common.                 *)
(*                                                                         *)
(* An argument is a pair: <<"flag", x>>, a compiler <<role, name>>, an     *)
(* explicit library <<"lib", l>>, or a placeholder <<"macro", m>> that     *)
(* stands for libraries.  Search paths, optimization and quoting are left  *)
(* out, and compilers carry their bare names: _normalize_compiler has      *)
(* dropped directories and version suffixes.                               *)
(***************************************************************************)
EXTENDS Recipes

NoCompilers == <<>>  \* a flavor without bootstrap_compilers
Unknown == "unknown" \* math_common raises

Flag(x)  == {<<"flag", x>>}
Lib(x)   == {<<"lib", x>>}
Macro(x) == {<<"macro", x>>}

-----------------------------------------------------------------------------
(* math_common: the compiler family and what follows from it.  `v' is the  *)
(* view of the flavor a builder hands over.                                *)

FamilyMembers ==
    [gnu   |-> {"gcc", "g++", "gfortran"},
     intel |-> {"icx", "icpx", "icc", "icpc", "ifx", "ifort"},
     llvm  |-> {"clang", "clang++", "flang"}]

\* _family_of: MPI wrappers and unknown names raise.
Family(name) ==
    IF \E f \in DOMAIN FamilyMembers : name \in FamilyMembers[f]
    THEN CHOOSE f \in DOMAIN FamilyMembers : name \in FamilyMembers[f]
    ELSE Unknown

\* compiler_family: raises unless all compilers agree.
CompilerFamily(v) ==
    LET seen == {Family(v.compilers[role]) : role \in DOMAIN v.compilers}
    IN  IF Cardinality(seen) = 1 THEN CHOOSE f \in seen : TRUE ELSE Unknown

RuntimeOf(family, platform) ==
    CASE family = "intel" -> "iomp5"
      [] family = "llvm" /\ platform # "macos" -> "omp"
      [] OTHER -> "gomp"

OpenmpRuntime(v) == RuntimeOf(CompilerFamily(v), v.platform)

OpenmpFlag(v) == IF CompilerFamily(v) = "intel" THEN "-qopenmp" ELSE "-fopenmp"

\* mkl_threading_mode without a recipe: what flavors may declare.
ThreadingAgrees(v) ==
    \/ v.threading = "sequential"
    \/ v.threading = "intel" /\ CompilerFamily(v) = "intel"
    \/ v.threading = "openmp" /\ CompilerFamily(v) # "intel"

\* mkl_threading_lib, by the flavor's threading mode.
ThreadingLayer(v) ==
    CASE v.threading = "sequential"    -> "mkl_sequential"
      [] CompilerFamily(v) = "intel"   -> "mkl_intel_thread"
      [] OTHER                         -> "mkl_gnu_thread"

InterfaceLib(v) ==
    (IF CompilerFamily(v) = "intel" THEN "mkl_intel_" ELSE "mkl_gf_") \o v.interface

\* get_mkl_serial_link_line
MklLine(v, with_openmp_runtime) ==
    {InterfaceLib(v), ThreadingLayer(v), "mkl_core"}
      \cup IF with_openmp_runtime /\ v.threading # "sequential" THEN {OpenmpRuntime(v)} ELSE {}

\* get_mkl_mpi_link_line: the stack's own ScaLAPACK, not MKL's.
MklMpiLine(v) == {"scalapack"} \cup MklLine(v, TRUE)

MathOn(r) == r.math \in {"serial", "parallel"}

ScalapackOf(r) == IF r.math = "parallel" THEN {"scalapack"} ELSE {}

RuntimeIfUsed(v, r) == IF r.openmp THEN {OpenmpRuntime(v)} ELSE {}

\* Mutation: the threading layer of MKL depends on the package as well.
LinkLineGatedOnOpenmp(v, r) ==
    LET layer == IF r.openmp THEN ThreadingLayer(v) ELSE "mkl_sequential"
    IN  ScalapackOf(r) \cup
          CASE v.linalg = "mkl"        -> {InterfaceLib(v), layer, "mkl_core"} \cup RuntimeIfUsed(v, r)
            [] v.linalg = "accelerate" -> {"Accelerate"} \cup RuntimeIfUsed(v, r)
            [] v.linalg = "openblas"   -> {"openblas"} \cup RuntimeIfUsed(v, r)
            [] OTHER                   -> {"lapack", "blas"} \cup RuntimeIfUsed(v, r)

\* get_math_link_line
LinkLine(v, r) ==
    ScalapackOf(r) \cup
      CASE v.linalg = "mkl"        -> MklLine(v, TRUE)
        [] v.linalg = "accelerate" -> {"Accelerate"} \cup RuntimeIfUsed(v, r)
        [] v.linalg = "openblas"   -> {"openblas"} \cup RuntimeIfUsed(v, r)
        [] OTHER                   -> {"lapack", "blas"} \cup RuntimeIfUsed(v, r)

MathLdflags(v, r) == IF MathOn(r) THEN LinkLine(v, r) ELSE {}

-----------------------------------------------------------------------------
(* Compilers *)

Wrappers == [cc |-> "mpicc", cxx |-> "mpicxx", fc |-> "mpifort"]

CompilerArgs(c) == {<<"cc", c.cc>>, <<"cxx", c.cxx>>, <<"fc", c.fc>>}

\* Mutation: math_flavor() returns the flavor with the wrappers.
RpmNativeIsWrapper(f, r) == IF r.mpi THEN Wrappers ELSE f.compilers

\* RPMBuilder.__init__ rewrites the flavor's compilers, first for bootstrap
\* packages, then for MPI; native_compilers is what they are in between.
RpmNative(f, r) ==
    IF r.bootstrap /\ f.bootstrap_compilers # NoCompilers THEN f.bootstrap_compilers
    ELSE f.compilers

RpmCompilers(f, r) == IF r.mpi THEN Wrappers ELSE RpmNative(f, r)

MathFlavor(f, r) == [f EXCEPT !.compilers = RpmNative(f, r)]

\* get_configure_args, get_cmake_args: MPI first, then bootstrap.
BuildCompilers(v, r) ==
    IF r.mpi THEN Wrappers
    ELSE IF r.bootstrap /\ v.bootstrap_compilers # NoCompilers THEN v.bootstrap_compilers
    ELSE v.compilers

\* setup_environment and the override in _prepare_build_env.
UnixEnvCompilers(f, r) ==
    LET own == IF r.bootstrap /\ f.bootstrap_compilers # NoCompilers
               THEN f.bootstrap_compilers ELSE f.compilers
    IN  IF r.mpi THEN Wrappers ELSE own

-----------------------------------------------------------------------------
(* Arguments of the configure step *)

\* get_interface_args: `lp64_args' and `lp64_flavor_args', or the ilp64 ones.
InterfaceArgs(f, r) ==
    LET section == r.interface_args[f.interface]
    IN  section.args \cup ResolveKey(f, section.flavor_args)

RecipeArgs(f, r) == r.args \cup ResolveKey(f, r.flavor_args)

\* get_configure_args_for_rpm
RpmAutotoolsArgs(f, r) ==
    Flag("prefix") \cup CompilerArgs(RpmCompilers(f, r))
      \cup (IF r.defaults.shared THEN Flag("--enable-shared") ELSE {})
      \cup (IF r.defaults.host_flags THEN Flag("--host") ELSE {})
      \cup (IF r.defaults.target_flag THEN Flag("--target") ELSE {})
      \cup RecipeArgs(f, r) \cup InterfaceArgs(f, r)

\* get_configure_args, which also adds the flavor's own flags; the caller adds
\* the arguments of the interface.
ConfigureArgs(f, r) ==
    Flag("prefix") \cup CompilerArgs(BuildCompilers(f, r))
      \cup (IF r.defaults.shared THEN Flag("--enable-shared") ELSE {})
      \cup (IF r.defaults.host_flags THEN Flag("--host") ELSE {})
      \cup (IF r.defaults.target_flag THEN Flag("--target") ELSE {})
      \cup f.configure_flags \cup RecipeArgs(f, r)

\* CMAKE_<LANG>_STANDARD_LIBRARIES: on MKL flavors every link gets MKL, without
\* the OpenMP runtime where the compiler driver brings it.
StandardLibraries(v, r) ==
    IF v.linalg = "mkl" THEN {<<"lib", l>> : l \in MklLine(v, ~r.openmp)} ELSE {}

\* get_cmake_args
CmakeArgs(v, r) ==
    Flag("prefix") \cup CompilerArgs(BuildCompilers(v, r)) \cup StandardLibraries(v, r)
      \cup (IF r.defaults.shared THEN Flag("BUILD_SHARED_LIBS=ON") ELSE Flag("BUILD_SHARED_LIBS=OFF"))
      \cup RecipeArgs(v, r)

\* get_custom_configure_args, for `custom' and `meson'.
RpmCustomArgs(f, r) == Flag("prefix") \cup RecipeArgs(f, r) \cup InterfaceArgs(f, r)

RpmArgs(f, r) ==
    CASE r.type = "autotools"           -> RpmAutotoolsArgs(f, r)
      [] r.type = "cmake"               -> CmakeArgs(MathFlavor(f, r), r) \cup InterfaceArgs(f, r)
      [] r.type \in {"custom", "meson"} -> RpmCustomArgs(f, r)
      [] OTHER                          -> {}

UnixMesonArgs(f, r) == Flag("prefix") \cup RecipeArgs(f, r) \cup InterfaceArgs(f, r)

\* A recipe that names the prefix itself keeps its own; the arguments of the
\* interface are not added.
UnixCustomArgs(f, r) == Flag("prefix") \cup RecipeArgs(f, r)

\* UnixBuilder.configure
UnixArgs(f, r) ==
    CASE r.type = "autotools" -> ConfigureArgs(f, r) \cup InterfaceArgs(f, r)
      [] r.type = "cmake"     -> CmakeArgs(f, r) \cup InterfaceArgs(f, r)
      [] r.type = "meson"     -> UnixMesonArgs(f, r)
      [] r.type = "custom"    -> UnixCustomArgs(f, r)
      [] OTHER                -> {}

\* The libraries a placeholder stands for: check_args.
Expansion(v, r, ldflags) ==
    [math_ldflags         |-> MathLdflags(v, r),
     mkl_linker_flags     |-> MklLine(v, TRUE),
     mkl_mpi_linker_flags |-> MklMpiLine(v),
     ldflags              |-> ldflags]

LibsOf(args, expansion) ==
    {a[2] : a \in {x \in args : x[1] = "lib"}}
      \cup UNION {expansion[a[2]] : a \in {x \in args : x[1] = "macro"}}

ArgsOf(args) == {a \in args : a[1] \notin {"lib", "macro"}}

-----------------------------------------------------------------------------
(* Builds *)

\* The Makefile.inc of a `custom_makefile' recipe: _render_custom_makefile.
RpmMakefileLibs(v, r) ==
    IF v.linalg = "mkl" THEN MklMpiLine(v)
    ELSE ScalapackOf(r) \cup IF v.linalg = "openblas" THEN {"openblas"} ELSE {"blas", "lapack"}

\* get_makefile_context knows no openblas.
UnixMakefileLibs(v, r) ==
    IF v.linalg = "mkl" THEN MklMpiLine(v)
    ELSE ScalapackOf(r) \cup IF v.linalg = "accelerate" THEN {"Accelerate"} ELSE {"blas", "lapack"}

\* The installed openblas answers to the names of the reference libraries.
Provided(f, libs) ==
    IF f.linalg = "openblas" /\ libs \cap {"blas", "lapack"} # {}
    THEN (libs \ {"blas", "lapack"}) \cup {"openblas"} ELSE libs

\* The OpenMP flag is added to the compile flags; openblas (type `none') and
\* packages without math set it themselves.
OpenmpFlags(v, r) ==
    IF r.openmp /\ (MathOn(r) \/ r.type \in {"cmake", "custom_makefile"}) THEN {OpenmpFlag(v)} ELSE {}

\* The compiler driver links the runtime of each compiler that saw the flag,
\* and an MPI wrapper links MPI.
DriverLibs(f, r) ==
    LET used == {f.compilers.cc, f.compilers.cxx} \cup IF r.fortran THEN {f.compilers.fc} ELSE {}
    IN  (IF r.openmp THEN {RuntimeOf(Family(c), f.platform) : c \in used} ELSE {})
          \cup (IF r.mpi THEN {"mpi"} ELSE {})

\* generate_spec: LDFLAGS carry no library.
RpmLibs(f, r) ==
    LET v == MathFlavor(f, r)
        makefile == IF r.type = "custom_makefile" THEN RpmMakefileLibs(v, r) ELSE {}
    IN  makefile \cup DriverLibs(f, r) \cup LibsOf(RpmArgs(f, r), Expansion(v, r, {}))

RpmSettings(f, r) ==
    [compilers |-> IF r.skip_compiler_env THEN NoCompilers ELSE RpmCompilers(f, r),
     openmp    |-> OpenmpFlags(MathFlavor(f, r), r),
     args      |-> ArgsOf(RpmArgs(f, r)),
     libs      |-> Provided(f, RpmLibs(f, r))]

\* UnixBuilder.configure and _prepare_build_env: the math libraries join
\* LDFLAGS, which cmake's own linker flags replace.
UnixLibs(f, r) ==
    LET makefile == IF r.type = "custom_makefile" THEN UnixMakefileLibs(f, r) ELSE {}
        env == IF r.skip_compiler_env \/ r.type = "cmake" THEN {} ELSE MathLdflags(f, r)
    IN  makefile \cup env \cup DriverLibs(f, r)
          \cup LibsOf(UnixArgs(f, r), Expansion(f, r, MathLdflags(f, r)))

UnixSettings(f, r) ==
    [compilers |-> IF r.skip_compiler_env THEN NoCompilers ELSE UnixEnvCompilers(f, r),
     openmp    |-> OpenmpFlags(f, r),
     args      |-> ArgsOf(UnixArgs(f, r)),
     libs      |-> Provided(f, UnixLibs(f, r))]

Settings(kind, f, r) == IF kind = "rpm" THEN RpmSettings(f, r) ELSE UnixSettings(f, r)

\* Whether math_common lets the builder get that far.  Both expand the MKL
\* placeholders whatever the flavor links with; only the rpm builder leaves
\* LLVM toolchains out of it.
Configurable(kind, f, r) ==
    LET v == IF kind = "rpm" THEN MathFlavor(f, r) ELSE f
        family == CompilerFamily(v)
        uses_mkl == v.linalg = "mkl" /\ (MathOn(r) \/ r.type \in {"cmake", "custom_makefile"})
    IN  \/ r.type = "generated"
        \/ /\ family # Unknown
           /\ ThreadingAgrees(v) \/ family = "llvm"
           /\ family = "llvm" => kind = "rpm" /\ ~uses_mkl
           /\ MathOn(r) /\ v.linalg = "mkl" => ~(v.threading = "sequential" /\ r.openmp)

-----------------------------------------------------------------------------
(* What makes the two builders agree (the deb builder runs a build itself, *)
(* with the flavor as it is and the math libraries in LDFLAGS; the rpm     *)
(* builder writes a spec, with the compilers rewritten and no libraries).  *)

FlavorFields == {"name", "inherits", "parts", "linalg", "compilers", "bootstrap_compilers",
                 "threading", "interface", "platform", "configure_flags"}

\* The bootstrap compilers, if any, are of the flavor's own family.
OneFamily(f) ==
    f.bootstrap_compilers # NoCompilers =>
        CompilerFamily([f EXCEPT !.compilers = f.bootstrap_compilers]) = CompilerFamily(f)

\* All compilers are of one family, which both builders know how to build MKL
\* flavors with, and the flavor adds no configure flags.
IsUniform(f) ==
    /\ FlavorFields \subseteq DOMAIN f
    /\ CompilerFamily(f) # "llvm"
    /\ OneFamily(f)
    /\ f.linalg # "accelerate"
    /\ f.configure_flags = {}

Placeholders == {"math_ldflags", "mkl_linker_flags", "mkl_mpi_linker_flags", "ldflags"}

AsksForLdflags(args) == \E a \in args : a[1] = "macro" /\ a[2] = "ldflags"

\* The recipe's own arguments link what LDFLAGS would add, where they count.
NamesItsMath(f, r) ==
    /\ \A a \in RpmArgs(f, r) : a[1] = "macro" => a[2] \in Placeholders
    /\ (~r.skip_compiler_env /\ r.type # "cmake") \/ AsksForLdflags(UnixArgs(f, r))
          => MathLdflags(f, r) \subseteq RpmLibs(f, r)
    /\ r.type = "custom" => ArgsOf(InterfaceArgs(f, r)) = InterfaceArgs(f, r)
=============================================================================
