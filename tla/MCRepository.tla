---------------------------- MODULE MCRepository ----------------------------
(***************************************************************************)
(* An excerpt of recipes/ and flavors/ at this commit, with the fields     *)
(* Recipes and BuildSettings read.  It keeps one recipe for each way a     *)
(* dependency comes about (`all' and flavor entries, entries hidden by     *)
(* others, implicit gcc and math libraries, MPI, build-only names,         *)
(* inclusion and exclusion, subpackages in both formats, one of them named *)
(* like its recipe) and for each type of build.                            *)
(***************************************************************************)
EXTENDS Repository, TLC

NoArgs == [args |-> {}, flavor_args |-> <<>>]
Interface(lp64, ilp64) == [lp64 |-> [NoArgs EXCEPT !.args = lp64],
                           ilp64 |-> [NoArgs EXCEPT !.args = ilp64]]

Plain == [bootstrap |-> FALSE, fortran |-> FALSE, math |-> "none", mpi |-> FALSE,
          requires |-> <<>>, include_flavors |-> Everywhere, exclude_flavors |-> {},
          rpm_build_requires |-> <<>>, rpm_requires |-> <<>>, subpackages |-> <<>>,
          openmp |-> FALSE, type |-> "autotools", skip_compiler_env |-> FALSE,
          defaults |-> [shared |-> TRUE, host_flags |-> TRUE, target_flag |-> FALSE],
          args |-> {}, flavor_args |-> <<>>, interface_args |-> Interface({}, {})]

Sub(flavors, requires) == [include_flavors |-> flavors, requires |-> requires]

Gmp == {"gmp-devel"}
OpenblasCmake == Flag("-DBLAS_LIBRARIES") \cup Lib("openblas")
MathCmake == Flag("-DBLAS_LIBRARIES") \cup Macro("math_ldflags")
MklCmake == Flag("-DBLAS_LIBRARIES") \cup Macro("mkl_linker_flags")
SlateMkl == Lib("scalapack") \cup Macro("mkl_linker_flags")
PetscOpenblas == Lib("openblas") \cup Lib("scalapack") \cup Lib("mpi") \cup Macro("ldflags")
PetscMkl(runtime) == Macro("mkl_linker_flags") \cup Lib("scalapack") \cup Lib("mpi")
                       \cup Macro("ldflags") \cup Lib(runtime)

MCCatalog ==
    [environment |-> [Plain EXCEPT !.bootstrap = TRUE, !.type = "generated",
         !.rpm_requires = [all |-> {"make"}, gcc |-> {"gcc", "glibc-devel"},
                           mkl |-> {"gcc", "glibc-devel"}, lbl |-> {}, intel |-> {}]
                            @@ ("gcc-mkl-cuda" :> {"gcc", "glibc-devel"})],
     gcc |-> [Plain EXCEPT !.bootstrap = TRUE, !.include_flavors = {"lbl", "macos"},
         !.defaults.target_flag = TRUE,
         !.requires = [gcc |-> {"binutils"}, macos |-> {"autoconf"}]],
     binutils |-> [Plain EXCEPT !.bootstrap = TRUE, !.include_flavors = {"lbl"},
         !.defaults.host_flags = FALSE],
     cmake |-> [Plain EXCEPT !.bootstrap = TRUE, !.type = "custom",
         !.args = Flag("prefix") \cup Flag("--system-zlib"),
         !.rpm_build_requires = [all |-> {"ncurses-devel"}],
         !.rpm_requires = [all |-> {"sed", "git"}]],
     gklib |-> [Plain EXCEPT !.type = "cmake", !.openmp = TRUE, !.requires = [all |-> {"cmake"}]],
     metis |-> [Plain EXCEPT !.type = "cmake", !.openmp = TRUE,
         !.requires = [all |-> {"cmake", "gklib"}]],
     hwloc |-> [Plain EXCEPT !.exclude_flavors = {"lbl"}],
     openmpi |-> [Plain EXCEPT !.fortran = TRUE, !.defaults.host_flags = FALSE,
         !.args = Flag("--enable-mpi-fortran"),
         !.flavor_args = [gcc |-> Flag("--with-hwloc"), mkl |-> Flag("--with-hwloc"),
                          lbl |-> Flag("--with-slurm")]
                           @@ ("gcc-mkl-cuda" :> Flag("--with-cuda")),
         !.requires = [gcc |-> {"hwloc"}, mkl |-> {"hwloc"}, debug |-> {"hwloc"}, lbl |-> {}],
         !.rpm_build_requires = [all |-> {"flex"}, lbl |-> {"slurm-devel", "hwloc-devel"}]],
     openblas |-> [Plain EXCEPT !.fortran = TRUE, !.openmp = TRUE, !.type = "none",
         !.exclude_flavors = {"debug"}, !.include_flavors = {"gcc", "lbl", "macos"}],
     lapack |-> [Plain EXCEPT !.fortran = TRUE, !.include_flavors = {"debug"}, !.type = "cmake",
         !.interface_args = Interface(Flag("INDEX64=OFF"), Flag("INDEX64=ON")),
         \* -DUSE_OPTIMIZED_BLAS=OFF: liblapack is linked with the libblas built with it
         !.flavor_args = [debug |-> Lib("blas")],
         !.requires = [all |-> {"cmake"}],
         !.subpackages = [blas    |-> Sub({"debug"}, <<>>),
                          lapack  |-> Sub(Everywhere, [debug |-> {"blas"}]),
                          lapacke |-> Sub(Everywhere, [all |-> {"lapack"}])]],
     blaspp |-> [Plain EXCEPT !.math = "serial", !.type = "cmake",
         !.requires = [all |-> {"cmake"}],
         !.flavor_args = [gcc |-> OpenblasCmake, debug |-> Lib("lapack"), mkl |-> Flag("gpu=none"),
                          cuda |-> Flag("gpu=cuda")],
         !.interface_args = [Interface(Flag("LP64"), Flag("ILP64"))
                                EXCEPT !.lp64.flavor_args = [mkl |-> MklCmake, cuda |-> MklCmake]]],
     scalapack |-> [Plain EXCEPT !.fortran = TRUE, !.math = "serial", !.mpi = TRUE,
         !.type = "cmake",
         !.interface_args = Interface(Flag("INTERFACE64=OFF"), Flag("INTERFACE64=ON")),
         !.flavor_args = [gcc |-> OpenblasCmake, lbl |-> OpenblasCmake,
                          debug |-> Lib("blas") \cup Lib("lapack"),
                          mkl |-> MathCmake, intel |-> MathCmake, cuda |-> MathCmake],
         !.requires = [all |-> {"openmpi", "cmake"}, debug |-> {"lapack"}]],
     slate |-> [Plain EXCEPT !.fortran = TRUE, !.math = "parallel", !.mpi = TRUE,
         !.type = "cmake", !.openmp = TRUE,
         !.flavor_args = [gcc |-> Lib("scalapack") \cup Lib("openblas"),
                          debug |-> Lib("scalapack") \cup Lib("lapack") \cup Lib("blas"),
                          mkl |-> SlateMkl, intel |-> SlateMkl, cuda |-> SlateMkl],
         !.requires = [all |-> {"cmake", "blaspp"}]],
     mumps |-> [Plain EXCEPT !.fortran = TRUE, !.math = "parallel", !.mpi = TRUE,
         !.type = "custom_makefile", !.openmp = TRUE,
         !.requires = [all |-> {"openmpi", "metis"}]],
     armadillo |-> [Plain EXCEPT !.math = "serial", !.type = "cmake",
         !.interface_args = Interface(Flag("LONG_LONG=OFF"), Flag("LONG_LONG=ON")),
         !.flavor_args = [gcc |-> OpenblasCmake, lbl |-> OpenblasCmake,
                          debug |-> Lib("blas") \cup Lib("lapack"),
                          mkl |-> Lib("mkl_gf_lp64"), cuda |-> Lib("mkl_gf_lp64"),
                          intel |-> Lib("mkl_intel_lp64")],
         !.requires = [all |-> {"cmake", "metis"}]],
     spral |-> [Plain EXCEPT !.fortran = TRUE, !.math = "serial", !.type = "meson",
         !.openmp = TRUE, !.args = Macro("ldflags") \cup Macro("math_ldflags"),
         !.requires = [all |-> {"metis"}, gcc |-> {"hwloc"}, debug |-> {"hwloc"},
                       mkl |-> {"hwloc"}, intel |-> {"hwloc"}, lbl |-> {}]
                        @@ ("gcc-mkl-cuda" :> {"hwloc"}),
         !.rpm_build_requires = [lbl |-> {"hwloc-devel"}]],
     ipopt |-> [Plain EXCEPT !.fortran = TRUE, !.math = "serial", !.mpi = TRUE,
         !.args = Flag("--with-spral") \cup Macro("math_ldflags"),
         !.interface_args = Interface(Flag("intsize=32"), Flag("intsize=64")),
         !.requires = [all |-> {"openmpi", "mumps", "spral"}]],
     petsc |-> [Plain EXCEPT !.fortran = TRUE, !.math = "parallel", !.mpi = TRUE,
         !.type = "custom", !.openmp = TRUE, !.skip_compiler_env = TRUE,
         !.args = Flag("prefix") \cup Flag("--with-cc=mpicc") \cup Macro("ldflags"),
         !.interface_args = Interface(Flag("64-bit-blas=0"), Flag("64-bit-blas=1")),
         !.flavor_args = [gcc |-> PetscOpenblas, lbl |-> PetscOpenblas,
                          debug |-> Lib("blas") \cup Lib("lapack") \cup Lib("scalapack")
                                      \cup Lib("mpi") \cup Lib("gomp") \cup Macro("ldflags"),
                          mkl |-> PetscMkl("gomp"), cuda |-> PetscMkl("gomp"),
                          intel |-> PetscMkl("iomp5")],
         !.requires = [all |-> {"cmake", "openmpi", "metis", "mumps"}, gcc |-> {"hwloc"}, lbl |-> {}],
         !.rpm_build_requires = [lbl |-> {}, gcc |-> Gmp, mkl |-> Gmp, debug |-> Gmp, intel |-> Gmp,
                                 cuda |-> Gmp],
         !.subpackages = ("petsc-examples" :> Sub(Everywhere, [all |-> {"petsc"}]))]]

Gnu   == [cc |-> "gcc", cxx |-> "g++", fc |-> "gfortran"]
Intel == [cc |-> "icx", cxx |-> "icpx", fc |-> "ifx"]

Flavor(name, parts, inherits, linalg) ==
    [name |-> name, inherits |-> inherits, parts |-> parts, linalg |-> linalg,
     bootstrap_gcc |-> TRUE, compilers |-> Gnu, bootstrap_compilers |-> NoCompilers,
     threading |-> "openmp", interface |-> "lp64", platform |-> "linux", configure_flags |-> {}]

\* The shipped Linux flavors, and one with mixed compilers, which
\* math_common rejects.
MCFlavors ==
    {Flavor("gcc", <<"gcc">>, NoParent, "openblas"),
     [Flavor("mkl", <<"mkl">>, NoParent, "mkl") EXCEPT !.bootstrap_compilers = Gnu],
     [Flavor("gcc-mkl-cuda", <<"gcc", "mkl", "cuda">>, NoParent, "mkl")
        EXCEPT !.bootstrap_compilers = Gnu],
     [Flavor("intel", <<"intel">>, NoParent, "mkl")
        EXCEPT !.compilers = Intel, !.threading = "intel"],
     Flavor("debug", <<"debug">>, "gcc", "lapack"),
     Flavor("lbl", <<"lbl">>, "gcc", "openblas"),
     [Flavor("gcc-mix", <<"gcc", "mix">>, NoParent, "openblas") EXCEPT !.compilers.fc = "ifx"]}

MCExtraSets == {{}, {"gcc", "binutils"}}

MCSystemMap ==
    [n \in {"gcc", "gcc-c++", "gcc-gfortran", "make", "git", "flex", "sed",
            "intel-oneapi-mkl", "slurm-devel"} |-> {n}]
      @@ [n \in {"glibc-devel", "ncurses-devel", "hwloc-devel", "gmp-devel",
                 "intel-oneapi-mkl-devel"} |-> {n, "dev"}]

MCExampleNames == {"petsc-examples"}
MCGoals == {"_meta", "examples", "spral", "lapacke"}

\* What theorems assume of recipes is true of these.
ASSUME RecipesAssumption ==
    /\ RecipesDeclareTheirLinks /\ RecipesNameTheirMath /\ RecipesLeaveMklToBuilders
    /\ RecipesOrderTheirNeeds /\ SubpackagesAskForNoMore
=============================================================================
