# A TLA+ model of scls

`scls` builds a stack of scientific libraries from YAML recipes, for a *flavor* (compiler, MPI,
BLAS, prefix), as rpm packages, as deb packages, or directly into a prefix ("direct" or "unix"
mode). The shell script `scls` is the driver; the Python programs under `python/` do the work, one
short-lived process per step. Nothing is remembered between two steps except files: recipes,
artifacts, build markers, the registry in the prefix, the host's package database. The hard part
of the program is that these files are written at different moments, by commands that may fail or
be killed between any two of them, and that every next step is decided from them alone.

This directory holds TLA+ modules for that part, TLC configurations that check them on small
instances, and proofs, checked by TLAPS, that hold for every instance.

| module | what it is |
|---|---|
| `TopologicalOrder` | what an order of packages promises, without counts, queues or ranks |
| `BuildOrder` | the computation of the build order (`build_order.py`); implements the former |
| `Recipes` | flavor names, selection, and the four readings of a recipe's dependencies |
| `BuildSettings` | compilers, flags, arguments and libraries of a build (`math_common.py`) |
| `Repository` | builds one flavor from its recipes, then a user installs from the result |
| `PackagingHost` | what packaging promises of a host, without commands, resolvers and markers |
| `StackBuild` | `scls build all` and the single commands on rpm and deb hosts; implements the former |
| `ManagedPrefix` | what direct mode promises of a prefix, without commands, trees, lists and recursion |
| `DirectInstall` | build, install, `build all`, registry and uninstall in direct mode; implements the former |
| `Sources` | the cache of source archives |
| `FrontEnd` | the other front end, `scls.py`, on every package format |
| `MCBuildOrder`, `MCRepository`, `MCStackBuild`, `MCDirectInstall`, `MCFrontEnd` | the small instances TLC checks |
| `BuildOrderProofs`, `BuildOrderRefinement`, `RecipesProofs`, `RepositoryProofs`, `StackBuildProofs`, `DirectInstallProofs`, `DirectInstallRefinement`, `FrontEndProofs` | theorems and proofs |
| `PROJECT.json` | runs, mutants, the map from definitions to source lines, hazards, theorems |

Operators commented "Mutation:" are faulty variants of the definition that follows them. No
specification uses them; replacing the definition by its variant must make TLC report the property
the mutant is listed for, which shows that the property depends on that piece of code.

## 1. Inventory

For each component: its state, its operations, what it exchanges with the others, what is hard
about it, and what makes it correct.

**Dependency order** (`python/build_order.py`). State: none between calls; while it runs,
in-degrees, a queue, ranks. Operations: `build_dependency_graph`, `topological_sort`,
`get_build_order`, `get_ordered_package_list`, `validate_build_order`. It is called by `scls
order` and, afresh before each step, by the loops of `scls build all`. Hard: edges are sets and
counts are per list entry, the queue is filled in set order (different in each process),
`environment` is moved to the front after the sort. Correct when every dependency precedes its
dependents, the result does not depend on the set order, and "Cycle detected" means a cycle.
*Modelled: `BuildOrder`, an implementation of `TopologicalOrder`.*

**Resolvers and the loop of `build all` on packaging hosts** (`scls`, `build_order.py`,
`rpm_builder.py`, `deb_builder.py`). State: binary packages (complete or cut short), build
markers, source packages, the host's database, the registry files that ship in the packages.
Operations: `get_next_uninstalled_package`, `get_next_unbuilt_package` (which also delete stale
markers), build, pack, mark, source package, install, prune; `scls build/install <pkg>` and `...
next`. Hard: any step may fail or be killed; recipes, artifacts and installed packages change
meanwhile; a step's effect is several files. Correct when builds start in dependency order, "Done"
is complete, nothing needed is pruned, and re-running completes the stack. *Modelled:
`PackagingHost`, `StackBuild`.*

**Direct mode and the registry** (`unix_builder.py`, `build_common.py`, `scls`). State: the one
`work/build` tree with its destdir, the prefix, the registry entries, the file lists in `files/`.
Operations: build (wipe, unpack, compile), install (stage, copy, list, register), the loop, and
uninstall with `--with-deps`, `--uninstall-dependents`, `--force`. Hard: the tree is shared by all
packages; the entry is written last and in place; the list of files to remove comes from the
checkout; the uninstall recurses over a set computed before the recursion changes it. Correct when
what is registered is what was built, dependencies of registered packages stay, no file is left
that nothing records, and the loop ends. *Modelled: `DirectInstall`, an implementation of
`ManagedPrefix`.*

**Recipe selection and flavors** (`load_yaml_files`, `normalize_dependencies`,
`get_package_dependencies`, `should_build_package`, `get_flavor_names`, `resolve_flavor_key`).
State: recipes, `flavor.conf`, `flavors/*.yaml`. Pure functions from them to the build set and to
dependencies; but four of them read the dependencies of the same recipe, each for another purpose:
the order, the check before a build, BuildRequires and Requires, Depends and Build-Depends. Hard:
only the first matching key counts, math and compiler dependencies are added by each reader in its
own way, `flavor.conf` opts recipes in that the order does not know. Correct when the order is
enough for what the builders demand, and the packages are enough for what users install.
*Modelled: `Recipes`, run against each other by `Repository`.*

**rpm spec and deb control** (`get_rpm_requires`, `get_subpackages_for_spec`, `get_deb_depends`,
`_binary_packages`, `build_flavor_meta_package`). State: the published packages. Hard: the two
builders must agree; rpm and dpkg order a transaction by Requires(pre) and Pre-Depends only, and
`environment` has to be unpacked first; internal packages must not reach users. *Modelled:
`Recipes`, `Repository`; file lists, scriptlets and the text are not.*

**Math libraries and build settings** (`math_common.py`, `get_configure_args`, `get_cmake_args`,
`get_direct_configure_command`, `UnixBuilder.configure`). Functions from flavor and recipe to
compilers, flags, arguments, link lines. Hard: the rpm builder writes them into a spec, the unix
builder (and with it the deb builder) computes them again; MPI wrappers hide the compiler family;
the MKL threading layer is a property of the flavor that each package chooses for itself. Correct
when both builders agree, all packages of a flavor use one threading layer, interface, OpenMP
runtime and BLAS, and what is linked is required. *Modelled: `BuildSettings`, `Repository`.*

**Sources** (`download_source`, `_validate_source_archive`, `extract_source`). State: the archive
cache, `.part` files. Hard: interrupted downloads, a check that reads one header. Correct when no
leftover makes every later build fail. *Modelled: `Sources`, as steps of `FrontEnd`.*

**The `scls.py` front end.** State: none of its own; it reads the registry, the markers, the
artifacts and the host's package database. Operations: detect the package format, `next`, build,
install, remove. Hard: it builds and installs in one command, takes the file written last, and in
direct mode removes the old version first; a package whose transaction failed is skipped by
`next`. Correct when what is installed is what was just built and `install next`, repeated,
completes the stack. *Modelled: `FrontEnd`.*

**Patches** (`patch_common.py`): chosen by flavor, interface and architecture, by one function
that both builders call, and applied by `patch`. A patch file that is missing is an error on the
unix builder and a warning on the rpm builder, which then uses an older copy in `rpmbuild/SOURCES`
if there is one. *Not modelled.*

**HSL installer, update checker, validators, web site generator, publishing scripts**: one-off
scripts, reports and text, run by hand. No step of a build calls them, and they keep no state that
another component reads. *Not modelled.*

`PROJECT.json` "hazards" lists what is hard to test in this code, line by line, with the
properties that watch it, or a note where none does.

## 2. The modules and the code

### BuildOrder

The recipes are the initial state: every assignment of a list from `RequireLists` to each package.
Each function or loop turn is an action: `BuildGraph`, `SeedQueue`, `ProcessNode(n)` (one turn of
the while loop), `FinishSort`, `ForceEnvironment`, `ListPackages`, `ValidateOrder`. `caller` tells
the two uses apart: the CLI validates the list, `get_ordered_package_list` does not and appends
the meta-package. The deque is a set and any member may be popped: set iteration order is
arbitrary in the code, and popping in any order includes every order the deque can give.
`position` is the resulting list as a function from name to index, computed from the sort key
(rank, name).

`TopologicalOrder` says what all this is for: `Place` takes a package after its needs, `Publish`
brings a list when all are taken, `GiveUp` is allowed when nothing can be taken. It also names the
two reservations the code makes: `environment` goes to the front whatever it needs (`Forced`), and
a package that lists a name twice may never be taken (`repeating`), because in-degrees count list
entries and edges are sets. `KeepsPromise` is the refinement: a popped node is placed, the first
state with a list publishes, a reported cycle gives up, every other action is a stutter.

### Recipes and BuildSettings

Operators only. A recipe is a record of the fields the code reads; a flavor a record of its name,
its parent, the hyphen-separated parts of its name, compilers, BLAS, threading and interface.
Lists of dependencies are sets (order and repeats are `BuildOrder`'s subject). `FlavorNames`,
`ResolveKey`, `Listed` are the lookup rules every field uses; `LoaderRequires`,
`PackageDependencies`, `RpmRequires`, `DebDepends` the four readings; `RpmPackages` and
`DebPackages` the packages with their requirements. In `BuildSettings` an argument is a flag, a
compiler, a library or a placeholder for libraries; `RpmSettings` and `UnixSettings` are what the
two builders make of a recipe. Search paths, optimization flags and quoting are left out.

Reading these definitions against the recipes brings out details that are easily missed:
flavor-specific entries hide one another (openmpi on `gcc-mkl-cuda` uses its own `flavor_args`
with `mkl`'s `requires`); `gcc-mkl-cuda` selects openblas, which is for `gcc`, through the parts
of its name, beside MKL; the docstring of `get_flavor_names` lists another order than the code
builds.

### Repository

| variable | in the code |
|---|---|
| `flavor`, `extras`, `kind` | the flavor, `extra_packages` of `flavor.conf`, the builder |
| `plan` | what the builder computes from each recipe: constant, computed once |
| `published` | `rpmbuild/RPMS` or `work/pkgs`: each package's requirements |
| `host`, `stopped` | the build host's installed names; recipes whose last build was refused |
| `phase`, `goal`, `txn`, `user`, `lib` | a user's transaction, the user's machine, its `<prefix>/lib` |

`BuildNext` and `StopNext` are a build that starts or is refused, `BuildExtra` the build of a
recipe opted in, `Install` the package with its subpackages, `BuildMeta` the end. Then `Request`,
`Resolve`, `Refuse`, `Unpack` are dnf and apt as the comments of the builders describe them: a
transaction is closed under requirements or refused; what waits for no Requires(pre) or
Pre-Depends is unpacked in any order. Of that order only one thing matters here, which package
brings the first files, so `Unpack` takes all that are ready and chooses the first among them.

### StackBuild

| variable | in the code |
|---|---|
| `recipe`, `recipesOk` | the version-release in the recipe; whether `build_order.py` can compute a list at all |
| `built`, `torn` | `rpmbuild/RPMS`, `work/pkgs`: versions whose file is complete, or cut short |
| `marker` | `{rpm,deb}build/registry/<flavor>/<pkg>.yaml` |
| `source` | `rpmbuild/SRPMS`, `work/spkgs` |
| `installed`, `registry` | the host's package database; `<prefix>/share/scls/registry` |
| `driver`, `result` | the running command and its step; how the last command ended |

`ResolveInstall`, `ResolveBuild`, `ResolveNothing` are the inline program in `scls` with both
resolvers, marker deletion included (`Visit`): a resolver that returns early has visited only the
names up to its answer. `ResolveRaises` is a traceback, which the script cannot tell from "nothing
left". `Compile`, `Pack`, `Mark`, `CreateSource` are the builders' `run`, `InstallVersion` and
`Prune` are `install_rpm`/`install_deb`. rpmbuild writes binary and source package in one command,
before the marker; deb writes binary, marker, source. The environment removes packages, edits or
reverts recipes, wipes artifacts, deletes registry files, breaks recipes, and kills commands, also
in the middle of a write. `Fail` is a failing step at any point that can fail: it is not counted
among the events. dnf, apt, rpmbuild and dpkg are modelled from how the code uses them: a
transaction is atomic and pulls in no other local package, the registry file is part of the
package, removal takes the dependents along. What a build asks for (`DependencyThere`) differs:
rpmbuild asks the rpm database for each BuildRequires and never reads the registry
(`check_package_installed` is imported by `rpm_builder.py` and not called); the deb builder takes
a registry entry or a `pkg-config` file of that name, in the prefix (`PcNames`: packages that ship
one) or on the host (`HostPc`). So after an `Unregister` a manual `build` of a dependent begins on
both hosts.

`PackagingHost` is what all this amounts to for packages and host: `Begin` a build where its needs
are in the package database (or `External`: on a deb host, `HostPc`), `Complete` it or
`BreakOff`, `Deliver` the newest complete package where its requirements are installed,
`Supersede` packages by a newer one that stays, `Withdraw` a package with its dependents,
`Unregister`, `Wipe`. `KeepsHost` is the refinement: `built`, `installed`,
`registry` and the build of a `driver` that packs (`InTheWorks`) are the abstract state; commands,
resolvers, markers and cut-short files stutter.

### DirectInstall

| variable | in the code |
|---|---|
| `tree`, `staged` | `work/build`: whose sources it holds; whether a destdir is beside them |
| `disk` | the prefix: for each file, the build it was copied from |
| `entry`, `cut` | `share/scls/registry/<pkg>.yaml`: the version whose dependencies it names; or only that it exists |
| `manifest` | `files/<pkg>.txt` |
| `driver`, `removal`, `result` | the running command; the recursion of a running uninstall |

`Wipe`, `Unpack`, `Compile` are `UnixBuilder.run` for `build`; `Stage`, `MakeInstall`,
`PublishFile(f)`, `ListFiles`, `Register` for `install`; `Render` for generated packages, which
`build` installs already. `Finish` is the end of a command: in the loop an install follows a build
at once and the resolver follows the install. `Enter`, `Descend`, `PlanRemoval`, `Unlink`, `Drop`,
`Keep` are the uninstall; `removal.stack` is the Python recursion, each frame with the dependents
it has still to visit. A version stands for a recipe state with its own dependencies and files.
Files are copied and removed one at a time, so a kill can come between any two. `RegisterFails` is
the writer that prints its failure and returns.

`ManagedPrefix` is what this amounts to for the prefix and its registry: `Copy` a file of a
package whose needs are there, `Record` a package that is in place with its needs met, `Delete` a
file on the list of a package that nothing recorded needs, `Forget` such a package when none of
its files is left. A need is there if it is recorded, on the host, or told by a file in the prefix
(`Telltale`: its `.pc` file). `RecordBadly` is an entry that a kill or a full disk leaves without
contents. `KeepsPrefix` is the refinement: `disk`, `entry` and `cut` are the abstract state, and
everything that only moves a command along is a stutter.

### Sources and FrontEnd

An archive is absent, whole, cut short (its first header is readable) or no archive at all; a
`.part` file is beside it or not. `BeginDownload`, `FinishDownload`, `AbandonDownload` and
`UseCached` are the branches of `download_source`.

| variable | in the code |
|---|---|
| `format` | what `load_config` and `detect_package_format` make of configuration and host |
| `registry`, `cut` | the prefix's registry; the entries that a kill or a full disk left empty |
| `installed` | the rpm or dpkg database; in direct mode, the version whose files are in the prefix |
| `artifacts`, `newest`, `marker` | package files, the one written last, the build markers |
| `driver`, `result`, `recipe` | the running command and its child; how it ended; recipe versions |

`InstallNext`, `InstallPackage`, `BuildPackage`, `BuildNext`, `RemovePackage`, `ForcePackage` are
the commands; `Uninstall`, `StartBuilder`, `Fetch`, `Transfer`, `Compile`, `Pack`, `Mark`,
`InstallNative`, `Publish` the steps of one. `Visit` is the resolver's deletion of stale markers.
Names matter: scls.py asks dpkg for the recipe's name, so `Findable` excludes names with an
underscore on deb hosts. `PublishUnrecorded` is an install in direct mode whose registry write
fails: it is printed, and the command exits 0 without an entry or with an empty one (`HalfWay` and
`CutEntry` are the same for a kill). An empty entry still counts as one (`HasEntry`), because the
resolvers and `check_package_installed` ask for the file only. The builders' other failures are
the subject of `StackBuild` and `DirectInstall`; here a builder is a download, a compilation and
what it leaves behind.

### How they compose

`StackBuild` and `DirectInstall` take as constant `Order` the list that `BuildOrder` computes.
What they assume of it (no name twice; in `StackBuild`, dependencies first) is what
`BuildOrderProofs` proves of it: theorem `DependenciesFirst`, and `RanksAreDepths` for its being
the same list in each process. Both are about the recipes of one moment; an edit that changes
dependencies in the middle of a loop is not modelled for `StackBuild`. `BuildOrder` takes the
dependency lists as they come; `Repository` computes them with `Recipes` and lets any package be
next whose edges are satisfied, which every list that keeps `OrderRespectsDeps` does. `FrontEnd`
includes `Sources`.

## 3. The runs

| run | question | instance |
|---|---|---|
| `BuildOrderLists` | Is the order right for every recipe set, does the sort end? | 3 packages, all lists of at most 2 of 4 names, both callers |
| `StackRpm` | Do builds start in dependency order, is Done complete, do sources stay? | rpm, 3 names, 2 versions, 3 events of 7 kinds, all commands |
| `StackDeb` | Is pruning safe with torn writes, can an install go back? | deb, 2 names, 2 versions, 4 events of 6 kinds, all commands |
| `StackLive` | Does re-running complete the stack? | deb, 3 names, 2 versions, 3 events |
| `Repository` | Do the readings of a recipe fit together, from the order to a user's machine? | 18 recipes cut from the shipped ones, 7 flavors, rpm and deb, with and without opted-in recipes, 4 user requests |
| `DirectCommands` | Do dependencies stay under every command? | 3 packages, one found by its own `.pc` file, 2 versions, files/ left alone, 2 events of 6 kinds, all options but `--force` |
| `DirectPrefix` | Is what is registered what was built, are files always recorded, is `ManagedPrefix` implemented? | 3 packages, sudo prefix, 3 events |
| `DirectLive` | Does the direct loop end with everything registered? | 3 packages, 2 versions, 3 events |
| `FrontEnd` | Does `install next` deliver what it built, say the truth and come to an end? | 2 recipes and the meta-package, 2 versions, 4 formats, 2 events of 7 kinds (rpm, deb), 8 (plain Linux) or 2 (macOS) |

`BuildOrderLists`, `StackRpm`, `StackDeb`, `StackLive` and `DirectPrefix` also check a refinement
(`KeepsPromise`, `KeepsHost`, `KeepsPrefix`); `StackLive` does it for a deb list whose builds have
needs.
`Repository` checks three kinds of statement. About the readings themselves: `DebIsTranslatedRpm`,
`BuildersAgree`. About what has been built together: `OneThreadingModel`, `LinkedIsInstalled`.
About the behaviour: a build is stopped, and a user refused, only by a recipe that was opted in
and never built (`StopsOnlyForExtras`, `RefusedOnlyForExtras`), `environment` is unpacked first
(`LayoutFirst`), internal packages stay on the build host (`InternalStaysOnHost`), transactions
end (`TransactionEnds`) and the whole flavor is built (`StackIsBuilt`, for flavors that
`math_common` accepts; the instance has one that it rejects).

Three runs show a disagreement between the code and what its own comments and messages say; each
has one property and a counterexample of a few steps. `PROJECT.json` "findings" quotes the lines.

- `StackDebSource`: on deb hosts the marker precedes the source package; if the source step fails,
  a re-run installs the package and never makes its source.
- `DirectOtherTree`: `scls build zlib; scls install hdf5` publishes zlib's files and registers
  hdf5.
- `FrontEndNext`: after a failed transaction `scls.py install next` skips the package and ends
  with "All packages are already installed."

Three more behaviours are modelled, and TLC finds them when asked, but no run is kept for them:
when `build_order.py` raises, `build all` takes the traceback for "nothing left", prints Done and
exits 0 (`ResolveRaises`; `DoneIsComplete` has the precondition); after a `git pull`, uninstall
removes what the checkout's new file list names, drops the entry and leaves the rest behind
(`Unlinking`; `NothingUnrecorded` is checked for fixed recipes); and `--uninstall-dependents` over
a diamond meets a dependent twice and exits half-way (`NotInstalled`).

**Bounds.** Three names are the smallest set with a chain, a shared dependency and a meta-package
(the questions of `StackDeb` concern one package at a time: it has two names and more events);
two versions are enough to tell newer from older and this from another build. Hazards need one
interruption plus one or two changes around it, so two or three events reach them: the three
violations above need at most one. All bounds (`MaxVersion`, `MaxEvents`) are constants, and the
theorems hold for all their values. `BuildOrder` has no bound but the instance. The direct and
packaging modules never stop (the operator can always start a command), so deadlock is checked;
the order computation returns, so it is not checked there. The liveness runs have only `build all`
as a command and no wipes, reverts or broken recipes (see section 5).

The excerpt in `MCRepository` has every shape of recipe the code tells apart: bootstrap and
generated recipes, each configure type, serial and parallel math, MPI wrappers, subpackages with
and without the recipe's own name, keys of flavors, parents and name components, internal and
opted-in recipes. The flavors are the shipped Linux ones and one with mixed compilers. A user who
has what was asked for stops, so deadlock is not checked there. `MCRepository`
also has TLC evaluate the five hypotheses about recipes that theorems of `RepositoryProofs` have
(`RecipesAssumption`): the excerpt satisfies all of them, in all its flavors. `FrontEnd` needs two
recipes, of which one depends on the other and has a name Debian does not allow.

**Faults in `FrontEnd`.** Kills at any step, lost registry entries, wiped artifacts, archives
that are replaced by something else, recipe edits, forced installs, a meta-package from elsewhere,
registry writes that fail, and failures of a child at any step. One fault is left out of the
passing run on rpm and deb hosts, a child or transaction that stops between the package and its
installation ("refuse"): `next` never returns to such a package, which is what `FrontEndNext`
shows.

**Fairness.** `BuildOrder`: weak fairness of `Next`; a single-threaded program runs on.
`StackLive`: weak fairness of the operator starting `build all`, of the resolver, of `Mark`,
`Prune` and `Fail` (a step that cannot succeed fails), strong fairness of `Compile`, `Pack`,
`CreateSource` and `Install`: the operator re-runs the command, as its error messages ask ("fix,
and re-run"), and a step tried again and again eventually succeeds. No fairness is assumed of the
environment, and nothing makes a package that cannot be installed installable. `DirectLive`: weak
fairness of starting the loop and of its steps; failures there are events and so are bounded.
`FrontEnd`: strong fairness of `install next` and of each step that may fail, per recipe (the
operator comes back, and what is tried again and again does not fail for ever), weak fairness of
the steps that cannot fail and of failing. `Repository`: weak fairness of building and installing
what can be built or installed, of the opted-in builds, of the meta-package, and of a transaction
that has begun; none of the user.

## 4. What is proved

All theorems are of the form `Spec => []P` or `Spec => [][A]_vars`, three are refinements; each
holds for every value of the constants that satisfies the named assumptions; none uses a bound.

`BuildOrderProofs` (any finite build set, any lists). While the sort runs, the in-degree of a
package is at least the number of its dependencies still to be processed, and equal to it if no
name is repeated (`Counts`); a package has in-degree 0 exactly when it was queued (`QueueInv`);
its rank accounts for the processed dependencies (`RankInv`). `RankIsDepth` alone is not
inductive: it says nothing before the sort ends. From the invariant follow `TypeCorrect`
(in-degrees stay natural), `NothingPoppedTwice`, `DependenciesFirst`, `RanksAreDepths`,
`CyclesAreReal`, `EnvironmentIsFirst`, `RejectionIsForEnvironment`.

`BuildOrderRefinement`. `OrderKeepsPromise` says that `BuildOrder` implements `TopologicalOrder`,
`Spec => KeepsPromise`, step by step: a popped node has in-degree 0, so nothing it needs is
waiting (`PoppingIsPlacing`); when the sort fails, each unprocessed package without a repeated
name waits for another (`FailingIsGivingUp`); when there is a list, all are processed (`DoneInv`,
because a subset of equal cardinality is the set), needs come first and no two packages share a
place, since the sort key is a linear order (`ListingIsPublishing`). Everything else stutters.

`RecipesProofs` is a library of lemmas about the operators of `Recipes` and `BuildSettings`: when
two flavors or recipes resolve a key to the same value, how expansion of placeholders, math
libraries and compilers of the two builders compare (`SameExpansion`, `SameSettings`).

`RepositoryProofs` (any catalog, flavor, `flavor.conf`, any user requests, both builders). The
plan is what the builder computes from the catalog and does not change (`PlanInv`).

- `LayoutIsFirst`: everything published but `environment` and the meta-packages waits for
  `environment` (`LayoutInv`), so nothing is unpacked before it.
- `InternalStays`: no published package outside META_EXCLUDED requires a member of it, and so none
  is drawn into a transaction; it assumes that users do not ask for one and that no subpackage
  lists one (`InternalAssumption`), which the recipes satisfy and the code does not check.
- `TypeCorrect`: what is published, on the host, in a transaction and on the user's machine are
  packages of the plan. It needs that no two recipes produce packages of one name and none that of
  a meta-package (`NamesAssumption`), which nothing in the builders checks.
- `DebReadsLikeRpm`, without a hypothesis: the deb builder requires what the rpm builder does, in
  Debian's names, for every recipe and flavor.
- `ConfigureLinesAgree`: both builders make the same configure line, under `RecipesNameTheirMath`:
  the flavor's bootstrap compilers are of its own family, it is neither LLVM nor Accelerate, it
  adds no `configure_flags`, and a recipe names the math it links. The hypothesis is about
  recipes and flavors only; which key of `flavor_args`, `interface` and `bootstrap` applies is
  left open. Outside of it the builders do differ, in those very places.
- `LibrariesAreThere`: no transaction ends with a library of the stack missing that an installed
  main package was linked with, unless the recipe lists it under a subpackage of its own name
  (`LeftOut`; section 5), under `RecipesDeclareTheirLinks`: recipes list the packages whose
  libraries they name *themselves*, in arguments or placeholders. Math, MPI and runtime libraries
  are not in the hypothesis: that the builders' injected requirements cover them is what
  `PackagesRequireTheirLinks` proves, for every BLAS and threading model. The rest of the argument
  is that a user's machine is closed under requirements whenever no transaction runs
  (`ClosedInv`).
- `OneThreadingLayer`: over everything built for a flavor there is one MKL threading layer, one
  interface, one OpenMP runtime and one BLAS, and who links a part of MKL links all of it, under
  `RecipesLeaveMklToBuilders`: recipes name no part of MKL, and no other BLAS or runtime, of
  their own (cmake recipes on MKL flavors, which get all of MKL anyway, may repeat parts), and the
  flavor's compilers are of one family. The proof goes through each place where a builder adds
  libraries: compiler drivers, OpenMP flags, link lines, placeholders, cmake's standard libraries
  and the makefile's macros. Each takes what it adds from the flavor, and MKL all or nothing
  (`SettingsFit`), although each decides on its own whether the package uses threads.
- `OrderIsEnough`: a build that is next is stopped only by a recipe opted in and not built yet.
  Names before it are installed with their subpackages, and what an installed package needed is
  installed (`HostInv`); so it is enough that what a build demands is an edge of the order, or
  was demanded by one. `RecipesOrderTheirNeeds` asks the first or second of what a recipe
  *lists*; that the builders' own demands (gcc, openmpi, the math libraries) are edges or follow
  from them is proved (`GccIsOrdered`, `MathIsOrdered`), and this is where the keys of the
  loader's entries meet `linalg` and the MPI flag.
- `PublishedIsInstallable`: a user is refused only a meta-package, and only while a recipe opted
  in is missing. What a package requires was on the host when it was built (`HostInv`), except
  that subpackages have lists of their own: `SubpackagesAskForNoMore` says these name siblings or
  what the build needed. No transaction but a meta-package's draws in a meta-package
  (`GoalInv`).

The hypotheses speak of recipes and flavors only, and no builder checks them. The last two were
also evaluated over all 58 recipes of `recipes/` in the seven shipped flavors, outside of TLC and
except for the Debian names: one case fails, strumpack on `gcc-mkl-cuda` (section 5).

`StackBuildProofs` (any order, dependencies, format, versions, events). The invariant adds to the
types that what is about to be pruned is older than a complete package that stays (`PruneInv`;
without it the step that prunes may delete the last package), and, on rpm without torn writes,
that every binary package has its source (`SourceInv`). Theorems: `TypeCorrect`, `SourcesStay`,
`FallbackStays`, `BuildsAreReady`, `DoneMeansComplete`. The last two need an argument about the
resolvers: the first unbuilt name in the order, when nothing is uninstalled, has only registered
names before it. `InstallsAreNotOlder` has an invariant of its own, `MarkerInv`: what a marker
names, or something newer, is on disk, whatever a running build has packed or an install is about
to prune (`MarkersAreCovered`). It assumes `MarkersAreVisited`, that artifacts are not wiped or
nobody runs `scls build <pkg>`, because that command is the one that builds past a stale marker
(section 5). `StackKeepsHost` says that `StackBuild` implements `PackagingHost`,
`Spec => KeepsHost`: `CompilingBegins` (a registry entry is shipped by an installed package, so on
either format what the builder accepts is in the package database or on the host),
`PackingCompletes`, `StoppingBreaksOff`, `InstallingDelivers`, `PruningSupersedes` (which needs
`PruneInv`), `RemovingWithdraws` (what needs a removed package is removed: `DependentsAreClosed`);
everything else stutters.

`DirectInstallProofs`. In `DependenciesRemain` a package may be found by a `.pc` file of its own,
which `pkg-config` accepts when the entry is gone. It assumes `NoBackDoor`: no `--force`; no
package stages the `.pc` file of another (true of the shipped `files/*.txt`); and where `install`
rewrites the file list, as on Linux, either nobody runs it by hand or no package is found in this
way. The last part is needed: an install that publishes another package's tree (`DirectOtherTree`)
also lists its files, and the uninstall of the wrong package then takes the `.pc` file away
(section 5). The invariant must carry what a running uninstall has still to do: nothing readable
depends on the package being unlinked, what `--with-deps` will remove next is needed by that
package alone, and no `.pc` file is on the list of another package or about to be removed with one
(`PcInv`), for which the tree that the loop or a manual `build` leaves must be the package's own
when it is published (`TreeInv`). `LoopPublishesOwnBuild` assumes `LoopOnly`: no manual build or
install and no recipe edits, which `DirectOtherTree` shows to be necessary for the first; its
invariant follows tree, destdir and copied files from the wipe to the entry. `TypeCorrect`
includes that the uninstall's stack is empty exactly when no uninstall runs. `FilesAreRecorded`
proves `NothingUnrecorded`: every file in the prefix is one that its package stages, the list of a
registered package is whole (a kill may cut a list short, but only before there is an entry), and
of a registered package that is being unlinked only files that are still to be removed are left
(`FilesInv`), so the entry that goes is that of a package with nothing left. It assumes
`FileListsStay`: recipes are not edited, and `install` leaves the lists alone (macOS) or only the
loop runs it. TLC finds the property violated without either half (section 5).

`DirectInstallRefinement`. `DirectKeepsPrefix` says that `DirectInstall` implements
`ManagedPrefix`, `Spec => KeepsPrefix`, under `Orderly` (`LoopOnly` and `NoBackDoor` together).
Every concrete step that touches prefix or registry is shown to be one abstract action or a
stutter (`CopyingIsCopy`, `RegisteringIsRecord`, `SpoilingIsRecordBadly`, `UnlinkingIsDelete`,
`DroppingIsForget`, `OtherStepsStutter`). It draws on all the invariants above and one more: what
an uninstall removes is on the list of the package it takes out (`ListInv`). Packages may share
files: the theorem then says that a deleted file is on the list of some package that nothing
needs, not that it is on no other list.

`FrontEndProofs` (any recipes, format, configuration and host, any events). `InstallDelivers`: an
install that exits 0 leaves the version that its own build made, although files of other versions
lie beside it, and in direct mode registers it unless the write of the entry failed;
`NextMakesProgress`: an `install next` that exits 0 brought what was not there, with the same
exception. The invariant says what the child processes rely on: between build and install the file
written last is that of the running command (`WrittenInv`), an old version that direct mode has to
remove is removed first, and what `next` chose is not installed yet (`RunInv`). `TypeCorrect`
includes that on rpm and deb hosts the registry names the version in the host's database.

**Only model-checked:** liveness (`Returns`, `StackCompletes`, `DirectCompletes`,
`InstallNextCompletes`, `StackIsBuilt`, `TransactionEnds`), which TLAPS does not do under
fairness. Every invariant and action property that a passing run checks is also a theorem.

## 5. What the models do not say

- One command runs at a time. Two `scls` processes on one `work/build` are not modelled.
- `Order` and dependencies do not change while `StackBuild` runs; `DirectInstall` lets
  dependencies change with a recipe's version, not the order.
- `StackCompletes` is checked without wipes, reverts and broken recipes. With each of them it does
  not hold. After a wipe, when a dependency is removed from the host while a dependent is built
  but not installed, every re-run tries that install first and fails, and never gets to build the
  dependency again. After a revert, a cut-short deb of the higher version is the one every install
  picks, by its file name. While `build_order.py` raises, the loop stops at once.
- Install takes the highest version on disk. After a revert that is not the last build;
  `InstallNotOlderThanBuild` says only that it is never an older one. Even that fails after
  `rm -rf rpmbuild/RPMS` in one case: version 2 is built, wiped, the recipe goes back to 1, and
  `scls build <pkg>`, which does not look at the marker, is killed after packing version 1 and
  before writing its marker. The next install delivers 1 where the marker says 2.
- `NothingUnrecorded` fails when the list that uninstall reads is not that of the files in the
  prefix: after a `git pull` that changes it, and after an `install` that published another
  package's tree (`DirectOtherTree`) and listed its files.
- `DependenciesStay` fails for the same reason on Linux, with a manual `install`: zlib's tree is
  published as hdf5, and hdf5 is uninstalled; `zlib.pc` is gone, by which a package without an
  entry was found. `DirectCommands` therefore leaves `files/` alone, as the code does on macOS;
  lists that are rewritten and cut short are the subject of `DirectPrefix`.
- After a recipe edit `build all` still says Done: registry files and markers hold no version that
  is compared.
- A name listed twice in list-form requires makes `topological_sort` report a cycle (`CycleIsReal`
  and `CyclesAreReal` have the precondition); an `environment` with dependencies of its own shares
  rank 0 (`EnvironmentFirst` has the precondition).
- When both writes of a registry entry fail, the install reports success without an entry
  (`RegisterFails`, `PublishUnrecorded`); the loop and `install next` then build the package
  again. The docstring of the writer promises otherwise ("it will always write at least a minimal
  registry entry", build_common.py:1652). `DeliversItsBuild` and `NextBringsSomething` name this
  step as their exception, for that one step only; `InstallNextCompletes` and `DirectCompletes`
  have none, since a write that fails every time is no longer a fault but a broken host.
- Files of different packages are disjoint in the instances; cleanup of empty directories,
  `--dry-run`, `test`, `pkg`, dylib fixes and invocations with several commands are left out; so
  is a host that has artifacts of both formats.
- `Repository` builds with every step succeeding that the recipes allow: its failures are
  refusals. Packages of the host are taken as available, on the build host and the user's; a name
  without a Debian translation cannot occur with the map the instance takes from the code.
- The lapack package can be installed without blas, which its liblapack links
  (todo/backlog.md:78): the recipe lists blas under the subpackage `lapack`, and both builders
  drop what a subpackage named like its recipe requires. `LinkedIsInstalled` and
  `LibrariesAreThere` except what is dropped in this way (`LeftOut`) and nothing else; without the
  exception a user of the debug flavor who installs lapacke refutes them. What other packages'
  own build files link, beyond the libraries that the recipe or the builder names, is not known
  to the model.
- `build next` and `order` ignore `extra_packages`; `StopsOnlyForExtras` and
  `RefusedOnlyForExtras` say what follows from it and that nothing else does.
- `BuildersAgree` has one exception, `interface_args` of `custom` recipes, which the unix builder
  leaves out. On MKL flavors every cmake package links MKL, but only recipes with `math` require
  it from the host. LLVM toolchains are modelled and not exercised: no shipped Linux flavor uses
  one.
- A package keyed for a less specific flavor can lose its edge to an injected entry (strumpack's
  `cuda: [slate]` on `gcc-mkl-cuda`); such a recipe is not in the excerpt, and with it
  `StopsOnlyForExtras` would fail, because the model does not use the alphabetical order that
  saves the build. `RecipesOrderTheirNeeds` is exactly what it violates.
- armadillo names `mkl_gf_lp64` whatever the flavor's interface; in an ilp64 flavor it would
  break `RecipesLeaveMklToBuilders`. No shipped flavor is one.
- `Sources`: mirrors, curl's own retries, git sources and the renaming of the extracted directory
  are left out. A truncated archive passes the check of its first header (`Accepted`); no event
  of the instance produces one, since curl compares lengths. No two recipes share a file name.
- `FrontEnd`: `next` ends with an error at the meta-package, which has no recipe (`Launch`); a
  .pkg is looked for in another directory than it is written to (`Publish`); names with an
  underscore are built and never installed on deb hosts (`Findable`). `scls-release`, `list` and
  `info` are left out.

## 6. Plan

Done so far: the core (order, loops, direct mode), recipes and settings with their composition,
the second front end, refinements of the order, of packaging hosts and of direct mode, and proofs
of all safety properties. What is left, in this order:

1. The split of staged files into subpackages (it should be a partition, the same on both
   builders).
2. Two commands at once on one work tree; a host with artifacts of both formats.
