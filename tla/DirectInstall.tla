--------------------------- MODULE DirectInstall ---------------------------
(***************************************************************************)
(* Direct (unix) mode: unix_builder.py compiles in the one work tree,      *)
(* publishes straight into the prefix and records the package in the       *)
(* registry; uninstall_package takes it out again.  The scls script adds   *)
(* `build all': for each package of the list that is not registered, one   *)
(* `scls build' and one `scls install'.                                    *)
(*                                                                         *)
(*   tree/staged  work/build: whose sources it holds, and whether it holds *)
(*                a destdir beside them                                    *)
(*   disk         the prefix: the build each file was copied from          *)
(*   entry/cut    <prefix>/share/scls/registry/<pkg>.yaml: the version     *)
(*                whose dependencies it names, or that the file is there   *)
(*                without them (cut short, or the writer's minimal entry)  *)
(*   manifest     files/<pkg>.txt in the checkout, what uninstall removes  *)
(*                                                                         *)
(* One command runs at a time.  A version stands for a recipe state, with  *)
(* its own dependencies and files.  A step may be killed anywhere.         *)
(***************************************************************************)
EXTENDS Naturals, Sequences, FiniteSets

CONSTANTS
    Order,           \* get_ordered_package_list without FLAVOR_META
    Files,           \* paths below the prefix
    Deps,            \* name -> version -> the names of the build set it needs
    Payload,         \* name -> version -> the files its `make install' stages
    PcFile,          \* name -> the .pc file pkg-config would find it by, if any
    HostPc,          \* names the host's own pkg-config answers for
    Generated,       \* packages rendered from templates, without sources
    NameOrder,       \* alphabetical position of a name
    NameStarts,      \* name -> names whose source directory begins with it
    WritesManifest,  \* TRUE on Linux; on macOS files/ is left alone
    Privileged,      \* TRUE where the prefix is written with sudo
    MaxVersion,      \* bound: recipe versions are 1 .. MaxVersion
    Commands,        \* the commands the operator uses
    Options,         \* the option sets of an uninstall
    Events,          \* what may happen around the tool
    MaxEvents        \* bound: how many of them happen

Packages == {Order[i] : i \in DOMAIN Order}
Versions == 1 .. MaxVersion
Builds   == [pkg : Packages, version : 0 .. MaxVersion]
NoBuild  == [pkg |-> Order[1], version |-> 0]

ASSUME OrderAssumption ==
    /\ Order \in Seq(Packages) /\ Order # <<>>
    /\ \A i, j \in DOMAIN Order : Order[i] = Order[j] => i = j
ASSUME RecipeAssumption ==
    /\ MaxVersion \in Nat \ {0}
    /\ Deps \in [Packages -> [Versions -> SUBSET Packages]]
    /\ Payload \in [Packages -> [Versions -> SUBSET Files]]
    /\ \A p \in Packages : \A v \in Versions : Payload[p][v] # {}
    /\ PcFile \in [Packages -> SUBSET Files]
ASSUME HostAssumption ==
    /\ HostPc \subseteq Packages
    /\ Generated \subseteq Packages
    /\ NameOrder \in [Packages -> Nat]
    /\ NameStarts \in [Packages -> SUBSET Packages]
    /\ WritesManifest \in BOOLEAN
    /\ Privileged \in BOOLEAN
ASSUME OperatorAssumption ==
    /\ Commands \subseteq {"all", "build", "install", "uninstall"}
    /\ Options \subseteq SUBSET {"with-deps", "dependents", "force"}
    /\ Events \subseteq {"kill", "tear", "bump", "full", "fail", "stuck"}
    /\ MaxEvents \in Nat

VARIABLES
    recipe,      \* the version each recipe file names
    tree, staged,
    disk,
    entry, cut,
    manifest,
    driver,      \* the running command
    removal,     \* what a running uninstall still has to do
    result,      \* how the last command ended
    events       \* how many events have happened

vars == <<recipe, tree, staged, disk, entry, cut, manifest, driver, removal, result, events>>
work == <<tree, staged>>
registry == <<entry, cut>>

Idle == [pc |-> "idle", command |-> "none", pkg |-> Order[1], version |-> 0,
         from |-> NoBuild, todo |-> {}]
NoRemoval == [stack |-> <<>>, rest |-> {}, failed |-> FALSE, option |-> {}]

Init ==
    /\ recipe = [p \in Packages |-> 1]
    /\ tree = NoBuild
    /\ staged = FALSE
    /\ disk = [f \in Files |-> NoBuild]
    /\ entry = [p \in Packages |-> 0]
    /\ cut = {}
    /\ manifest = [p \in Packages |-> Payload[p][1]]
    /\ driver = Idle
    /\ removal = NoRemoval
    /\ result = "none"
    /\ events = 0

-----------------------------------------------------------------------------
(***************************************************************************)
(* build_common.py: what the registry says.                                *)
(***************************************************************************)

\* The entry exists, readable or not.
Registered(p) == entry[p] # 0 \/ p \in cut

Present(f) == disk[f].version # 0

\* check_package_installed: the registry, else pkg-config.
Available(p) == Registered(p) \/ p \in HostPc \/ \E f \in PcFile[p] : Present(f)

\* get_reverse_dependencies: only whole entries name their dependencies.
ReverseDeps(p) == {q \in Packages \ {p} : entry[q] # 0 /\ p \in Deps[q][entry[q]]}

\* check_dependencies of the running command.
DepsThere == \A d \in Deps[driver.pkg][driver.version] : Available(d)

-----------------------------------------------------------------------------
(***************************************************************************)
(* Commands and the loop of `build all'.                                   *)
(***************************************************************************)

\* A new process reads the recipe once, at its start.
Run(pc, command, p) ==
    driver' = [Idle EXCEPT !.pc = pc, !.command = command, !.pkg = p, !.version = recipe[p]]

End(r) == driver' = Idle /\ removal' = NoRemoval /\ result' = r

\* Mutation: the loop goes on without its install command.
FinishWithoutInstall ==
    /\ driver' = IF driver.command = "all build" THEN [Idle EXCEPT !.pc = "resolve"] ELSE Idle
    /\ result' = IF driver'.pc = "idle" THEN "ok" ELSE result
    /\ UNCHANGED removal

\* A command succeeds: the loop runs its install after its build, then resolves.
Finish ==
    /\ CASE driver.command = "all build"   -> Run("stage", "all install", driver.pkg)
         [] driver.command = "all install" -> driver' = [Idle EXCEPT !.pc = "resolve"]
         [] OTHER                          -> driver' = Idle
    /\ result' = IF driver'.pc = "idle" THEN "ok" ELSE result
    /\ UNCHANGED removal

StartAll ==
    /\ driver.pc = "idle" /\ "all" \in Commands
    /\ driver' = [Idle EXCEPT !.pc = "resolve"]
    /\ UNCHANGED <<recipe, work, disk, registry, manifest, removal, result, events>>

StartBuild(p) ==
    /\ driver.pc = "idle" /\ "build" \in Commands
    /\ Run("build", "build", p)
    /\ UNCHANGED <<recipe, work, disk, registry, manifest, removal, result, events>>

StartInstall(p) ==
    /\ driver.pc = "idle" /\ "install" \in Commands
    /\ Run("stage", "install", p)
    /\ UNCHANGED <<recipe, work, disk, registry, manifest, removal, result, events>>

\* get_next_unbuilt_package: the first package without a registry file (direct
\* mode leaves no local build markers).
IsNext(i) == ~Registered(Order[i]) /\ \A j \in 1 .. i - 1 : Registered(Order[j])

ResolveBuild(i) ==
    /\ driver.pc = "resolve"
    /\ IsNext(i)
    /\ Run("build", "all build", Order[i])
    /\ UNCHANGED <<recipe, work, disk, registry, manifest, removal, result, events>>

\* Only the meta-package is left, which direct mode does not build.
ResolveMeta ==
    /\ driver.pc = "resolve"
    /\ \A p \in Packages : Registered(p)
    /\ End("done")
    /\ UNCHANGED <<recipe, work, disk, registry, manifest, events>>

-----------------------------------------------------------------------------
(***************************************************************************)
(* UnixBuilder.run                                                         *)
(***************************************************************************)

\* `build': the work tree is wiped, whoever left it, before the download.
Wipe ==
    /\ driver.pc = "build" /\ driver.pkg \notin Generated
    /\ DepsThere
    /\ tree' = NoBuild
    /\ staged' = FALSE
    /\ driver' = [driver EXCEPT !.pc = "fetch"]
    /\ UNCHANGED <<recipe, disk, registry, manifest, removal, result, events>>

\* The sources are there: unpacked and patched.
Unpack ==
    /\ driver.pc = "fetch"
    /\ tree' = [pkg |-> driver.pkg, version |-> driver.version]
    /\ driver' = [driver EXCEPT !.pc = "compile"]
    /\ UNCHANGED <<recipe, staged, disk, registry, manifest, removal, result, events>>

Compile ==
    /\ driver.pc = "compile"
    /\ Finish
    /\ UNCHANGED <<recipe, work, disk, registry, manifest, events>>

\* Mutation: the entry is written before the files are copied.
RegisterFirst(b) == driver' = [driver EXCEPT !.pc = "register", !.from = b,
                                             !.todo = Payload[b.pkg][b.version]]

Publishing(b) == driver' = [driver EXCEPT !.pc = "publish", !.from = b,
                                          !.todo = Payload[b.pkg][b.version]]

\* install_generated, which `build' runs as well as `install'.
Render ==
    /\ driver.pc \in {"build", "stage"} /\ driver.pkg \in Generated
    /\ DepsThere
    /\ Publishing([pkg |-> driver.pkg, version |-> driver.version])
    /\ UNCHANGED <<recipe, work, disk, registry, manifest, removal, result, events>>

\* `install' without `build': the only directory in the work tree, whatever it
\* is; with a destdir beside it, the one whose name begins with the package's.
Usable == tree.version # 0 /\ (staged => tree.pkg \in NameStarts[driver.pkg])

Stage ==
    /\ driver.pc = "stage" /\ driver.pkg \notin Generated
    /\ DepsThere
    /\ Usable
    /\ staged' = TRUE
    /\ driver' = [driver EXCEPT !.pc = "staging"]
    /\ UNCHANGED <<recipe, tree, disk, registry, manifest, removal, result, events>>

\* make install DESTDIR=...; it finishes an unfinished tree, or fails (a Fail
\* before anything is published).
MakeInstall ==
    /\ driver.pc = "staging"
    /\ Publishing(tree)
    /\ UNCHANGED <<recipe, work, disk, registry, manifest, removal, result, events>>

\* Missing dependencies, or no build directory: BuildError before any change.
Refuse ==
    /\ \/ driver.pc \in {"build", "stage"} /\ ~DepsThere
       \/ driver.pc = "stage" /\ driver.pkg \notin Generated /\ ~Usable
    /\ End("error")
    /\ UNCHANGED <<recipe, work, disk, registry, manifest, events>>

\* The copy into the prefix, file by file.
PublishFile(f) ==
    /\ driver.pc = "publish" /\ f \in driver.todo
    /\ disk' = [disk EXCEPT ![f] = driver.from]
    /\ driver' = [driver EXCEPT !.todo = @ \ {f},
                                !.pc = IF driver.todo = {f} THEN "list" ELSE "publish"]
    /\ UNCHANGED <<recipe, work, registry, manifest, removal, result, events>>

\* generate_rpm_file_list: files/<pkg>.txt now lists what was just installed.
ListFiles ==
    /\ driver.pc = "list"
    /\ manifest' = IF WritesManifest /\ driver.pkg \notin Generated
                   THEN [manifest EXCEPT ![driver.pkg] =
                           Payload[driver.from.pkg][driver.from.version]]
                   ELSE manifest
    /\ driver' = [driver EXCEPT !.pc = "register"]
    /\ UNCHANGED <<recipe, work, disk, registry, removal, result, events>>

\* write_registry_entry: the version is the recipe's, not the tree's.
Register ==
    /\ driver.pc = "register"
    /\ entry' = [entry EXCEPT ![driver.pkg] = driver.version]
    /\ cut' = cut \ {driver.pkg}
    /\ Finish
    /\ UNCHANGED <<recipe, work, disk, manifest, events>>

-----------------------------------------------------------------------------
(***************************************************************************)
(* uninstall_package_cli, uninstall_package, _uninstall_single_package     *)
(***************************************************************************)

Depth == Len(removal.stack)
Top   == removal.stack[Depth]

StartUninstall(p, o) ==
    /\ driver.pc = "idle" /\ "uninstall" \in Commands /\ o \in Options
    /\ driver' = [Idle EXCEPT !.pc = "enter", !.command = "uninstall"]
    /\ removal' = [NoRemoval EXCEPT !.stack = <<[pkg |-> p, todo |-> {}]>>, !.option = o]
    /\ UNCHANGED <<recipe, work, disk, registry, manifest, result, events>>

\* The dependents to take out first are looked up once, on entry.
Enter ==
    /\ driver.pc = "enter"
    /\ Registered(Top.pkg)
    /\ removal' = [removal EXCEPT !.stack[Depth].todo =
                     IF "dependents" \in removal.option THEN ReverseDeps(Top.pkg) ELSE {}]
    /\ driver' = [driver EXCEPT !.pc = "dependents"]
    /\ UNCHANGED <<recipe, work, disk, registry, manifest, result, events>>

\* "is not installed": sys.exit(1), from whatever depth of the recursion.
NotInstalled ==
    /\ driver.pc = "enter"
    /\ ~Registered(Top.pkg)
    /\ End("error")
    /\ UNCHANGED <<recipe, work, disk, registry, manifest, events>>

\* Recursion into the dependents, in sorted order.
Descend(d) ==
    /\ driver.pc = "dependents" /\ d \in Top.todo
    /\ \A q \in Top.todo : NameOrder[d] <= NameOrder[q]
    /\ LET caller == [removal.stack EXCEPT ![Depth].todo = @ \ {d}]
       IN  removal' = [removal EXCEPT !.stack = Append(caller, [pkg |-> d, todo |-> {}])]
    /\ driver' = [driver EXCEPT !.pc = "enter"]
    /\ UNCHANGED <<recipe, work, disk, registry, manifest, result, events>>

Unlinking(p) == [driver EXCEPT !.pc = "unlink", !.pkg = p,
                               !.todo = {f \in manifest[p] : Present(f)}]

\* Mutation: --with-deps takes along whatever the package was built against.
AllDeps(p) == IF "with-deps" \in removal.option /\ Depth = 1 /\ entry[p] # 0
              THEN Deps[p][entry[p]] ELSE {}

\* --with-deps: the recorded dependencies that nothing else needs.
OwnDeps(p) == IF "with-deps" \in removal.option /\ Depth = 1 /\ entry[p] # 0
              THEN {d \in Deps[p][entry[p]] : ReverseDeps(d) \subseteq {p}} ELSE {}

\* Mutation: the check for dependents was made by the caller.
MayGoUnchecked(p) == Registered(p)

MayGo(p) == Registered(p) /\ (ReverseDeps(p) = {} \/ "force" \in removal.option)

PlanRemoval ==
    /\ driver.pc = "dependents" /\ Top.todo = {}
    /\ MayGo(Top.pkg)
    /\ removal' = [removal EXCEPT !.rest = OwnDeps(Top.pkg) \ {Top.pkg}]
    /\ driver' = Unlinking(Top.pkg)
    /\ UNCHANGED <<recipe, work, disk, registry, manifest, result, events>>

\* "Cannot uninstall ...: the following packages depend on it".
Depended ==
    /\ driver.pc = "dependents" /\ Top.todo = {}
    /\ ~MayGo(Top.pkg)
    /\ End("error")
    /\ UNCHANGED <<recipe, work, disk, registry, manifest, events>>

Unlink(f) ==
    /\ driver.pc = "unlink" /\ f \in driver.todo
    /\ disk' = [disk EXCEPT ![f] = NoBuild]
    /\ driver' = [driver EXCEPT !.todo = @ \ {f}]
    /\ UNCHANGED <<recipe, work, registry, manifest, removal, result, events>>

\* Mutation: the recursion returns from its outermost call as from the others.
PopAlways ==
    \/ \E r \in removal.rest :
          /\ driver' = Unlinking(r)
          /\ removal' = [removal EXCEPT !.rest = @ \ {r}]
          /\ UNCHANGED result
    \/ /\ removal.rest = {}
       /\ driver' = [driver EXCEPT !.pc = "dependents"]
       /\ removal' = [removal EXCEPT !.stack = SubSeq(@, 1, Depth - 1)]
       /\ UNCHANGED result

\* What follows a package: the next of --with-deps, or the caller's frame.
NextRemoval ==
    \/ \E r \in removal.rest :
          /\ driver' = Unlinking(r)
          /\ removal' = [removal EXCEPT !.rest = @ \ {r}]
          /\ UNCHANGED result
    \/ /\ removal.rest = {} /\ Depth > 1
       /\ driver' = [driver EXCEPT !.pc = "dependents"]
       /\ removal' = [removal EXCEPT !.stack = SubSeq(@, 1, Depth - 1)]
       /\ UNCHANGED result
    \/ removal.rest = {} /\ Depth = 1 /\ End("ok")

\* Mutation: the registry entry goes although a file could not be removed.
DropAnyway ==
    /\ driver.pc = "unlink" /\ driver.todo = {}
    /\ entry' = [entry EXCEPT ![driver.pkg] = 0]
    /\ cut' = cut \ {driver.pkg}
    /\ NextRemoval
    /\ UNCHANGED <<recipe, work, disk, manifest, events>>

\* The registry entry goes last, and only if every file was removed.
Drop ==
    /\ driver.pc = "unlink" /\ driver.todo = {} /\ ~removal.failed
    /\ entry' = [entry EXCEPT ![driver.pkg] = 0]
    /\ cut' = cut \ {driver.pkg}
    /\ NextRemoval
    /\ UNCHANGED <<recipe, work, disk, manifest, events>>

Keep ==
    /\ driver.pc = "unlink" /\ driver.todo = {} /\ removal.failed
    /\ End("error")
    /\ UNCHANGED <<recipe, work, disk, registry, manifest, events>>

-----------------------------------------------------------------------------
(***************************************************************************)
(* Failures, interruptions and recipe edits.                               *)
(***************************************************************************)

Event(e) ==
    /\ e \in Events
    /\ events < MaxEvents
    /\ events' = events + 1

\* Download, patch, compiler, make install, copy or sudo fails: exit 1.  Writing
\* the registry entry raises only where it is installed with sudo.
Fail ==
    /\ Event("fail")
    /\ \/ driver.pc \in {"build", "fetch", "compile", "stage", "staging", "publish", "list"}
       \/ driver.pc = "register" /\ Privileged
    /\ End("error")
    /\ UNCHANGED <<recipe, work, disk, registry, manifest>>

\* The writer fails and only prints it, then tries again with a minimal entry: the
\* file is left truncated or minimal, or was never opened, which only the sudo
\* variant notices.  The command goes on and reports success.
RegisterFails ==
    /\ Event("full")
    /\ driver.pc = "register"
    /\ \/ ~Privileged /\ UNCHANGED registry
       \/ /\ entry' = [entry EXCEPT ![driver.pkg] = 0]
          /\ cut' = cut \cup {driver.pkg}
    /\ Finish
    /\ UNCHANGED <<recipe, work, disk, manifest>>

\* A file cannot be removed: the others still are, but the entry stays.
UnlinkFails(f) ==
    /\ Event("stuck")
    /\ driver.pc = "unlink" /\ f \in driver.todo
    /\ driver' = [driver EXCEPT !.todo = @ \ {f}]
    /\ removal' = [removal EXCEPT !.failed = TRUE]
    /\ UNCHANGED <<recipe, work, disk, registry, manifest, result>>

\* No file list in the checkout, a target outside the prefix, or a registry entry
\* that cannot be removed: the uninstall stops there.
RemovalFails ==
    /\ Event("stuck")
    /\ driver.pc = "unlink"
    /\ End("error")
    /\ UNCHANGED <<recipe, work, disk, registry, manifest>>

\* A kill in the middle of a write leaves the file list or the entry cut short.
Interrupted ==
    \/ UNCHANGED <<registry, manifest>>
    \/ /\ driver.pc = "list" /\ WritesManifest /\ driver.pkg \notin Generated
       /\ "tear" \in Events
       /\ manifest' = [manifest EXCEPT ![driver.pkg] = {}]
       /\ UNCHANGED registry
    \/ /\ driver.pc = "register" /\ "tear" \in Events
       /\ entry' = [entry EXCEPT ![driver.pkg] = 0]
       /\ cut' = cut \cup {driver.pkg}
       /\ UNCHANGED manifest

Kill ==
    /\ Event("kill")
    /\ driver.pc # "idle"
    /\ Interrupted
    /\ End("killed")
    /\ UNCHANGED <<recipe, work, disk>>

\* A recipe edit; a git pull brings the new version's file list with it.
Bump(p) ==
    /\ Event("bump")
    /\ recipe[p] < MaxVersion
    /\ recipe' = [recipe EXCEPT ![p] = @ + 1]
    /\ \/ UNCHANGED manifest
       \/ manifest' = [manifest EXCEPT ![p] = Payload[p][recipe[p] + 1]]
    /\ UNCHANGED <<work, disk, registry, driver, removal, result>>

-----------------------------------------------------------------------------

Start == StartAll \/ \E p \in Packages : \/ StartBuild(p) \/ StartInstall(p)
                                         \/ \E o \in Options : StartUninstall(p, o)

Resolve == ResolveMeta \/ \E i \in DOMAIN Order : ResolveBuild(i)

Builder == \/ Wipe \/ Unpack \/ Compile \/ Render \/ Stage \/ MakeInstall \/ Refuse
           \/ \E f \in Files : PublishFile(f)
           \/ ListFiles \/ Register

Uninstaller == \/ Enter \/ NotInstalled \/ PlanRemoval \/ Depended \/ Drop \/ Keep
               \/ \E d \in Packages : Descend(d)
               \/ \E f \in Files : Unlink(f)

Environs == \/ Fail \/ RegisterFails \/ RemovalFails \/ Kill
            \/ \E f \in Files : UnlinkFails(f)
            \/ \E p \in Packages : Bump(p)

Next == Start \/ Resolve \/ Builder \/ Uninstaller \/ Environs

Spec == Init /\ [][Next]_vars

\* The operator re-runs `build all' and the tool runs on.  Events are bounded.
FairSpec == Spec /\ WF_vars(StartAll) /\ WF_vars(Resolve \/ Builder)

-----------------------------------------------------------------------------

Drivers == [pc : {"idle", "resolve", "build", "fetch", "compile", "stage", "staging", "publish",
                  "list", "register", "enter", "dependents", "unlink"},
            command : {"none", "all build", "all install", "build", "install", "uninstall"},
            pkg : Packages, version : 0 .. MaxVersion, from : Builds, todo : SUBSET Files]

Frames == [pkg : Packages, todo : SUBSET Packages]

Removing == driver.pc \in {"enter", "dependents", "unlink"}

StoreOK ==
    /\ recipe \in [Packages -> Versions]
    /\ tree \in Builds
    /\ staged \in BOOLEAN
    /\ disk \in [Files -> Builds]
    /\ entry \in [Packages -> 0 .. MaxVersion]
    /\ cut \subseteq {p \in Packages : entry[p] = 0}
    /\ manifest \in [Packages -> SUBSET Files]

DriverOK ==
    /\ driver \in Drivers
    /\ driver.pc \in {"build", "fetch", "compile", "stage", "staging", "publish", "list",
                      "register"} =>
          driver.version \in Versions
    /\ driver.pc = "staging" => tree.version # 0
    /\ driver.pc \in {"publish", "list"} => driver.from.version # 0
    /\ result \in {"none", "ok", "done", "error", "killed"}
    /\ events \in 0 .. MaxEvents

RemovalOK ==
    /\ removal \in [stack : Seq(Frames), rest : SUBSET Packages, failed : BOOLEAN,
                    option : SUBSET {"with-deps", "dependents", "force"}]
    /\ Removing <=> removal.stack # <<>>

TypeOK == StoreOK /\ DriverOK /\ RemovalOK

\* "Check that all required dependencies are installed before building" and
\* "Cannot uninstall": without --force, what a registered package was built
\* against stays registered, or at least visible to pkg-config.
DependenciesStay ==
    \A p \in Packages : entry[p] # 0 => \A d \in Deps[p][entry[p]] : Available(d)

\* When an entry is written, every file of that package and version is in the
\* prefix, copied from a build of it.
PublishesOwnBuild ==
    [][\A p \in Packages : (entry'[p] # entry[p] /\ entry'[p] # 0) =>
          \A f \in Payload[p][entry'[p]] : disk[f] = [pkg |-> p, version |-> entry'[p]]]_vars

Unrecorded == {f \in Files : Present(f) /\ ~Registered(disk[f].pkg)}

\* "removing only the registry entry would leave every installed file with
\* nothing recording it": only an unfinished publication leaves files of a
\* package that is not registered.
NothingUnrecorded == [][driver.pc # "publish" => Unrecorded' \subseteq Unrecorded]_vars

\* Re-running `build all' registers every package of the list.
DirectCompletes == <>[](\A p \in Packages : Registered(p))


-----------------------------------------------------------------------------
Managed == INSTANCE ManagedPrefix WITH
    Needs      <- Deps,
    External   <- HostPc,
    Telltale   <- PcFile,
    Nothing    <- NoBuild,
    holds      <- disk,
    recorded   <- entry,
    unreadable <- cut

\* What becomes of the prefix in the hands of `build all' and uninstall, with all
\* that is killed, torn, stuck or failing, is what could become of it if packages
\* were copied, recorded, deleted and forgotten in the right order only.
KeepsPrefix == Managed!Spec

=============================================================================
