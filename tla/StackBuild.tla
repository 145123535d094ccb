----------------------------- MODULE StackBuild -----------------------------
(***************************************************************************)
(* `scls build all' on a native packaging host (rpm or deb), with the      *)
(* single commands `scls build/install <pkg>' and `... next'.  The scls    *)
(* script asks build_order.py for the next package, runs rpm_builder.py or *)
(* deb_builder.py on it and starts over; nothing is remembered between two *)
(* turns except what is on disk:                                           *)
(*                                                                         *)
(*   built/torn   binary packages in rpmbuild/RPMS or work/pkgs, complete  *)
(*                or cut short by an interrupted write                     *)
(*   marker       {rpm,deb}build/registry/<flavor>/<pkg>.yaml (0: absent)  *)
(*   source       source packages in rpmbuild/SRPMS or work/spkgs          *)
(*   installed    the host's package database (0: not installed)           *)
(*   registry     <prefix>/share/scls/registry/<pkg>.yaml, a file shipped  *)
(*                inside each binary package                               *)
(*                                                                         *)
(* Order is the list BuildOrder computes; its last name is FLAVOR_META.    *)
(* Versions are version-release numbers compared as _version_sort_key does.*)
(***************************************************************************)
EXTENDS Naturals, Sequences, FiniteSets

CONSTANTS
    Order,           \* get_ordered_package_list: the names, FLAVOR_META last
    BuildDeps,       \* name -> names its build needs (BuildRequires)
    RunDeps,         \* name -> names its installation needs (Requires)
    PcNames,         \* names whose package ships a pkg-config file of that name
    HostPc,          \* names for which the host itself has a pkg-config file
    Sourceless,      \* generated packages and the meta: no .dsc is produced
    Format,          \* "rpm" or "deb": what the scls script detects
    MaxVersion,      \* bound: recipe versions are 1 .. MaxVersion
    Commands,        \* the commands the operator uses
    Events,          \* what may happen around the tool
    MaxEvents        \* bound: how many of them happen

Names    == {Order[i] : i \in DOMAIN Order}
Meta     == Order[Len(Order)]
Versions == 1 .. MaxVersion

ASSUME OrderAssumption ==
    /\ Order \in Seq(Names) /\ Order # <<>>
    /\ \A i, j \in DOMAIN Order : Order[i] = Order[j] => i = j
\* BuildOrder!OrderRespectsDeps: dependencies come before their dependents.
ASSUME DepsAssumption ==
    /\ BuildDeps \in [Names -> SUBSET Names]
    /\ RunDeps \in [Names -> SUBSET Names]
    /\ \A i, j \in DOMAIN Order : Order[j] \in BuildDeps[Order[i]] => j < i
ASSUME HostAssumption ==
    /\ Sourceless \subseteq Names
    /\ PcNames \subseteq Names /\ HostPc \subseteq Names
    /\ Format \in {"rpm", "deb"}
    /\ MaxVersion \in Nat \ {0}
    /\ MaxEvents \in Nat
    /\ Commands \subseteq {"all", "build", "install", "next"}
    /\ Events \subseteq {"kill", "tear", "bump", "revert", "remove", "wipe", "unregister",
                         "break"}

VARIABLES
    recipe,      \* the version each recipe file names
    recipesOk,   \* FALSE while the recipes make build_order.py raise
    built, torn, marker, source, installed, registry,
    driver,      \* the running command
    result,      \* how the last command ended
    events       \* how many events have happened

disk   == <<built, torn, marker, source>>
host   == <<installed, registry>>
inputs == <<recipe, recipesOk, events>>
vars   == <<recipe, recipesOk, built, torn, marker, source, installed, registry,
            driver, result, events>>

Idle == [pc |-> "idle", command |-> "none", pkg |-> Meta, version |-> 0, drop |-> {}]

Init ==
    /\ recipe = [p \in Names |-> 1]
    /\ recipesOk = TRUE
    /\ built = [p \in Names |-> {}]
    /\ torn = [p \in Names |-> {}]
    /\ marker = [p \in Names |-> 0]
    /\ source = [p \in Names |-> {}]
    /\ installed = [p \in Names |-> 0]
    /\ registry = {}
    /\ driver = Idle
    /\ result = "none"
    /\ events = 0

-----------------------------------------------------------------------------
(***************************************************************************)
(* build_order.py: which package is next.                                  *)
(***************************************************************************)

\* The glob of _artifact_exists_for sees any version, cut short or not.
Artifacts(p) == built[p] \cup torn[p]

\* Mutation: the artifact alone counts, without the marker.
BuiltByArtifact(p) == Artifacts(p) # {}

BuiltLocally(p) == marker[p] # 0 /\ Artifacts(p) # {}

Position(p) == CHOOSE i \in DOMAIN Order : Order[i] = p

IsFirst(p, S) == p \in S /\ \A q \in S : Position(p) <= Position(q)

Uninstalled == {p \in Names : BuiltLocally(p) /\ p \notin registry}
Unbuilt     == {p \in Names : ~BuiltLocally(p) /\ p \notin registry}

\* _package_is_built_locally deletes the stale markers of the names it visits.
Visit(visited) == marker' = [p \in Names |-> IF p \in visited /\ ~BuiltLocally(p)
                                             THEN 0 ELSE marker[p]]

UpTo(p) == {q \in Names : Position(q) <= Position(p)}

Begin(pc, command, p) ==
    /\ driver' = [pc |-> pc, command |-> command, pkg |-> p,
                  version |-> IF pc = "compile" THEN recipe[p] ELSE 0, drop |-> {}]
    /\ UNCHANGED <<inputs, built, torn, source, host, result>>

End(r) == driver' = Idle /\ result' = r

-----------------------------------------------------------------------------
(***************************************************************************)
(* The operator starts a command.                                          *)
(***************************************************************************)

StartAll ==
    /\ driver.pc = "idle" /\ "all" \in Commands
    /\ Begin("resolve", "all", Meta)
    /\ UNCHANGED marker

StartBuild(p) ==
    /\ driver.pc = "idle" /\ "build" \in Commands
    /\ Begin("compile", "build", p)
    /\ UNCHANGED marker

StartInstall(p) ==
    /\ driver.pc = "idle" /\ "install" \in Commands
    /\ Begin("install", "install", p)
    /\ UNCHANGED marker

\* `scls build next': the first package neither installed nor built.
StartBuildNext(p) ==
    /\ driver.pc = "idle" /\ "next" \in Commands /\ recipesOk
    /\ IsFirst(p, Unbuilt)
    /\ Visit(UpTo(p))
    /\ Begin("compile", "build", p)

\* `scls install next': the first package built but not installed.
StartInstallNext(p) ==
    /\ driver.pc = "idle" /\ "next" \in Commands /\ recipesOk
    /\ IsFirst(p, Uninstalled)
    /\ Visit(UpTo(p))
    /\ Begin("install", "install", p)

-----------------------------------------------------------------------------
(***************************************************************************)
(* The loop of `scls build all': install what is built, else build the     *)
(* first unbuilt package, else stop.                                       *)
(***************************************************************************)

ResolveInstall(p) ==
    /\ driver.pc = "resolve" /\ recipesOk
    /\ IsFirst(p, Uninstalled)
    /\ Visit(UpTo(p))
    /\ Begin("install", "all", p)

\* Mutation: the next build is looked for before the next install.
ResolveBuildFirst(p) ==
    /\ driver.pc = "resolve" /\ recipesOk
    /\ IsFirst(p, Unbuilt)
    /\ Visit(Names)
    /\ Begin("compile", "all", p)

\* get_next_uninstalled_package has visited every name before returning None.
ResolveBuild(p) ==
    /\ driver.pc = "resolve" /\ recipesOk
    /\ Uninstalled = {}
    /\ IsFirst(p, Unbuilt)
    /\ Visit(Names)
    /\ Begin("compile", "all", p)

\* Mutation: nothing left to build is taken for nothing left to do.
ResolveNothingUnbuilt ==
    /\ driver.pc = "resolve" /\ recipesOk
    /\ Unbuilt = {}
    /\ Visit(Names)
    /\ End("done")
    /\ UNCHANGED <<inputs, built, torn, source, host>>

ResolveNothing ==
    /\ driver.pc = "resolve" /\ recipesOk
    /\ Uninstalled \cup Unbuilt = {}
    /\ Visit(Names)
    /\ End("done")
    /\ UNCHANGED <<inputs, built, torn, source, host>>

\* The resolver raises; its traceback goes to /dev/null and the loop breaks.
ResolveRaises ==
    /\ driver.pc = "resolve" /\ ~recipesOk
    /\ End("done")
    /\ UNCHANGED <<inputs, disk, host>>

-----------------------------------------------------------------------------
(***************************************************************************)
(* rpm_builder.run: rpmbuild -ba, then the marker.                         *)
(* deb_builder.run: compile and stage, dpkg-deb, the marker, the source    *)
(* package.                                                                *)
(***************************************************************************)

Finish == IF driver.command = "all"
          THEN driver' = [Idle EXCEPT !.pc = "resolve", !.command = "all"] /\ UNCHANGED result
          ELSE End("ok")

GoTo(pc) == driver' = [driver EXCEPT !.pc = pc] /\ UNCHANGED result

\* rpmbuild asks the rpm database for each BuildRequires and nothing else; the
\* deb builder takes a registry entry or, without one, a pkg-config file of that
\* name, in the prefix or on the host.
DependencyThere(d) ==
    IF Format = "rpm" THEN installed[d] # 0
    ELSE d \in registry \cup HostPc \/ (d \in PcNames /\ installed[d] # 0)

DependenciesThere == \A d \in BuildDeps[driver.pkg] : DependencyThere(d)

\* Mutation: the build starts by deleting the packages of earlier builds.
CompileCleans ==
    /\ driver.pc = "compile"
    /\ DependenciesThere
    /\ built' = [built EXCEPT ![driver.pkg] = {}]
    /\ GoTo("pack")
    /\ UNCHANGED <<inputs, torn, marker, source, host>>

\* Mutation: the build does not insist on its dependencies (rpmbuild --nodeps).
CompileAnyway ==
    /\ driver.pc = "compile"
    /\ GoTo("pack")
    /\ UNCHANGED <<inputs, disk, host>>

\* The dependencies are present and everything up to the staged tree succeeds.
Compile ==
    /\ driver.pc = "compile"
    /\ DependenciesThere
    /\ GoTo("pack")
    /\ UNCHANGED <<inputs, disk, host>>

\* Mutation: the new package does not replace the cut-short one of its version.
PackBeside ==
    LET p == driver.pkg
        v == driver.version
    IN  /\ driver.pc = "pack"
        /\ built' = [built EXCEPT ![p] = @ \cup {v}]
        /\ source' = IF Format = "rpm" THEN [source EXCEPT ![p] = @ \cup {v}] ELSE source
        /\ GoTo("mark")
        /\ UNCHANGED <<inputs, torn, marker, host>>

\* The binary package is written over the file of the same version, if any;
\* rpmbuild -ba writes the source package with it.
Pack ==
    LET p == driver.pkg
        v == driver.version
    IN  /\ driver.pc = "pack"
        /\ built' = [built EXCEPT ![p] = @ \cup {v}]
        /\ torn' = [torn EXCEPT ![p] = @ \ {v}]
        /\ source' = IF Format = "rpm" THEN [source EXCEPT ![p] = @ \cup {v}] ELSE source
        /\ GoTo("mark")
        /\ UNCHANGED <<inputs, marker, host>>

Mark ==
    /\ driver.pc = "mark"
    /\ marker' = [marker EXCEPT ![driver.pkg] = driver.version]
    /\ IF Format = "deb" /\ driver.pkg \notin Sourceless THEN GoTo("source") ELSE Finish
    /\ UNCHANGED <<inputs, built, torn, source, host>>

CreateSource ==
    /\ driver.pc = "source"
    /\ source' = [source EXCEPT ![driver.pkg] = @ \cup {driver.version}]
    /\ Finish
    /\ UNCHANGED <<inputs, built, torn, marker, host>>

-----------------------------------------------------------------------------
(***************************************************************************)
(* install_rpm / install_deb.                                              *)
(***************************************************************************)

\* Mutation: the first of the sorted files for the last.
IsOldest(v, S) == v \in S /\ \A w \in S : v <= w

IsNewest(v, S) == v \in S /\ \A w \in S : w <= v

\* Files whose version can be told: a cut-short .rpm cannot be queried, a
\* .deb is judged by its file name.
Candidates(p) == IF Format = "rpm" THEN built[p] ELSE Artifacts(p)

\* The transaction goes through: no cut-short file is handed to it (an .rpm
\* that cannot be queried is passed on, not dropped), what it requires is
\* there, and apt -y does not have to downgrade.
Accepts(p, v) ==
    /\ v \in built[p]
    /\ Format = "rpm" => torn[p] = {}
    /\ Format = "deb" => installed[p] <= v
    /\ \A d \in RunDeps[p] : installed[d] # 0

\* Nothing is to be pruned where SCLS_KEEP_OLD_ARTIFACTS is set.
InstallVersion(p, v) ==
    /\ driver.pc = "install" /\ driver.pkg = p
    /\ IsNewest(v, Candidates(p))
    /\ Accepts(p, v)
    /\ installed' = [installed EXCEPT ![p] = v]
    /\ registry' = registry \cup {p}
    /\ \E drop \in {{}, IF p = Meta THEN {} ELSE Candidates(p) \ {v}} :
          driver' = [driver EXCEPT !.pc = "prune", !.drop = drop]
    /\ UNCHANGED <<inputs, disk, result>>

Install == \E p \in Names : \E v \in Versions : InstallVersion(p, v)

\* Mutation: the source packages are matched by name, not by version.
PruneSources ==
    LET p == driver.pkg
    IN  /\ driver.pc = "prune"
        /\ built' = [built EXCEPT ![p] = @ \ driver.drop]
        /\ torn' = [torn EXCEPT ![p] = @ \ driver.drop]
        /\ source' = IF Format = "rpm" THEN [source EXCEPT ![p] = {}] ELSE source
        /\ Finish
        /\ UNCHANGED <<inputs, marker, host>>

\* Only after the transaction: delete what it superseded (an .rpm with its
\* source package; a .deb alone).
Prune ==
    LET p == driver.pkg
    IN  /\ driver.pc = "prune"
        /\ built' = [built EXCEPT ![p] = @ \ driver.drop]
        /\ torn' = [torn EXCEPT ![p] = @ \ driver.drop]
        /\ source' = IF Format = "rpm" THEN [source EXCEPT ![p] = @ \ driver.drop] ELSE source
        /\ Finish
        /\ UNCHANGED <<inputs, marker, host>>

-----------------------------------------------------------------------------
(***************************************************************************)
(* Failures, interruptions and what else happens on the host.              *)
(***************************************************************************)

\* An interrupted write may leave a cut-short file in place of the version: the
\* binary package, or the source package rpmbuild writes first.
Interrupted ==
    LET p == driver.pkg
        v == driver.version
    IN  \/ UNCHANGED <<built, torn, source>>
        \/ /\ driver.pc = "pack" /\ "tear" \in Events
           /\ built' = [built EXCEPT ![p] = @ \ {v}]
           /\ torn' = [torn EXCEPT ![p] = @ \cup {v}]
           /\ source' = IF Format = "rpm" THEN [source EXCEPT ![p] = @ \cup {v}] ELSE source
        \/ /\ "tear" \in Events
           /\ driver.pc = (IF Format = "rpm" THEN "pack" ELSE "source")
           /\ source' = [source EXCEPT ![p] = @ \ {v}]
           /\ UNCHANGED <<built, torn>>

\* A step fails: the command prints an error and exits 1.
Fail ==
    /\ driver.pc \in {"compile", "pack", "source", "install"}
    /\ Interrupted
    /\ End("error")
    /\ UNCHANGED <<inputs, marker, host>>

Event(e) ==
    /\ e \in Events
    /\ events < MaxEvents
    /\ events' = events + 1

\* Ctrl-C, a lost terminal, a crash of the host.
Kill ==
    /\ Event("kill")
    /\ driver.pc # "idle"
    /\ Interrupted
    /\ End("killed")
    /\ UNCHANGED <<recipe, recipesOk, marker, host>>

\* A recipe edit or a git pull.
Bump(p) ==
    /\ Event("bump")
    /\ recipe[p] < MaxVersion
    /\ recipe' = [recipe EXCEPT ![p] = @ + 1]
    /\ UNCHANGED <<recipesOk, disk, host, driver, result>>

Revert(p) ==
    /\ Event("revert")
    /\ recipe[p] > 1
    /\ recipe' = [recipe EXCEPT ![p] = @ - 1]
    /\ UNCHANGED <<recipesOk, disk, host, driver, result>>

\* A recipe that makes build_order.py raise comes or goes.
ToggleRecipes ==
    /\ Event("break")
    /\ recipesOk' = ~recipesOk
    /\ UNCHANGED <<recipe, disk, host, driver, result>>

\* p and everything whose installation needs it.
NeededBy(p) ==
    {q \in Names : \A S \in SUBSET Names :
        (p \in S /\ \A r \in Names : RunDeps[r] \cap S # {} => r \in S) => q \in S}

\* `dnf remove' / `apt remove': the dependents go too.
Remove(p) ==
    /\ Event("remove")
    /\ installed[p] # 0
    /\ installed' = [q \in Names |-> IF q \in NeededBy(p) THEN 0 ELSE installed[q]]
    /\ registry' = registry \ NeededBy(p)
    /\ UNCHANGED <<recipe, recipesOk, disk, driver, result>>

\* `rm -rf work/', rpmbuild/RPMS: the artifacts go, the markers stay.  (Under a
\* build it makes the build fail: a Kill, then a Wipe.)
Wipe ==
    /\ Event("wipe")
    /\ driver.pc \notin {"compile", "pack"}
    /\ built' = [p \in Names |-> {}]
    /\ torn' = [p \in Names |-> {}]
    /\ UNCHANGED <<recipe, recipesOk, marker, source, host, driver, result>>

\* A registry file is deleted behind the package manager's back.
Unregister(p) ==
    /\ Event("unregister")
    /\ p \in registry
    /\ registry' = registry \ {p}
    /\ UNCHANGED <<recipe, recipesOk, disk, installed, driver, result>>

-----------------------------------------------------------------------------

Start == StartAll \/ \E p \in Names : \/ StartBuild(p) \/ StartInstall(p)
                                      \/ StartBuildNext(p) \/ StartInstallNext(p)

Resolve == ResolveNothing \/ ResolveRaises \/ \E p \in Names : ResolveInstall(p) \/ ResolveBuild(p)

Environs == Wipe \/ ToggleRecipes
            \/ \E p \in Names : Bump(p) \/ Revert(p) \/ Remove(p) \/ Unregister(p)

Next ==
    \/ Start
    \/ Resolve
    \/ Compile \/ Pack \/ Mark \/ CreateSource
    \/ Install \/ Prune
    \/ Fail \/ Kill
    \/ Environs

Spec == Init /\ [][Next]_vars

(***************************************************************************)
(* The operator re-runs `scls build all'; the script runs on; a step that  *)
(* is retried again and again does not fail for ever, and one that cannot  *)
(* succeed fails.                                                          *)
(***************************************************************************)
Fairness ==
    /\ WF_vars(StartAll)
    /\ WF_vars(Resolve)
    /\ WF_vars(Mark)
    /\ WF_vars(Prune)
    /\ WF_vars(Fail)
    /\ SF_vars(Compile)
    /\ SF_vars(Pack)
    /\ SF_vars(CreateSource)
    /\ SF_vars(Install)

FairSpec == Spec /\ Fairness

-----------------------------------------------------------------------------

Drivers == [pc : {"idle", "resolve", "compile", "pack", "mark", "source", "install", "prune"},
            command : {"none", "all", "build", "install"}, pkg : Names,
            version : 0 .. MaxVersion, drop : SUBSET Versions]

TypeOK ==
    /\ recipe \in [Names -> Versions]
    /\ recipesOk \in BOOLEAN
    /\ built \in [Names -> SUBSET Versions]
    /\ torn \in [Names -> SUBSET Versions]
    /\ \A p \in Names : built[p] \cap torn[p] = {}
    /\ marker \in [Names -> 0 .. MaxVersion]
    /\ source \in [Names -> SUBSET Versions]
    /\ installed \in [Names -> 0 .. MaxVersion]
    /\ registry \subseteq {p \in Names : installed[p] # 0}
    /\ driver \in Drivers
    /\ driver.pc \in {"compile", "pack", "mark", "source"} => driver.version \in Versions
    /\ result \in {"none", "ok", "done", "error", "killed"}
    /\ events \in 0 .. MaxEvents

Decides(pc) == driver.pc = "resolve" /\ driver'.pc = pc

\* The loop starts building a package only when everything its build needs is
\* installed and registered: the build never fails for want of a dependency
\* that the loop should have built first.
BuildsInDependencyOrder ==
    [][Decides("compile") =>
          \A d \in BuildDeps[driver'.pkg] : d \in registry /\ installed[d] # 0]_vars

\* "if the install fails the older RPM is still there to fall back on": short
\* of `rm -rf' and of an interrupted rewrite, a binary package disappears only
\* when a complete newer one stays.
FallbackKept ==
    [][\A p \in Names : \A v \in built[p] \ built'[p] :
          \/ \A q \in Names : built'[q] = {}
          \/ v \in torn'[p]
          \/ \E w \in built'[p] : w > v]_vars

\* An install never delivers an older version than the last build that completed,
\* whatever was reverted, cut short or pruned since (it may deliver a newer one:
\* install takes the highest version on disk).  It holds where stale markers
\* cannot outlive their artifacts into a new build: no `rm -rf' of the packages,
\* or only builds that go through the resolver, which deletes such markers.
InstallNotOlderThanBuild ==
    [][\A p \in Names : installed'[p] \notin {0, installed[p]} => installed'[p] >= marker[p]]_vars

\* Installed packages have their source package beside them ("produces both").
InstalledHasSource ==
    \A p \in Names \ Sourceless : installed[p] # 0 => installed[p] \in source[p]

\* When the resolver works, "Done" means that every package and the flavor's
\* meta-package are registered, and that no marker is left without artifact.
DoneIsComplete ==
    [][(Decides("idle") /\ result' = "done" /\ recipesOk) =>
          /\ registry' = Names
          /\ \A p \in Names : marker'[p] # 0 => Artifacts(p)' # {}]_vars

\* Re-running `scls build all' completes the stack, whatever was interrupted,
\* cut short, removed or updated on the way.
StackCompletes == <>[](registry = Names)

-----------------------------------------------------------------------------
NoBuild == [pkg |-> Meta, version |-> 0]

\* The build whose package is being written.
InTheWorks == IF driver.pc = "pack" THEN [pkg |-> driver.pkg, version |-> driver.version]
              ELSE NoBuild

Managed == INSTANCE PackagingHost WITH
    BuildNeeds <- BuildDeps,
    RunNeeds   <- RunDeps,
    External   <- IF Format = "rpm" THEN {} ELSE HostPc,
    Downgrades <- Format = "rpm",
    Nothing    <- NoBuild,
    packages   <- built,
    building   <- InTheWorks,
    registered <- registry

\* What becomes of packages and host under all commands, with all that is killed,
\* cut short, failing, wiped, removed or unregistered, is what could become of them
\* if each build began only where what it needs is installed (on a deb host: or where
\* the host has a pkg-config file for it) and each installation took the newest
\* complete package.  A registry entry is not asked for: rpmbuild does not look at
\* the registry, so after an `unregister' a build begins that the resolver would
\* not have chosen, and the dependency is in the package database all the same.
KeepsHost == Managed!Spec

=============================================================================
