------------------------------ MODULE FrontEnd ------------------------------
(***************************************************************************)
(* python/scls.py, the second command-line front end: `install <pkg>',     *)
(* `install next', `build ...' and `remove' on a host of any package       *)
(* format.  It runs a builder as a child process and installs what the     *)
(* child left on disk.  Unlike the scls script it asks the host's package  *)
(* database which packages are there, it builds and installs in one        *)
(* command, and in direct mode it removes the old version first.           *)
(*                                                                         *)
(*   registry    version that the entry in <prefix>/share/scls/registry    *)
(*               names (0: no entry, or one that names none)               *)
(*   cut         names whose entry was opened and not written: an empty    *)
(*               file, which exists and names no version                   *)
(*   installed   version in the rpm or dpkg database; in direct mode the   *)
(*               version whose files are in the prefix (0: none)           *)
(*   artifacts   versions with a package file on disk; newest is the       *)
(*               version of the file written last (0: none)                *)
(*   marker      names with an entry in {rpm,deb}build/registry            *)
(*                                                                         *)
(* The builders are modelled by StackBuild and DirectInstall; here a build *)
(* is its download (Sources), a compilation and what it leaves.            *)
(***************************************************************************)
EXTENDS Naturals, Sequences, Sources

CONSTANTS
    Order,          \* get_ordered_package_list, FLAVOR_META last
    BuildDeps,      \* name -> names its build needs
    RunDeps,        \* name -> names its installation needs
    PcNames,        \* names whose package ships a pkg-config file
    PlainNames,     \* names that Debian's policy leaves as they are (no `_')
    Hosts,          \* what platform, /etc and PATH say
    Configs,        \* contents of ~/.config/scls.yaml and /etc/scls.yaml
    MaxVersion,     \* bound: recipe versions are 1 .. MaxVersion
    Events,         \* format -> what may happen, besides `install <pkg>|next'
    MaxEvents       \* bound: how many of them happen

Names    == {Order[i] : i \in DOMAIN Order}
Meta     == Order[Len(Order)]
Recipes  == Names \ {Meta}
Versions == 1 .. MaxVersion
Formats  == {"rpm", "deb", "pkg", "tar.xz"}

VARIABLES format, recipe, registry, cut, installed, artifacts, newest, marker,
          driver,    \* the running command
          result,    \* how the last one ended
          events     \* how many events have happened

\* BuildOrder!KeepsPromise: the list has one place for each name.
ASSUME OrderAssumption ==
    /\ Order \in Seq(Names) /\ Order # <<>>
    /\ \A i, j \in DOMAIN Order : Order[i] = Order[j] => i = j
\* CONFIG_PATHS are two files; the help text of scls.py lists the values.
ASSUME ConfigAssumption == Configs \subseteq [1 .. 2 -> {"absent", "broken", "auto"} \cup Formats]
ASSUME BoundsAssumption == MaxVersion \in Nat \ {0} /\ MaxEvents \in Nat
\* The URL of every shipped recipe ends in a name and a version: no two recipes
\* share an archive.
ASSUME ArchivesAssumption == Archives = Recipes \X Versions

host == <<registry, cut, installed>>
disk == <<artifacts, newest, marker>>
vars == <<format, recipe, registry, cut, installed, artifacts, newest, marker,
          archive, partial, driver, result, events>>

-----------------------------------------------------------------------------
(***************************************************************************)
(* Which format: the first config file that can be read, or the host.      *)
(***************************************************************************)

\* load_config stops at the first file it can load, whatever it sets.
ConfiguredFormat(files) ==
    LET loadable == {i \in DOMAIN files : files[i] \notin {"absent", "broken"}}
    IN  IF loadable = {} THEN "auto"
        ELSE files[CHOOSE i \in loadable : \A j \in loadable : i <= j]

DetectedFormat(facts) ==
    IF "Darwin" \in facts THEN "pkg"
    ELSE IF "redhat-release" \in facts THEN "rpm"
    ELSE IF "debian_version" \in facts THEN "deb"
    ELSE IF facts \cap {"dnf", "yum"} # {} THEN "rpm"
    ELSE IF "apt-get" \in facts THEN "deb"
    ELSE "tar.xz"

PackageFormat(files, facts) ==
    IF ConfiguredFormat(files) = "auto" THEN DetectedFormat(facts) ELSE ConfiguredFormat(files)

Native == format \in {"rpm", "deb"}

Idle == [pc |-> "idle", command |-> "none", pkg |-> Meta, version |-> 0, was |-> 0]

Init ==
    /\ format \in {PackageFormat(c, h) : c \in Configs, h \in Hosts}
    /\ recipe = [p \in Names |-> 1]
    /\ registry = [p \in Names |-> 0]
    /\ cut = {}
    /\ installed = [p \in Names |-> 0]
    /\ artifacts = [p \in Names |-> {}]
    /\ newest = [p \in Names |-> 0]
    /\ marker = {}
    /\ SourcesInit
    /\ driver = Idle
    /\ result = "none"
    /\ events = 0

-----------------------------------------------------------------------------
(***************************************************************************)
(* `next': the first name of the list that is not registered, not built    *)
(* locally and not in the host's database.                                 *)
(***************************************************************************)

\* scls.py uses the recipe's name where the package may have another: dpkg
\* knows superlu_dist as superlu-dist, and the meta-package has no suffix.
Findable(p) == p # Meta /\ (format = "deb" => p \in PlainNames)

\* Mutation: the database is not asked (extra_installed is left out).
NothingKnownToHost == {}

KnownToHost == IF Native THEN {p \in Names : Findable(p) /\ installed[p] # 0} ELSE {}

BuiltLocally(p) == p \in marker /\ artifacts[p] # {}

\* The resolver, `remove' and the dependency check ask whether the entry exists;
\* `install' reads it.
HasEntry(p) == registry[p] # 0 \/ p \in cut

Missing == {p \in Names : ~HasEntry(p) /\ ~BuiltLocally(p) /\ p \notin KnownToHost}

Position(p) == CHOOSE i \in DOMAIN Order : Order[i] = p

\* The stale markers of the names the walk visits are deleted.
Visit(visited) == marker' = marker \ {p \in visited : artifacts[p] = {}}

\* There is no recipe for the meta-package: load_recipe raises.  An upgrade is an
\* install over an entry that can be read.
Launch(command, p) ==
    IF p = Meta
    THEN result' = "error" /\ UNCHANGED driver
    ELSE /\ driver' = [pc |-> IF command # "build" /\ ~Native /\ registry[p] # 0
                              THEN "uninstall" ELSE "start",
                       command |-> command, pkg |-> p, version |-> 0,
                       was |-> IF Native THEN installed[p] ELSE registry[p]]
         /\ UNCHANGED result

Resolve(command, p) ==
    /\ driver.pc = "idle"
    /\ p \in Missing /\ \A q \in Missing : Position(p) <= Position(q)
    /\ Visit({q \in Names : Position(q) <= Position(p)})
    /\ Launch(command, p)
    /\ UNCHANGED <<format, recipe, host, artifacts, newest, sources>>

InstallNext == (\E p \in Names : Resolve("next", p)) /\ UNCHANGED events

\* "All packages are already installed."
NothingNext ==
    /\ driver.pc = "idle" /\ Missing = {}
    /\ Visit(Names)
    /\ result' = "all installed"
    /\ UNCHANGED <<format, recipe, host, artifacts, newest, sources, driver, events>>

Command(command, p) ==
    /\ driver.pc = "idle"
    /\ Launch(command, p)
    /\ UNCHANGED <<format, recipe, host, disk, sources>>

\* Without --force, `install' is for a version that no entry names.
InstallPackage(p) ==
    /\ registry[p] = 0 \/ registry[p] # recipe[p]
    /\ Command("install", p)
    /\ UNCHANGED events

-----------------------------------------------------------------------------
(***************************************************************************)
(* The command runs.                                                       *)
(***************************************************************************)

GoTo(pc) == driver' = [driver EXCEPT !.pc = pc] /\ UNCHANGED result
End(r)   == driver' = Idle /\ result' = r
Archive  == <<driver.pkg, driver.version>>

\* What a direct command that stops half-way has done to the prefix: nothing yet, or
\* the old files are gone (its version is still 0), or the new ones are copied.
HalfWay ==
    \/ UNCHANGED host
    \/ /\ driver.pc \in {"uninstall", "publish"}
       /\ installed' = [installed EXCEPT ![driver.pkg] = driver.version]
       /\ UNCHANGED <<registry, cut>>

\* _remove_direct: the files, then the entry; when it fails the command goes on all
\* the same.
Uninstall ==
    /\ driver.pc = "uninstall"
    /\ \/ /\ installed' = [installed EXCEPT ![driver.pkg] = 0]
          /\ registry' = [registry EXCEPT ![driver.pkg] = 0]
          /\ UNCHANGED cut
       \/ HalfWay
    /\ GoTo("start")
    /\ UNCHANGED <<format, recipe, disk, sources, events>>

\* check_package_installed accepts a pkg-config file of the prefix for an entry;
\* rpmbuild asks the database.
DependencyThere(d) ==
    IF format = "rpm" THEN installed[d] # 0
    ELSE HasEntry(d) \/ (d \in PcNames /\ installed[d] # 0)

DependenciesThere == \A d \in BuildDeps[driver.pkg] : DependencyThere(d)

\* The child reads the recipe; unix_builder and deb_builder look for what the
\* build needs before they download anything.
StartBuilder ==
    /\ driver.pc = "start"
    /\ format # "rpm" => DependenciesThere
    /\ driver' = [driver EXCEPT !.pc = "fetch", !.version = recipe[driver.pkg]]
    /\ UNCHANGED <<format, recipe, host, disk, sources, result, events>>

Fetch ==
    /\ driver.pc = "fetch"
    /\ \/ UseCached(Archive) /\ GoTo("compile")
       \/ BeginDownload(Archive) /\ GoTo("transfer")
    /\ UNCHANGED <<format, recipe, host, disk, events>>

Transfer ==
    /\ driver.pc = "transfer"
    /\ FinishDownload(Archive)
    /\ GoTo("compile")
    /\ UNCHANGED <<format, recipe, host, disk, events>>

\* Extraction reads all of the archive.  `build' alone ends here in direct mode.
Compile ==
    /\ driver.pc = "compile"
    /\ format = "rpm" => DependenciesThere
    /\ archive[Archive] = "whole"
    /\ IF Native THEN GoTo("pack")
       ELSE IF driver.command = "build" THEN End("ok") ELSE GoTo("publish")
    /\ UNCHANGED <<format, recipe, host, disk, sources, events>>

\* The package is written to its file of that version.
Pack ==
    /\ driver.pc = "pack"
    /\ artifacts' = [artifacts EXCEPT ![driver.pkg] = @ \cup {driver.version}]
    /\ newest' = [newest EXCEPT ![driver.pkg] = driver.version]
    /\ GoTo("mark")
    /\ UNCHANGED <<format, recipe, host, marker, sources, events>>

Mark ==
    /\ driver.pc = "mark"
    /\ marker' = marker \cup {driver.pkg}
    /\ IF driver.command = "build" THEN End("ok") ELSE GoTo("install")
    /\ UNCHANGED <<format, recipe, host, artifacts, newest, sources, events>>

\* Mutation: the highest version, as install_rpm and install_deb choose it.
HighestFile(p, v) == v \in artifacts[p] /\ \A w \in artifacts[p] : w <= v

\* _install_rpm and _install_deb take the file written last.
ChosenFile(p, v) == v \in artifacts[p] /\ v = newest[p]

\* dnf and apt leave an installed version as it is, marker file or no; dnf may
\* go back to an older one, `apt-get install -y' refuses to.
Installable(p, v) ==
    /\ Findable(p) /\ ChosenFile(p, v)
    /\ format = "deb" => installed[p] <= v
    /\ \A d \in RunDeps[p] : installed[d] # 0

\* Mutation: the entry is written from the recipe, not shipped in the package.
InstallAndRegister ==
    /\ driver.pc = "install"
    /\ \E v \in Versions :
          /\ Installable(driver.pkg, v)
          /\ installed' = [installed EXCEPT ![driver.pkg] = v]
          /\ registry' = [registry EXCEPT ![driver.pkg] = recipe[driver.pkg]]
    /\ End("ok")
    /\ UNCHANGED <<format, recipe, cut, disk, sources, events>>

InstallNative ==
    /\ driver.pc = "install"
    /\ \E v \in Versions :
          /\ Installable(driver.pkg, v)
          /\ IF installed[driver.pkg] = v THEN UNCHANGED host
             ELSE /\ installed' = [installed EXCEPT ![driver.pkg] = v]
                  /\ registry' = [registry EXCEPT ![driver.pkg] = v]
                  /\ UNCHANGED cut
    /\ End("ok")
    /\ UNCHANGED <<format, recipe, disk, sources, events>>

\* unix_builder copies the tree to the prefix and writes its entry.  A .pkg is then
\* written to work/pkgs and looked for in work/packages: "No PKG found".
EndOfPublishing == End(IF format = "pkg" THEN "error" ELSE "ok")

Publish ==
    /\ driver.pc = "publish"
    /\ installed' = [installed EXCEPT ![driver.pkg] = driver.version]
    /\ registry' = [registry EXCEPT ![driver.pkg] = driver.version]
    /\ cut' = cut \ {driver.pkg}
    /\ EndOfPublishing
    /\ UNCHANGED <<format, recipe, disk, sources, events>>

-----------------------------------------------------------------------------
(***************************************************************************)
(* Failures and events.  A native package that was built but not installed *)
(* is a case of its own ("refuse"): the next `install next' skips it.      *)
(***************************************************************************)

Happens(e) == e \in Events[format]

Event(e) ==
    /\ Happens(e) /\ events < MaxEvents
    /\ events' = events + 1

CanStop == driver.pc \in {"mark", "install"} => Happens("refuse")

\* No file of the name scls.py looks for, a dependency not installed, a downgrade.
Rejected == driver.pc = "install" /\ \A v \in Versions : ~Installable(driver.pkg, v)

\* write_registry_entry empties the entry when it opens it.
CutEntry ==
    /\ registry' = [registry EXCEPT ![driver.pkg] = 0]
    /\ cut' = cut \cup {driver.pkg}

\* The entry's directory or file cannot be made, or the disk is full: the writer
\* prints that, and the install goes on as if the entry were there.  (Under sudo
\* the same failure raises: that is Fail.)
PublishUnrecorded ==
    /\ Event("full")
    /\ driver.pc = "publish"
    /\ installed' = [installed EXCEPT ![driver.pkg] = driver.version]
    /\ UNCHANGED <<registry, cut>> \/ CutEntry
    /\ EndOfPublishing
    /\ UNCHANGED <<format, recipe, disk, sources>>

\* A child exits with an error, or there is nothing to install.
Fail ==
    /\ driver.pc \in {"start", "transfer", "compile", "pack", "install", "publish"}
    /\ CanStop \/ Rejected
    /\ IF driver.pc = "transfer" THEN AbandonDownload(Archive) ELSE UNCHANGED sources
    /\ HalfWay
    /\ End("error")
    /\ UNCHANGED <<format, recipe, disk, events>>

Kill ==
    /\ Event("kill")
    /\ driver.pc # "idle" /\ CanStop
    /\ \/ HalfWay
       \/ /\ driver.pc = "publish" /\ CutEntry
          /\ installed' = [installed EXCEPT ![driver.pkg] = driver.version]
    /\ End("killed")
    /\ UNCHANGED <<format, recipe, disk, sources>>

BuildPackage(p) == Event("build") /\ Command("build", p)
BuildNext       == Event("build") /\ \E p \in Names : Resolve("build", p)
ForcePackage(p) == Event("force") /\ registry[p] # 0 /\ Command("install", p)

\* p and everything whose installation needs it.
NeededBy(p) ==
    {q \in Names : \A S \in SUBSET Names :
        (p \in S /\ \A r \in Names : RunDeps[r] \cap S # {} => r \in S) => q \in S}

\* `remove': refused without a registry entry; dnf and apt take the dependents
\* along, and are given the name scls.py knows.
RemovePackage(p) ==
    /\ Event("remove")
    /\ driver.pc = "idle" /\ HasEntry(p)
    /\ Native => Findable(p)
    /\ LET gone == IF Native THEN NeededBy(p) ELSE {p}
       IN  /\ registry' = [q \in Names |-> IF q \in gone THEN 0 ELSE registry[q]]
           /\ cut' = cut \ gone
           /\ installed' = [q \in Names |-> IF q \in gone THEN 0 ELSE installed[q]]
    /\ UNCHANGED <<format, recipe, disk, sources, driver, result>>

\* `scls build _meta' with the scls script: the package and its marker.
MetaElsewhere ==
    /\ Event("meta")
    /\ driver.pc = "idle" /\ Native
    /\ artifacts' = [artifacts EXCEPT ![Meta] = {1}]
    /\ newest' = [newest EXCEPT ![Meta] = 1]
    /\ marker' = marker \cup {Meta}
    /\ UNCHANGED <<format, recipe, host, sources, driver, result>>

EditRecipe(p) ==
    /\ Event("edit")
    /\ p # Meta
    /\ \E v \in Versions \ {recipe[p]} : recipe' = [recipe EXCEPT ![p] = v]
    /\ UNCHANGED <<format, host, disk, sources, driver, result>>

Unregister(p) ==
    /\ Event("unregister")
    /\ HasEntry(p)
    /\ registry' = [registry EXCEPT ![p] = 0]
    /\ cut' = cut \ {p}
    /\ UNCHANGED <<format, recipe, installed, disk, sources, driver, result>>

\* The artifacts are deleted between two commands.
Wipe ==
    /\ Event("wipe")
    /\ driver.pc = "idle"
    /\ artifacts' = [p \in Names |-> {}]
    /\ newest' = [p \in Names |-> 0]
    /\ UNCHANGED <<format, recipe, host, marker, sources, driver, result>>

SpoilArchive(a) ==
    /\ Event("spoil")
    /\ driver.pc = "idle"
    /\ Spoil(a)
    /\ UNCHANGED <<format, recipe, host, disk, driver, result>>

Step == Uninstall \/ StartBuilder \/ Fetch \/ Transfer \/ Compile \/ Pack \/ Mark
        \/ InstallNative \/ Publish

Environs == Kill \/ PublishUnrecorded \/ BuildNext \/ Wipe \/ MetaElsewhere
            \/ \E a \in Archives : SpoilArchive(a)
            \/ \E p \in Names : BuildPackage(p) \/ ForcePackage(p) \/ RemovePackage(p)
                                \/ EditRecipe(p) \/ Unregister(p)

Next == InstallNext \/ NothingNext \/ (\E p \in Names : InstallPackage(p)) \/ Step \/ Fail
        \/ Environs

Spec == Init /\ [][Next]_vars

\* The operator comes back to `install next'; a command runs on or fails; what
\* is tried again and again does not fail for ever.
Fairness ==
    /\ SF_vars(InstallNext)
    /\ WF_vars(Uninstall \/ Fetch \/ Mark)
    /\ WF_vars(Fail)
    /\ \A p \in Recipes :
          /\ SF_vars(driver.pkg = p /\ StartBuilder)
          /\ SF_vars(driver.pkg = p /\ Transfer)
          /\ SF_vars(driver.pkg = p /\ Compile)
          /\ SF_vars(driver.pkg = p /\ Pack)
          /\ SF_vars(driver.pkg = p /\ (InstallNative \/ Publish))

FairSpec == Spec /\ Fairness

-----------------------------------------------------------------------------

Drivers == [pc : {"idle", "uninstall", "start", "fetch", "transfer", "compile", "pack", "mark",
                  "install", "publish"},
            command : {"none", "install", "next", "build"}, pkg : Names,
            version : 0 .. MaxVersion, was : 0 .. MaxVersion]

StoreOK ==
    /\ format \in Formats
    /\ recipe \in [Names -> Versions]
    /\ registry \in [Names -> 0 .. MaxVersion]
    /\ cut \subseteq {p \in Names : registry[p] = 0}
    /\ installed \in [Names -> 0 .. MaxVersion]
    /\ artifacts \in [Names -> SUBSET Versions]
    /\ newest \in [Names -> 0 .. MaxVersion]
    /\ \A p \in Names : newest[p] \in artifacts[p] \cup {0}
    /\ marker \subseteq Names
    /\ SourcesTypeOK
    /\ Native => cut = {} /\ \A p \in Names : registry[p] \in {0, installed[p]}

DriverOK ==
    /\ driver \in Drivers
    /\ driver.pc # "idle" => driver.pkg \in Recipes
    /\ driver.pc \notin {"idle", "uninstall", "start"} => driver.version \in Versions
    /\ result \in {"none", "ok", "error", "killed", "all installed"}
    /\ events \in 0 .. MaxEvents

TypeOK == StoreOK /\ DriverOK

Ends(r) == driver.pc # "idle" /\ driver'.pc = "idle" /\ result' = r

\* An install that exits 0 leaves in the database, or in direct mode in the prefix,
\* the version its child built, not another one that was lying on the disk, after an
\* upgrade and after a revert, whatever was killed, wiped or unregistered before.  In
\* direct mode the registry names that version too, unless it is the write of this
\* entry that failed: the writer prints that and the install exits 0 all the same.
DeliversItsBuild ==
    [][(Ends("ok") /\ driver.command # "build") =>
          /\ installed'[driver.pkg] = driver.version
          /\ Native \/ registry'[driver.pkg] = driver.version \/ PublishUnrecorded]_vars

\* "would otherwise cause `install next' to loop on it forever": an `install
\* next' that exits 0 has brought to the database, or in direct mode to the registry,
\* a version that was not there, unless the write of its registry entry failed.  Then
\* it does loop: it exits 0 each time and chooses the same package the next time, as
\* long as the entry's file cannot even be made.
NextBringsSomething ==
    [][(Ends("ok") /\ driver.command = "next") =>
          \/ (IF Native THEN installed' ELSE registry')[driver.pkg] # driver.was
          \/ PublishUnrecorded]_vars

\* "All packages are already installed."
AllInstalledIsTrue ==
    [][(driver.pc = "idle" /\ result' = "all installed" /\ result # result') =>
          \A p \in Recipes : HasEntry(p) \/ installed[p] # 0]_vars

\* Repeating `install next' brings every package to the host that scls.py can
\* install by its name, after interrupted downloads and builds, upgrades that
\* removed the old version and then failed, spoiled archives and lost or unwritten
\* entries.  (In direct mode: gives each package an entry, be it an empty one.)
InstallNextCompletes ==
    <>[](\A p \in Recipes : IF Native THEN Findable(p) => installed[p] # 0
                            ELSE HasEntry(p))
=============================================================================
