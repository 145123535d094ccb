------------------------ MODULE DirectInstallProofs ------------------------
(***************************************************************************)
(* Theorems about DirectInstall, for every list of packages, every         *)
(* dependency relation and payload, every set of operator commands and     *)
(* options, and any number of versions and events.                         *)
(***************************************************************************)
EXTENDS DirectInstall, SequenceTheorems, TLAPS

-----------------------------------------------------------------------------
(***************************************************************************)
(* The inductive invariant.  Dependencies stay if nobody forces a removal  *)
(* and no uninstall takes away the .pc file that another package is found  *)
(* by: a package stages no .pc file but its own, and where `install'       *)
(* rewrites the file list, only the loop installs, which publishes what it *)
(* built.  Then a package is being removed only while no readable entry    *)
(* depends on it, and what --with-deps has still to remove is needed by    *)
(* nothing but the package being removed.                                  *)
(***************************************************************************)
NoBackDoor ==
    /\ \A o \in Options : "force" \notin o
    /\ \A p, q \in Packages : \A v \in Versions :
          p # q => PcFile[p] \cap Payload[q][v] = {}
    /\ WritesManifest /\ "install" \in Commands => \A p \in Packages : PcFile[p] = {}

SafeInv == NoBackDoor =>
    /\ DependenciesStay
    /\ driver.pc \in {"staging", "publish", "list", "register"} => DepsThere
    /\ "force" \notin removal.option
    /\ driver.pc = "unlink" =>
          /\ ReverseDeps(driver.pkg) = {}
          /\ \A r \in removal.rest : ReverseDeps(r) \subseteq {driver.pkg}

(***************************************************************************)
(* The loop publishes what it built, if nobody builds or installs by hand  *)
(* and no recipe changes: the tree, the destdir and the copied files are   *)
(* those of the package and version that the running command will record.  *)
(***************************************************************************)
LoopOnly == Commands \cap {"build", "install"} = {} /\ "bump" \notin Events

OwnInv == LoopOnly =>
    /\ driver.pc \in {"build", "fetch", "compile"} => driver.command = "all build"
    /\ driver.pc \in {"stage", "staging"} => driver.command = "all install"
    /\ driver.pc \in {"publish", "list", "register"} /\ driver.command = "all build" =>
          driver.pkg \in Generated
    /\ driver.pc \in {"build", "fetch", "compile", "stage", "staging", "publish", "list",
                      "register"} =>
          driver.version = recipe[driver.pkg]
    /\ driver.pc \in {"compile", "staging"} =>
          tree = [pkg |-> driver.pkg, version |-> driver.version]
    /\ driver.pc = "stage" /\ driver.pkg \notin Generated =>
          tree = [pkg |-> driver.pkg, version |-> driver.version]
    /\ driver.pc \in {"publish", "list", "register"} =>
          /\ driver.from = [pkg |-> driver.pkg, version |-> driver.version]
          /\ \A f \in Payload[driver.pkg][driver.version] \ driver.todo : disk[f] = driver.from
    /\ driver.pc \in {"list", "register"} => driver.todo = {}

IInv == TypeOK /\ SafeInv /\ OwnInv

(***************************************************************************)
(* Without a manual install, the tree that is installed is the package's,  *)
(* though not always of the version that the recipe now names.             *)
(***************************************************************************)
TreeInv == "install" \notin Commands =>
    /\ driver.pc \in {"stage", "staging"} => driver.command = "all install"
    /\ driver.pc \in {"publish", "list", "register"} /\ driver.command = "all build" =>
          driver.pkg \in Generated
    /\ driver.pc \in {"compile", "staging"} => tree.pkg = driver.pkg
    /\ driver.pc = "stage" /\ driver.pkg \notin Generated => tree.pkg = driver.pkg
    /\ driver.pc \in {"publish", "list"} => driver.from.pkg = driver.pkg

\* A .pc file is on no list but its package's, and is removed with it only.
PcInv == NoBackDoor =>
    /\ \A p, q \in Packages : p # q => PcFile[p] \cap manifest[q] = {}
    /\ driver.pc = "unlink" =>
          \A p \in Packages \ {driver.pkg} : PcFile[p] \cap driver.todo = {}

-----------------------------------------------------------------------------
(***************************************************************************)
(* What the helpers of the actions do to the driver and to the removal.    *)
(***************************************************************************)
LEMMA ConstantsAreTyped ==
    /\ Order[1] \in Packages
    /\ NoBuild \in Builds
    /\ Idle \in Drivers
    /\ 0 \in 0 .. MaxVersion /\ \A v \in Versions : v \in 0 .. MaxVersion /\ v # 0
    /\ \A p \in Packages : \A v \in Versions : [pkg |-> p, version |-> v] \in Builds
<1>1. Order[1] \in Packages
  BY OrderAssumption DEF Packages
<1>2. 0 \in 0 .. MaxVersion /\ \A v \in Versions : v \in 0 .. MaxVersion /\ v # 0
  BY RecipeAssumption DEF Versions
<1>3. NoBuild \in Builds
  BY <1>1, <1>2 DEF NoBuild, Builds
<1>4. Idle \in Drivers
  BY <1>1, <1>2, <1>3 DEF Idle, Drivers
<1> QED
  BY <1>1, <1>2, <1>3, <1>4 DEF Builds

\* A new process starts with a well-formed driver.
LEMMA RunIsTyped ==
    ASSUME TypeOK, NEW p \in Packages, NEW pc \in {"build", "stage"},
           NEW c \in {"all build", "all install", "build", "install"}, Run(pc, c, p)
    PROVE  /\ driver' \in Drivers
           /\ driver'.pc = pc /\ driver'.command = c /\ driver'.pkg = p
           /\ driver'.version = recipe[p] /\ recipe[p] \in Versions
<1>1. recipe[p] \in Versions /\ recipe[p] \in 0 .. MaxVersion
  BY ConstantsAreTyped DEF TypeOK, StoreOK
<1>2. driver' = [pc |-> pc, command |-> c, pkg |-> p, version |-> recipe[p],
                 from |-> NoBuild, todo |-> {}]
  BY DEF Run, Idle
<1> QED
  BY <1>1, <1>2, ConstantsAreTyped DEF Drivers

LEMMA EndIsTyped ==
    ASSUME NEW r \in {"ok", "done", "error", "killed"}, End(r), events' \in 0 .. MaxEvents
    PROVE  DriverOK' /\ RemovalOK' /\ driver'.pc = "idle" /\ removal' = NoRemoval
<1>1. driver' = Idle /\ removal' = NoRemoval /\ result' = r
  BY DEF End
<1>2. DriverOK'
  BY <1>1, ConstantsAreTyped DEF DriverOK, Idle
<1>3. NoRemoval.stack = <<>> /\ <<>> \in Seq(Frames)
  BY DEF NoRemoval
<1>4. RemovalOK'
  BY <1>1, <1>3 DEF RemovalOK, Removing, Idle, NoRemoval
<1> QED
  BY <1>1, <1>2, <1>4 DEF Idle

\* After a command the loop resolves, or installs what it built, or is over.
LEMMA FinishIsTyped ==
    ASSUME TypeOK, Finish, ~Removing, events' \in 0 .. MaxEvents
    PROVE  /\ DriverOK' /\ RemovalOK' /\ UNCHANGED removal
           /\ \/ driver'.pc \in {"idle", "resolve"}
              \/ /\ driver.command = "all build"
                 /\ driver'.pc = "stage" /\ driver'.command = "all install"
                 /\ driver'.pkg = driver.pkg /\ driver'.version = recipe[driver.pkg]
<1>1. driver.pkg \in Packages
  BY DEF TypeOK, DriverOK, Drivers
<1>2. removal' = removal /\ removal.stack = <<>>
  BY DEF Finish, TypeOK, RemovalOK
<1>3. result' \in {"none", "ok", "done", "error", "killed"}
  BY DEF Finish, TypeOK, DriverOK
<1>4. CASE driver.command = "all build"
  <2>1. Run("stage", "all install", driver.pkg)
    BY <1>4 DEF Finish
  <2>2. /\ driver' \in Drivers /\ driver'.pc = "stage" /\ driver'.command = "all install"
        /\ driver'.pkg = driver.pkg /\ driver'.version = recipe[driver.pkg]
        /\ recipe[driver.pkg] \in Versions
    BY <1>1, <2>1, RunIsTyped
  <2>3. DriverOK' /\ RemovalOK'
    BY <1>2, <1>3, <2>2 DEF DriverOK, RemovalOK, Removing, TypeOK
  <2> QED
    BY <1>2, <1>4, <2>2, <2>3
<1>5. CASE driver.command # "all build"
  <2>1. driver' = [Idle EXCEPT !.pc = "resolve"] \/ driver' = Idle
    BY <1>5 DEF Finish
  <2>2. driver' \in Drivers /\ driver'.pc \in {"idle", "resolve"}
    BY <2>1, ConstantsAreTyped DEF Idle, Drivers
  <2>3. DriverOK' /\ RemovalOK'
    BY <1>2, <1>3, <2>2 DEF DriverOK, RemovalOK, Removing, TypeOK
  <2> QED
    BY <1>2, <2>2, <2>3
<1> QED
  BY <1>4, <1>5

\* What was available stays available, and what depends on a package is what
\* depended on it, as long as the registry and the prefix stay.
LEMMA RegistryKept ==
    ASSUME UNCHANGED <<entry, cut, disk>>
    PROVE  /\ \A p : Registered(p)' <=> Registered(p)
           /\ \A p : Available(p)' <=> Available(p)
           /\ \A p : ReverseDeps(p)' = ReverseDeps(p)
           /\ DependenciesStay' <=> DependenciesStay
BY DEF Registered, Available, Present, ReverseDeps, DependenciesStay

\* A package is found as long as neither its entry nor its .pc file goes.
LEMMA StillAvailable ==
    ASSUME NEW p \in Packages, Registered(p) => Registered(p)',
           \A f \in PcFile[p] : Present(f) => Present(f)'
    PROVE  Available(p) => Available(p)'
BY DEF Available

\* What a recorded version needs are packages of the list.
LEMMA DepsAreTyped ==
    /\ \A p \in Packages : \A v \in Versions : Deps[p][v] \subseteq Packages
    /\ \A p \in Packages : \A v \in Versions : Payload[p][v] \subseteq Files
    /\ \A v \in 0 .. MaxVersion : v # 0 => v \in Versions
BY RecipeAssumption DEF Versions

\* Files that come into the prefix take nothing away.
LEMMA FilesComeIn ==
    ASSUME StoreOK, UNCHANGED <<entry, cut>>, \A f \in Files : Present(f) => Present(f)'
    PROVE  /\ \A p \in Packages : Available(p) => Available(p)'
           /\ \A p : ReverseDeps(p)' = ReverseDeps(p)
           /\ DependenciesStay => DependenciesStay'
<1>1. \A p \in Packages : Available(p) => Available(p)'
  BY StillAvailable, RecipeAssumption DEF Registered
<1>2. \A p : ReverseDeps(p)' = ReverseDeps(p)
  BY DEF ReverseDeps
<1>3. \A p \in Packages : entry[p] # 0 => Deps[p][entry[p]] \subseteq Packages
  BY DepsAreTyped DEF StoreOK
<1> QED
  BY <1>1, <1>2, <1>3 DEF DependenciesStay

\* What goes of a package that nothing else needs is missed by nobody, even if it
\* was found by it: its own entry is still there.
LEMMA FilesGo ==
    ASSUME StoreOK, UNCHANGED <<entry, cut>>, NEW r \in Packages, ReverseDeps(r) = {},
           \A p \in Packages \ {r} : \A f \in PcFile[p] : Present(f) => Present(f)'
    PROVE  /\ \A p : ReverseDeps(p)' = ReverseDeps(p)
           /\ DependenciesStay => DependenciesStay'
<1>1. \A p \in Packages : Registered(p)' <=> Registered(p)
  BY DEF Registered
<1>2. \A p \in Packages \ {r} : Available(p) => Available(p)'
  BY <1>1, StillAvailable
<1>3. \A p : ReverseDeps(p)' = ReverseDeps(p)
  BY DEF ReverseDeps
<1>4. ASSUME DependenciesStay, NEW q \in Packages, entry[q] # 0, NEW d \in Deps[q][entry[q]]
      PROVE  Available(d)'
  <2>1. d \in Packages /\ Available(d)
    BY <1>4, DepsAreTyped DEF StoreOK, DependenciesStay
  <2>2. CASE d = r
    <3>1. q = r
      BY <1>4, <2>2 DEF ReverseDeps
    <3>2. Registered(r)'
      BY <1>1, <1>4, <3>1 DEF Registered
    <3> QED
      BY <2>2, <3>2 DEF Available
  <2> QED
    BY <1>2, <2>1, <2>2
<1> QED
  BY <1>3, <1>4 DEF DependenciesStay

\* Outside a build or an install OwnInv says nothing.
LEMMA OwnElsewhere ==
    ASSUME driver.pc' \in {"idle", "resolve", "enter", "dependents", "unlink"}
    PROVE  OwnInv'
BY DEF OwnInv

-----------------------------------------------------------------------------
LEMMA InitEstablishes == Init => IInv
<1> SUFFICES ASSUME Init PROVE IInv
  OBVIOUS
<1>1. 1 \in Versions /\ 0 \in 0 .. MaxVersion /\ 0 \in 0 .. MaxEvents
  BY RecipeAssumption, OperatorAssumption DEF Versions
<1>2. StoreOK
  <2>1. recipe \in [Packages -> Versions] /\ entry \in [Packages -> 0 .. MaxVersion]
    BY <1>1 DEF Init
  <2>2. manifest \in [Packages -> SUBSET Files]
    BY <1>1, RecipeAssumption DEF Init
  <2>3. tree \in Builds /\ staged \in BOOLEAN /\ disk \in [Files -> Builds] /\ cut = {}
    BY ConstantsAreTyped DEF Init
  <2> QED
    BY <2>1, <2>2, <2>3 DEF StoreOK
<1>3. DriverOK
  BY <1>1, ConstantsAreTyped DEF Init, DriverOK, Idle
<1>4. RemovalOK
  BY DEF Init, RemovalOK, Removing, Idle, NoRemoval
<1>5. SafeInv
  BY DEF Init, SafeInv, DependenciesStay, Idle, NoRemoval
<1>6. OwnInv
  BY DEF Init, OwnInv, Idle
<1> QED
  BY <1>2, <1>3, <1>4, <1>5, <1>6 DEF IInv, TypeOK

\* Steps that end the command without touching the registry or the prefix.
LEMMA EndPreserves ==
    ASSUME IInv, NEW r \in {"ok", "done", "error", "killed"}, End(r), StoreOK',
           UNCHANGED <<entry, cut, disk>>, events' \in 0 .. MaxEvents
    PROVE  IInv'
<1>1. DriverOK' /\ RemovalOK' /\ driver'.pc = "idle" /\ removal' = NoRemoval
  BY EndIsTyped
<1>2. TypeOK'
  BY <1>1 DEF TypeOK
<1>3. SafeInv'
  BY <1>1, RegistryKept DEF IInv, SafeInv, NoBackDoor, NoRemoval
<1>4. OwnInv'
  BY <1>1 DEF OwnInv, LoopOnly
<1> QED
  BY <1>2, <1>3, <1>4 DEF IInv

LEMMA StartPreserves == ASSUME IInv, Start PROVE IInv'
<1>1. /\ UNCHANGED <<recipe, work, disk, registry, manifest, result, events>>
      /\ driver.pc = "idle"
  BY DEF Start, StartAll, StartBuild, StartInstall, StartUninstall
<1>2. StoreOK' /\ events' \in 0 .. MaxEvents
      /\ result' \in {"none", "ok", "done", "error", "killed"}
  BY <1>1 DEF IInv, TypeOK, StoreOK, DriverOK, work, registry
<1>3. entry' = entry /\ cut' = cut /\ disk' = disk /\ recipe' = recipe
  BY <1>1 DEF registry
<1>4. CASE StartAll
  <2>1. driver' = [Idle EXCEPT !.pc = "resolve"] /\ removal' = removal
    BY <1>4 DEF StartAll
  <2>2. driver' \in Drivers /\ driver'.pc = "resolve"
    BY <2>1, ConstantsAreTyped DEF Idle, Drivers
  <2>3. TypeOK'
    BY <1>1, <1>2, <2>1, <2>2 DEF IInv, TypeOK, DriverOK, RemovalOK, Removing
  <2> QED
    BY <1>3, <2>1, <2>2, <2>3, RegistryKept DEF IInv, SafeInv, OwnInv, NoBackDoor, LoopOnly
<1>5. CASE \E p \in Packages : StartBuild(p) \/ StartInstall(p)
  <2>1. PICK p \in Packages : StartBuild(p) \/ StartInstall(p)
    BY <1>5
  <2>2. removal' = removal /\ ~LoopOnly
    BY <2>1 DEF StartBuild, StartInstall, LoopOnly
  <2>3. \E pc \in {"build", "stage"} : \E c \in {"build", "install"} : Run(pc, c, p)
    BY <2>1 DEF StartBuild, StartInstall
  <2>4. /\ driver' \in Drivers /\ driver'.pc \in {"build", "stage"}
        /\ driver'.version \in Versions
    BY <2>3, RunIsTyped DEF IInv
  <2>5. TypeOK'
    BY <1>1, <1>2, <2>2, <2>4 DEF IInv, TypeOK, DriverOK, RemovalOK, Removing
  <2> QED
    BY <1>3, <2>2, <2>4, <2>5, RegistryKept DEF IInv, SafeInv, OwnInv, NoBackDoor, LoopOnly
<1>6. CASE \E p \in Packages, o \in Options : StartUninstall(p, o)
  <2>1. PICK p \in Packages, o \in Options : StartUninstall(p, o)
    BY <1>6
  <2>2. /\ driver' = [Idle EXCEPT !.pc = "enter", !.command = "uninstall"]
        /\ removal' = [stack |-> <<[pkg |-> p, todo |-> {}]>>, rest |-> {},
                       failed |-> FALSE, option |-> o]
    BY <2>1 DEF StartUninstall, NoRemoval
  <2>3. driver' \in Drivers /\ driver'.pc = "enter"
    BY <2>2, ConstantsAreTyped DEF Idle, Drivers
  <2>4. [pkg |-> p, todo |-> {}] \in Frames /\ o \in SUBSET {"with-deps", "dependents", "force"}
    BY <2>1, OperatorAssumption DEF Frames
  <2>5. RemovalOK'
    BY <2>2, <2>3, <2>4 DEF RemovalOK, Removing
  <2>6. TypeOK'
    BY <1>2, <2>3, <2>5 DEF TypeOK, DriverOK
  <2> QED
    BY <1>3, <2>2, <2>3, <2>6, RegistryKept DEF IInv, SafeInv, OwnInv, NoBackDoor, LoopOnly
<1> QED
  BY <1>4, <1>5, <1>6 DEF Start

LEMMA ResolvePreserves == ASSUME IInv, Resolve PROVE IInv'
<1>1. CASE ResolveMeta
  <2>1. /\ End("done") /\ UNCHANGED <<entry, cut, disk>>
        /\ StoreOK' /\ events' \in 0 .. MaxEvents
    BY <1>1 DEF ResolveMeta, IInv, TypeOK, StoreOK, DriverOK, work, registry
  <2> QED
    BY <2>1, EndPreserves
<1>2. CASE \E i \in DOMAIN Order : ResolveBuild(i)
  <2>1. PICK i \in DOMAIN Order : ResolveBuild(i)
    BY <1>2
  <2>2. /\ driver.pc = "resolve" /\ Run("build", "all build", Order[i])
        /\ UNCHANGED <<recipe, work, disk, registry, manifest, removal, result, events>>
    BY <2>1 DEF ResolveBuild
  <2>3. Order[i] \in Packages
    BY DEF Packages
  <2>4. /\ driver' \in Drivers /\ driver'.pc = "build" /\ driver'.command = "all build"
        /\ driver'.pkg = Order[i] /\ driver'.version = recipe[Order[i]]
        /\ driver'.version \in Versions
    BY <2>2, <2>3, RunIsTyped DEF IInv
  <2>5. TypeOK'
    BY <2>2, <2>4
    DEF IInv, TypeOK, StoreOK, DriverOK, RemovalOK, Removing, work, registry
  <2>6. SafeInv'
    BY <2>2, <2>4, RegistryKept DEF IInv, SafeInv, NoBackDoor, registry
  <2>7. OwnInv'
    BY <2>2, <2>4 DEF IInv, OwnInv, LoopOnly
  <2> QED
    BY <2>5, <2>6, <2>7 DEF IInv
<1> QED
  BY <1>1, <1>2 DEF Resolve

-----------------------------------------------------------------------------
\* Steps of a build up to the compiled tree.
LEMMA BuildStepPreserves ==
    ASSUME IInv, driver.pc \in {"build", "fetch"}, NEW pc \in {"fetch", "compile"},
           driver' = [driver EXCEPT !.pc = pc], tree' \in Builds, staged' \in BOOLEAN,
           pc = "compile" => tree' = [pkg |-> driver.pkg, version |-> driver.version],
           UNCHANGED <<recipe, disk, registry, manifest, removal, result, events>>
    PROVE  IInv'
<1>1. /\ driver \in Drivers /\ driver.version \in Versions
      /\ entry' = entry /\ cut' = cut /\ disk' = disk /\ recipe' = recipe
  BY DEF IInv, TypeOK, DriverOK, registry
<1>2. StoreOK'
  BY DEF IInv, TypeOK, StoreOK, registry
<1>3. driver' \in Drivers /\ driver'.pc = pc /\ driver'.version \in Versions
      /\ driver'.pkg = driver.pkg /\ driver'.version = driver.version
      /\ driver'.command = driver.command
  BY <1>1 DEF Drivers
<1>4. TypeOK'
  BY <1>1, <1>2, <1>3 DEF IInv, TypeOK, DriverOK, RemovalOK, Removing
<1>5. SafeInv'
  BY <1>1, <1>3, RegistryKept DEF IInv, SafeInv, NoBackDoor
<1>6. OwnInv'
  BY <1>1, <1>3 DEF IInv, OwnInv, LoopOnly
<1> QED
  BY <1>4, <1>5, <1>6 DEF IInv

LEMMA WipePreserves == ASSUME IInv, Wipe PROVE IInv'
<1>1. /\ driver.pc = "build" /\ driver' = [driver EXCEPT !.pc = "fetch"]
      /\ tree' \in Builds /\ staged' \in BOOLEAN
      /\ UNCHANGED <<recipe, disk, registry, manifest, removal, result, events>>
  BY ConstantsAreTyped DEF Wipe
<1> QED
  BY <1>1, BuildStepPreserves

LEMMA UnpackPreserves == ASSUME IInv, Unpack PROVE IInv'
<1>1. /\ driver.pc = "fetch" /\ driver' = [driver EXCEPT !.pc = "compile"]
      /\ tree' = [pkg |-> driver.pkg, version |-> driver.version] /\ staged' = staged
      /\ UNCHANGED <<recipe, disk, registry, manifest, removal, result, events>>
  BY DEF Unpack
<1>2. tree' \in Builds /\ staged' \in BOOLEAN
  BY <1>1, ConstantsAreTyped DEF IInv, TypeOK, StoreOK, DriverOK, Drivers
<1> QED
  BY <1>1, <1>2, BuildStepPreserves

LEMMA CompilePreserves == ASSUME IInv, Compile PROVE IInv'
<1>1. /\ driver.pc = "compile" /\ Finish /\ TypeOK /\ ~Removing
      /\ UNCHANGED <<recipe, tree, entry, cut, disk>>
      /\ StoreOK' /\ events' \in 0 .. MaxEvents
  BY DEF Compile, IInv, TypeOK, StoreOK, DriverOK, Removing, registry, work
<1>2. /\ DriverOK' /\ RemovalOK' /\ UNCHANGED removal
      /\ \/ driver'.pc \in {"idle", "resolve"}
         \/ /\ driver.command = "all build"
            /\ driver'.pc = "stage" /\ driver'.command = "all install"
            /\ driver'.pkg = driver.pkg /\ driver'.version = recipe[driver.pkg]
  BY <1>1, FinishIsTyped
<1>3. SafeInv'
  BY <1>1, <1>2, RegistryKept DEF IInv, SafeInv, NoBackDoor
<1>4. OwnInv'
  BY <1>1, <1>2 DEF IInv, OwnInv, LoopOnly
<1> QED
  BY <1>1, <1>2, <1>3, <1>4 DEF IInv, TypeOK

\* The files to copy are those the published build stages.
LEMMA PublishingIsTyped ==
    ASSUME DriverOK, NEW b \in Builds, b.version # 0, Publishing(b),
           driver.version \in Versions
    PROVE  /\ driver' \in Drivers /\ driver'.pc = "publish"
           /\ driver'.pkg = driver.pkg /\ driver'.version = driver.version
           /\ driver'.command = driver.command /\ driver'.from = b
           /\ driver'.todo = Payload[b.pkg][b.version]
<1>1. b.pkg \in Packages /\ b.version \in Versions
  BY DepsAreTyped DEF Builds
<1>2. Payload[b.pkg][b.version] \subseteq Files
  BY <1>1, DepsAreTyped
<1> QED
  BY <1>2 DEF Publishing, DriverOK, Drivers

LEMMA PublishingPreserves ==
    ASSUME IInv, NEW b \in Builds, b.version # 0, Publishing(b),
           driver.pc \in {"build", "stage", "staging"}, NoBackDoor => DepsThere, StoreOK',
           UNCHANGED <<recipe, disk, entry, cut, removal, result, events>>,
           LoopOnly => /\ b = [pkg |-> driver.pkg, version |-> driver.version]
                       /\ driver.pc = "build" => driver.pkg \in Generated
    PROVE  IInv'
<1>1. DriverOK /\ driver.version \in Versions
  BY DEF IInv, TypeOK, DriverOK
<1>2. /\ driver' \in Drivers /\ driver'.pc = "publish"
      /\ driver'.pkg = driver.pkg /\ driver'.version = driver.version
      /\ driver'.command = driver.command /\ driver'.from = b
      /\ driver'.todo = Payload[b.pkg][b.version]
  BY <1>1, PublishingIsTyped
<1>3. TypeOK'
  BY <1>1, <1>2 DEF IInv, TypeOK, DriverOK, RemovalOK, Removing
<1>4. NoBackDoor => DepsThere'
  BY <1>2, RegistryKept DEF DepsThere
<1>5. SafeInv'
  BY <1>2, <1>4, RegistryKept DEF IInv, SafeInv, NoBackDoor
<1>6. OwnInv'
  <2> SUFFICES ASSUME LoopOnly PROVE OwnInv'
    BY DEF OwnInv, LoopOnly
  <2>1. b.pkg = driver.pkg /\ b.version = driver.version
    OBVIOUS
  <2>2. /\ driver.version = recipe[driver.pkg]
        /\ driver.command = "all build" => driver.pkg \in Generated
    BY DEF IInv, OwnInv
  <2> QED
    BY <1>2, <2>1, <2>2 DEF OwnInv
<1> QED
  BY <1>3, <1>5, <1>6 DEF IInv

LEMMA RenderPreserves == ASSUME IInv, Render PROVE IInv'
<1> DEFINE b == [pkg |-> driver.pkg, version |-> driver.version]
<1>1. /\ driver.pc \in {"build", "stage"} /\ driver.pkg \in Generated /\ DepsThere
      /\ Publishing(b)
      /\ UNCHANGED <<recipe, disk, entry, cut, removal, result, events>>
  BY DEF Render, registry
<1>2. StoreOK'
  BY DEF Render, IInv, TypeOK, StoreOK, work, registry
<1>3. driver.pkg \in Packages /\ driver.version \in Versions
  BY <1>1 DEF IInv, TypeOK, DriverOK, Drivers
<1>4. b \in Builds /\ b.version # 0
  BY <1>3, ConstantsAreTyped
<1> QED
  BY <1>1, <1>2, <1>4, PublishingPreserves

LEMMA StagePreserves == ASSUME IInv, Stage PROVE IInv'
<1>1. /\ driver \in Drivers /\ driver.version \in Versions /\ tree.version # 0
      /\ driver.pc = "stage" /\ driver.pkg \notin Generated /\ DepsThere
      /\ driver' = [driver EXCEPT !.pc = "staging"] /\ tree' = tree
      /\ UNCHANGED <<recipe, disk, entry, cut, removal, result, events>>
  BY DEF Stage, Usable, IInv, TypeOK, DriverOK, registry
<1>2. StoreOK'
  BY DEF Stage, IInv, TypeOK, StoreOK, registry
<1>3. driver' \in Drivers /\ driver'.pc = "staging"
      /\ driver'.pkg = driver.pkg /\ driver'.version = driver.version
      /\ driver'.command = driver.command
  BY <1>1 DEF Drivers
<1>4. TypeOK'
  BY <1>1, <1>2, <1>3 DEF IInv, TypeOK, DriverOK, RemovalOK, Removing
<1>5. DepsThere'
  BY <1>1, <1>3, RegistryKept DEF DepsThere
<1>6. SafeInv'
  BY <1>1, <1>3, <1>5, RegistryKept DEF IInv, SafeInv, NoBackDoor
<1>7. OwnInv'
  BY <1>1, <1>3 DEF IInv, OwnInv, LoopOnly
<1> QED
  BY <1>4, <1>6, <1>7 DEF IInv

LEMMA MakeInstallPreserves == ASSUME IInv, MakeInstall PROVE IInv'
<1>1. /\ driver.pc = "staging" /\ Publishing(tree) /\ tree.version # 0
      /\ UNCHANGED <<recipe, disk, entry, cut, removal, result, events>>
  BY DEF MakeInstall, IInv, TypeOK, DriverOK, registry
<1>2. StoreOK' /\ tree \in Builds
  BY DEF MakeInstall, IInv, TypeOK, StoreOK, work, registry
<1>3. LoopOnly => tree = [pkg |-> driver.pkg, version |-> driver.version]
  BY <1>1 DEF IInv, OwnInv
<1>4. NoBackDoor => DepsThere
  BY <1>1 DEF IInv, SafeInv
<1> QED
  BY <1>1, <1>2, <1>3, <1>4, PublishingPreserves

LEMMA PublishFilePreserves ==
    ASSUME IInv, NEW f \in Files, PublishFile(f) PROVE IInv'
<1>1. /\ driver \in Drivers /\ driver.pc = "publish" /\ f \in driver.todo
      /\ driver.version \in Versions /\ driver.from \in Builds /\ driver.from.version # 0
      /\ disk \in [Files -> Builds] /\ disk' = [disk EXCEPT ![f] = driver.from]
      /\ entry' = entry /\ cut' = cut /\ recipe' = recipe /\ removal' = removal
      /\ driver' = [driver EXCEPT !.todo = @ \ {f},
                                  !.pc = IF driver.todo = {f} THEN "list" ELSE "publish"]
  BY DEF PublishFile, IInv, TypeOK, StoreOK, DriverOK, Drivers, registry
<1>2. StoreOK'
  <2>1. disk' \in [Files -> Builds]
    BY <1>1
  <2> QED
    BY <1>1, <2>1 DEF PublishFile, IInv, TypeOK, StoreOK, work
<1>3. /\ driver' \in Drivers /\ driver'.pc \in {"list", "publish"}
      /\ driver'.pkg = driver.pkg /\ driver'.version = driver.version
      /\ driver'.command = driver.command /\ driver'.from = driver.from
      /\ driver'.todo = driver.todo \ {f} /\ (driver'.pc = "list" => driver'.todo = {})
  BY <1>1 DEF Drivers
<1>4. TypeOK'
  BY <1>1, <1>2, <1>3 DEF PublishFile, IInv, TypeOK, DriverOK, RemovalOK, Removing
<1>5. /\ \A p \in Packages : Available(p) => Available(p)'
      /\ DependenciesStay => DependenciesStay'
  <2>1. \A g \in Files : Present(g) => Present(g)'
    BY <1>1 DEF Present
  <2> QED
    BY <1>1, <2>1, FilesComeIn DEF IInv, TypeOK
<1>6. SafeInv'
  <2> SUFFICES ASSUME NoBackDoor PROVE SafeInv'
    BY DEF SafeInv, NoBackDoor
  <2>1. DepsThere /\ Deps[driver.pkg][driver.version] \subseteq Packages
    BY <1>1, DepsAreTyped DEF IInv, SafeInv, Drivers
  <2>2. DepsThere'
    BY <1>3, <1>5, <2>1 DEF DepsThere
  <2> QED
    BY <1>1, <1>3, <1>5, <2>2 DEF IInv, SafeInv
<1>7. OwnInv'
  <2> SUFFICES ASSUME LoopOnly PROVE OwnInv'
    BY DEF OwnInv, LoopOnly
  <2>1. /\ driver.command = "all build" => driver.pkg \in Generated
        /\ driver.version = recipe[driver.pkg]
        /\ driver.from = [pkg |-> driver.pkg, version |-> driver.version]
        /\ \A g \in Payload[driver.pkg][driver.version] \ driver.todo : disk[g] = driver.from
    BY <1>1 DEF IInv, OwnInv
  <2>2. Payload[driver.pkg][driver.version] \subseteq Files
    BY <1>1, DepsAreTyped DEF Drivers
  <2>3. \A g \in Payload[driver.pkg][driver.version] \ driver'.todo : disk'[g] = driver.from
    BY <1>1, <1>3, <2>1, <2>2
  <2> QED
    BY <1>1, <1>3, <2>1, <2>3 DEF OwnInv
<1> QED
  BY <1>4, <1>6, <1>7 DEF IInv

LEMMA ListFilesPreserves == ASSUME IInv, ListFiles PROVE IInv'
<1>1. /\ driver \in Drivers /\ driver.pc = "list" /\ driver.version \in Versions
      /\ driver.from \in Builds /\ driver.from.version # 0
      /\ driver' = [driver EXCEPT !.pc = "register"]
      /\ UNCHANGED <<recipe, work, disk, entry, cut, removal, result, events>>
  BY DEF ListFiles, IInv, TypeOK, DriverOK, Drivers, registry
<1>2. driver.from.pkg \in Packages /\ driver.from.version \in Versions
  BY <1>1, DepsAreTyped DEF Builds
<1>3. Payload[driver.from.pkg][driver.from.version] \subseteq Files
  BY <1>2, DepsAreTyped
<1>4. manifest' \in [Packages -> SUBSET Files]
  BY <1>3 DEF ListFiles, IInv, TypeOK, StoreOK
<1>5. StoreOK'
  BY <1>1, <1>4 DEF IInv, TypeOK, StoreOK, work
<1>6. /\ driver' \in Drivers /\ driver'.pc = "register"
      /\ driver'.pkg = driver.pkg /\ driver'.version = driver.version
      /\ driver'.command = driver.command /\ driver'.from = driver.from
      /\ driver'.todo = driver.todo
  BY <1>1 DEF Drivers
<1>7. TypeOK'
  BY <1>1, <1>5, <1>6 DEF IInv, TypeOK, DriverOK, RemovalOK, Removing
<1>8. DepsThere' <=> DepsThere
  BY <1>1, <1>6, RegistryKept DEF DepsThere
<1>9. SafeInv'
  BY <1>1, <1>6, <1>8, RegistryKept DEF IInv, SafeInv, NoBackDoor
<1>10. OwnInv'
  BY <1>1, <1>6 DEF IInv, OwnInv, LoopOnly
<1> QED
  BY <1>7, <1>9, <1>10 DEF IInv

\* The end of an install, whatever became of the entry: only the loop goes on.
LEMMA RegisteredOwn ==
    ASSUME IInv, driver.pc = "register", Finish, UNCHANGED recipe, events' \in 0 .. MaxEvents
    PROVE  /\ DriverOK' /\ RemovalOK' /\ OwnInv' /\ UNCHANGED removal
           /\ driver'.pc \in {"idle", "resolve", "stage"}
<1>1. TypeOK /\ ~Removing
  BY DEF IInv, Removing
<1>2. /\ DriverOK' /\ RemovalOK' /\ UNCHANGED removal
      /\ \/ driver'.pc \in {"idle", "resolve"}
         \/ /\ driver.command = "all build"
            /\ driver'.pc = "stage" /\ driver'.command = "all install"
            /\ driver'.pkg = driver.pkg /\ driver'.version = recipe[driver.pkg]
  BY <1>1, FinishIsTyped
<1>3. CASE driver'.pc \in {"idle", "resolve"}
  BY <1>2, <1>3, OwnElsewhere
<1>4. CASE driver'.pc = "stage"
  <2>1. LoopOnly => driver.pkg \in Generated
    BY <1>2, <1>4 DEF IInv, OwnInv
  <2> QED
    BY <1>2, <1>4, <2>1 DEF OwnInv, LoopOnly
<1> QED
  BY <1>2, <1>3, <1>4

LEMMA RegisterPreserves == ASSUME IInv, Register PROVE IInv'
<1>1. /\ driver.pc = "register" /\ Finish /\ UNCHANGED <<recipe, disk>>
      /\ driver.pkg \in Packages /\ driver.version \in Versions
      /\ entry \in [Packages -> 0 .. MaxVersion]
      /\ entry' = [entry EXCEPT ![driver.pkg] = driver.version]
      /\ cut' = cut \ {driver.pkg} /\ events' \in 0 .. MaxEvents
  BY DEF Register, IInv, TypeOK, StoreOK, DriverOK, Drivers
<1>2. /\ DriverOK' /\ RemovalOK' /\ OwnInv' /\ UNCHANGED removal
      /\ driver'.pc \in {"idle", "resolve", "stage"}
  BY <1>1, RegisteredOwn
<1>3. driver.version \in 0 .. MaxVersion /\ driver.version # 0
  BY <1>1, ConstantsAreTyped
<1>4. StoreOK'
  BY <1>1, <1>3 DEF Register, IInv, TypeOK, StoreOK, work
<1>5. ASSUME NoBackDoor PROVE DependenciesStay'
  <2>1. \A p \in Packages : Registered(p) => Registered(p)'
    BY <1>1, <1>3 DEF Registered
  <2>2. \A p \in Packages : Available(p) => Available(p)'
    BY <1>1, <2>1, StillAvailable DEF Present
  <2>3. DepsThere /\ DependenciesStay
    BY <1>1, <1>5 DEF IInv, SafeInv
  <2> SUFFICES ASSUME NEW p \in Packages, entry'[p] # 0, NEW d \in Deps[p][entry'[p]]
               PROVE  Available(d)'
    BY DEF DependenciesStay
  <2>4. d \in Packages
    BY <1>4, DepsAreTyped DEF StoreOK
  <2>5. Available(d)
    BY <1>1, <2>3 DEF DepsThere, DependenciesStay
  <2> QED
    BY <2>2, <2>4, <2>5
<1>6. SafeInv'
  BY <1>1, <1>2, <1>5 DEF IInv, SafeInv, NoBackDoor
<1> QED
  BY <1>2, <1>4, <1>6 DEF IInv, TypeOK

LEMMA BuilderPreserves == ASSUME IInv, Builder PROVE IInv'
<1>1. CASE Refuse
  <2>1. /\ End("error") /\ UNCHANGED <<entry, cut, disk>>
        /\ StoreOK' /\ events' \in 0 .. MaxEvents
    BY <1>1 DEF Refuse, IInv, TypeOK, StoreOK, DriverOK, work, registry
  <2> QED
    BY <2>1, EndPreserves
<1> QED
  BY <1>1, WipePreserves, UnpackPreserves, CompilePreserves, RenderPreserves,
     StagePreserves, MakeInstallPreserves,
     PublishFilePreserves, ListFilesPreserves, RegisterPreserves DEF Builder

-----------------------------------------------------------------------------
\* The stack of the recursive uninstall stays a non-empty stack of frames.
LEMMA StackIsTyped ==
    ASSUME RemovalOK, Removing
    PROVE  /\ Depth \in Nat \ {0} /\ Top \in Frames
           /\ \A T \in SUBSET Packages :
                 /\ [removal.stack EXCEPT ![Depth].todo = T] \in Seq(Frames)
                 /\ [removal.stack EXCEPT ![Depth].todo = T] # <<>>
           /\ \A s \in Seq(Frames) : \A e \in Frames :
                 Append(s, e) \in Seq(Frames) /\ Append(s, e) # <<>>
           /\ Depth > 1 => /\ SubSeq(removal.stack, 1, Depth - 1) \in Seq(Frames)
                           /\ SubSeq(removal.stack, 1, Depth - 1) # <<>>
<1>1. removal.stack \in Seq(Frames) /\ removal.stack # <<>>
  BY DEF RemovalOK
<1>2. Depth \in Nat \ {0} /\ Depth \in 1 .. Len(removal.stack)
  BY <1>1, EmptySeq DEF Depth
<1>3. Top \in Frames
  BY <1>1, <1>2, ElementOfSeq DEF Top
<1>4. ASSUME NEW T \in SUBSET Packages
      PROVE  /\ [removal.stack EXCEPT ![Depth].todo = T] \in Seq(Frames)
             /\ [removal.stack EXCEPT ![Depth].todo = T] # <<>>
  <2> DEFINE e == [Top EXCEPT !.todo = T]
  <2>1. e \in Frames
    BY <1>3 DEF Frames
  <2>2. [removal.stack EXCEPT ![Depth].todo = T] = [removal.stack EXCEPT ![Depth] = e]
    BY <1>1, <1>2, LenProperties DEF Top
  <2> HIDE DEF e
  <2>3. /\ [removal.stack EXCEPT ![Depth] = e] \in Seq(Frames)
        /\ Len([removal.stack EXCEPT ![Depth] = e]) = Len(removal.stack)
    BY <1>1, <1>2, <2>1, ExceptSeq
  <2> QED
    BY <1>2, <2>2, <2>3, EmptySeq DEF Depth
<1>5. \A s \in Seq(Frames) : \A e \in Frames :
         Append(s, e) \in Seq(Frames) /\ Append(s, e) # <<>>
  BY AppendProperties
<1>6. ASSUME Depth > 1
      PROVE  /\ SubSeq(removal.stack, 1, Depth - 1) \in Seq(Frames)
             /\ SubSeq(removal.stack, 1, Depth - 1) # <<>>
  <2>1. \A i \in 1 .. Depth - 1 : removal.stack[i] \in Frames
    BY <1>1, <1>2, ElementOfSeq DEF Depth
  <2>2. /\ SubSeq(removal.stack, 1, Depth - 1) \in Seq(Frames)
        /\ Len(SubSeq(removal.stack, 1, Depth - 1)) = Depth - 1
    BY <1>2, <1>6, <2>1, SubSeqProperties
  <2> QED
    BY <1>2, <1>6, <2>2, EmptySeq
<1> QED
  BY <1>2, <1>3, <1>4, <1>5, <1>6

\* A step of the recursion that leaves the registry and the prefix alone.
LEMMA RecursionPreserves ==
    ASSUME IInv, UNCHANGED <<recipe, work, disk, registry, manifest, result, events>>,
           Removing, NEW pc \in {"enter", "dependents"}, driver' = [driver EXCEPT !.pc = pc],
           NEW s \in Seq(Frames), s # <<>>, removal' = [removal EXCEPT !.stack = s]
    PROVE  IInv'
<1>1. driver' \in Drivers /\ driver'.pc = pc
  BY DEF IInv, TypeOK, DriverOK, Drivers
<1>2. /\ removal'.stack = s /\ removal'.option = removal.option
      /\ removal' \in [stack : Seq(Frames), rest : SUBSET Packages, failed : BOOLEAN,
                        option : SUBSET {"with-deps", "dependents", "force"}]
  BY DEF IInv, TypeOK, RemovalOK
<1>3. StoreOK' /\ DriverOK'
  BY <1>1 DEF IInv, TypeOK, StoreOK, DriverOK, work, registry
<1>4. RemovalOK'
  BY <1>1, <1>2 DEF RemovalOK, Removing
<1>5. SafeInv'
  BY <1>1, <1>2, RegistryKept DEF IInv, SafeInv, NoBackDoor, registry
<1>6. OwnInv'
  BY <1>1, OwnElsewhere
<1> QED
  BY <1>3, <1>4, <1>5, <1>6 DEF IInv, TypeOK

LEMMA EnterPreserves == ASSUME IInv, Enter PROVE IInv'
<1> DEFINE T == IF "dependents" \in removal.option THEN ReverseDeps(Top.pkg) ELSE {}
           s == [removal.stack EXCEPT ![Depth].todo = T]
<1>1. Removing /\ RemovalOK
  BY DEF Enter, Removing, IInv, TypeOK
<1>2. T \in SUBSET Packages
  BY DEF ReverseDeps
<1>3. s \in Seq(Frames) /\ s # <<>>
  BY <1>1, <1>2, StackIsTyped
<1>4. removal' = [removal EXCEPT !.stack = s] /\ driver' = [driver EXCEPT !.pc = "dependents"]
  BY DEF Enter
<1>5. UNCHANGED <<recipe, work, disk, registry, manifest, result, events>>
  BY DEF Enter
<1> HIDE DEF s
<1> QED
  BY <1>1, <1>3, <1>4, <1>5, RecursionPreserves

LEMMA DescendPreserves ==
    ASSUME IInv, NEW d \in Packages, Descend(d) PROVE IInv'
<1> DEFINE t == [removal.stack EXCEPT ![Depth].todo = @ \ {d}]
           e == [pkg |-> d, todo |-> {}]
           s == Append(t, e)
<1>1. Removing /\ RemovalOK
  BY DEF Descend, Removing, IInv, TypeOK
<1>2. Top.todo \ {d} \in SUBSET Packages /\ e \in Frames
  BY <1>1, StackIsTyped DEF Frames
<1>3. t = [removal.stack EXCEPT ![Depth].todo = Top.todo \ {d}]
  BY DEF Top
<1>4. t \in Seq(Frames)
  BY <1>1, <1>2, <1>3, StackIsTyped
<1>5. removal' = [removal EXCEPT !.stack = s] /\ driver' = [driver EXCEPT !.pc = "enter"]
  BY DEF Descend
<1>6. UNCHANGED <<recipe, work, disk, registry, manifest, result, events>>
  BY DEF Descend
<1> HIDE DEF t, e
<1>7. s \in Seq(Frames) /\ s # <<>>
  BY <1>1, <1>2, <1>4, StackIsTyped
<1> HIDE DEF s
<1> QED
  BY <1>1, <1>5, <1>6, <1>7, RecursionPreserves

\* The driver that removes the files of a package.
LEMMA UnlinkingIsTyped ==
    ASSUME TypeOK, NEW p \in Packages, driver' = Unlinking(p)
    PROVE  driver' \in Drivers /\ driver'.pc = "unlink" /\ driver'.pkg = p
<1>1. {f \in manifest[p] : Present(f)} \subseteq Files
  BY DEF TypeOK, StoreOK
<1> QED
  BY <1>1 DEF Unlinking, TypeOK, DriverOK, Drivers

LEMMA PlanRemovalPreserves == ASSUME IInv, PlanRemoval PROVE IInv'
<1>1. /\ Removing /\ RemovalOK /\ TypeOK /\ MayGo(Top.pkg) /\ driver' = Unlinking(Top.pkg)
      /\ removal' = [removal EXCEPT !.rest = OwnDeps(Top.pkg) \ {Top.pkg}]
      /\ entry' = entry /\ cut' = cut /\ disk' = disk /\ recipe' = recipe
  BY DEF PlanRemoval, Removing, IInv, TypeOK, registry
<1>2. PICK t \in Packages : t = Top.pkg
  BY <1>1, StackIsTyped DEF Frames
<1>3. driver' \in Drivers /\ driver'.pc = "unlink" /\ driver'.pkg = t
  BY <1>1, <1>2, UnlinkingIsTyped
<1>4. entry[t] # 0 => Deps[t][entry[t]] \subseteq Packages
  BY <1>1, <1>2, DepsAreTyped DEF TypeOK, StoreOK
<1>5. /\ OwnDeps(t) \subseteq Packages
      /\ \A r \in OwnDeps(t) : ReverseDeps(r) \subseteq {t}
  BY <1>4 DEF OwnDeps
<1>6. StoreOK' /\ DriverOK'
  BY <1>3 DEF PlanRemoval, IInv, TypeOK, StoreOK, DriverOK, work, registry
<1>7. RemovalOK'
  BY <1>1, <1>2, <1>3, <1>5 DEF RemovalOK, Removing
<1>8. SafeInv'
  <2> SUFFICES ASSUME NoBackDoor PROVE SafeInv'
    BY DEF SafeInv, NoBackDoor
  <2>1. "force" \notin removal.option /\ DependenciesStay
    BY DEF IInv, SafeInv
  <2>2. removal'.option = removal.option /\ removal'.rest \subseteq OwnDeps(t)
    BY <1>1, <1>2 DEF RemovalOK
  <2>3. ReverseDeps(t)' = {}
    BY <1>1, <1>2, <2>1, RegistryKept DEF MayGo
  <2>4. \A r \in removal'.rest : ReverseDeps(r)' \subseteq {t}
    BY <1>1, <1>5, <2>2, RegistryKept
  <2>5. DependenciesStay'
    BY <1>1, <2>1, RegistryKept
  <2>6. ReverseDeps(driver.pkg)' = {}
    BY <1>3, <2>3
  <2> QED
    BY <1>1, <1>3, <2>1, <2>2, <2>3, <2>4, <2>5, <2>6 DEF SafeInv
<1>9. OwnInv'
  BY <1>3, OwnElsewhere
<1> QED
  BY <1>6, <1>7, <1>8, <1>9 DEF IInv, TypeOK

\* A file is removed, or cannot be.
LEMMA UnlinkedPreserves ==
    ASSUME IInv, NEW f \in Files, driver.pc = "unlink", f \in driver.todo,
           driver' = [driver EXCEPT !.todo = @ \ {f}], PcInv, disk' \in [Files -> Builds],
           \A g \in Files \ {f} : disk'[g] = disk[g],
           NEW b \in BOOLEAN, removal' = [removal EXCEPT !.failed = b],
           UNCHANGED <<recipe, work, registry, manifest, result>>, events' \in 0 .. MaxEvents
    PROVE  IInv'
<1>1. driver' \in Drivers /\ driver'.pc = "unlink" /\ driver'.pkg = driver.pkg
  BY DEF IInv, TypeOK, DriverOK, Drivers
<1>2. /\ removal'.rest = removal.rest /\ removal'.stack = removal.stack
      /\ removal'.option = removal.option
      /\ removal' \in [stack : Seq(Frames), rest : SUBSET Packages, failed : BOOLEAN,
                        option : SUBSET {"with-deps", "dependents", "force"}]
  BY DEF IInv, TypeOK, RemovalOK
<1>3. StoreOK' /\ DriverOK'
  BY <1>1 DEF IInv, TypeOK, StoreOK, DriverOK, work, registry
<1>4. RemovalOK'
  BY <1>1, <1>2 DEF IInv, TypeOK, RemovalOK, Removing
<1>5. ASSUME NoBackDoor
      PROVE  /\ \A p : ReverseDeps(p)' = ReverseDeps(p)
             /\ DependenciesStay => DependenciesStay'
  <2>1. driver.pkg \in Packages /\ StoreOK /\ ReverseDeps(driver.pkg) = {}
    BY <1>5 DEF IInv, TypeOK, DriverOK, Drivers, SafeInv
  <2>2. \A p \in Packages \ {driver.pkg} : f \notin PcFile[p]
    BY <1>5 DEF PcInv
  <2>3. \A p \in Packages \ {driver.pkg} : \A g \in PcFile[p] : Present(g) => Present(g)'
    BY <2>2, RecipeAssumption DEF Present
  <2> QED
    BY <2>1, <2>3, FilesGo DEF registry
<1>6. SafeInv'
  BY <1>1, <1>2, <1>5 DEF IInv, SafeInv, NoBackDoor, registry
<1>7. OwnInv'
  BY <1>1, OwnElsewhere
<1> QED
  BY <1>3, <1>4, <1>6, <1>7 DEF IInv, TypeOK

LEMMA UnlinkPreserves ==
    ASSUME IInv, PcInv, NEW f \in Files, Unlink(f) PROVE IInv'
<1>1. disk' \in [Files -> Builds] /\ \A g \in Files \ {f} : disk'[g] = disk[g]
  BY ConstantsAreTyped DEF Unlink, IInv, TypeOK, StoreOK
<1>2. removal.failed \in BOOLEAN /\ removal' = [removal EXCEPT !.failed = removal.failed]
  BY DEF Unlink, IInv, TypeOK, RemovalOK
<1>3. /\ driver.pc = "unlink" /\ f \in driver.todo
      /\ driver' = [driver EXCEPT !.todo = @ \ {f}]
      /\ UNCHANGED <<recipe, work, registry, manifest, result>> /\ events' \in 0 .. MaxEvents
  BY DEF Unlink, IInv, TypeOK, DriverOK
<1> QED
  BY <1>1, <1>2, <1>3, UnlinkedPreserves

\* Once a package that nothing needs is gone, what remains has what it needs.
LEMMA DropIsSafe ==
    ASSUME StoreOK, UNCHANGED disk, NEW p \in Packages, ReverseDeps(p) = {},
           DependenciesStay, entry' = [entry EXCEPT ![p] = 0], cut' = cut \ {p}
    PROVE  /\ DependenciesStay'
           /\ \A q : ReverseDeps(q)' \subseteq ReverseDeps(q) \ {p}
<1>1. entry \in [Packages -> 0 .. MaxVersion] /\ entry' \in [Packages -> 0 .. MaxVersion]
  BY ConstantsAreTyped DEF StoreOK
<1>2. \A q \in Packages : entry'[q] # 0 => q # p /\ entry'[q] = entry[q]
  BY <1>1
<1>3. \A q : ReverseDeps(q)' \subseteq ReverseDeps(q) \ {p}
  BY <1>2 DEF ReverseDeps
<1>4. DependenciesStay'
  <2> SUFFICES ASSUME NEW q \in Packages, entry'[q] # 0, NEW d \in Deps[q][entry'[q]]
               PROVE  Available(d)'
    BY DEF DependenciesStay
  <2>1. q # p /\ entry[q] # 0 /\ d \in Deps[q][entry[q]]
    BY <1>2
  <2>2. d \in Packages
    BY <1>1, <2>1, DepsAreTyped
  <2>3. d # p
    BY <2>1 DEF ReverseDeps
  <2>4. Available(d)
    BY <2>1 DEF DependenciesStay
  <2>5. Registered(d) => Registered(d)'
    BY <1>1, <2>2, <2>3 DEF Registered
  <2> QED
    BY <2>2, <2>4, <2>5, StillAvailable DEF Present
<1> QED
  BY <1>3, <1>4

LEMMA DropPreserves == ASSUME IInv, Drop PROVE IInv'
<1>1. /\ driver.pc = "unlink" /\ NextRemoval /\ TypeOK /\ RemovalOK /\ Removing
      /\ driver.pkg \in Packages /\ entry' = [entry EXCEPT ![driver.pkg] = 0]
      /\ cut' = cut \ {driver.pkg} /\ disk' = disk /\ events' = events
      /\ UNCHANGED <<recipe, work, manifest>> /\ events' \in 0 .. MaxEvents
  BY DEF Drop, IInv, TypeOK, DriverOK, Drivers, Removing
<1>2. StoreOK'
  <2>1. entry' \in [Packages -> 0 .. MaxVersion]
    BY <1>1, ConstantsAreTyped DEF TypeOK, StoreOK
  <2>2. cut' \subseteq {p \in Packages : entry'[p] = 0}
    BY <1>1 DEF TypeOK, StoreOK
  <2> QED
    BY <1>1, <2>1, <2>2 DEF TypeOK, StoreOK, work
<1>3. ASSUME NoBackDoor
      PROVE  /\ DependenciesStay' /\ "force" \notin removal.option
             /\ \A r \in removal.rest : ReverseDeps(r)' = {}
  <2>1. /\ ReverseDeps(driver.pkg) = {} /\ DependenciesStay
        /\ "force" \notin removal.option
        /\ \A r \in removal.rest : ReverseDeps(r) \subseteq {driver.pkg}
    BY <1>1, <1>3 DEF IInv, SafeInv
  <2>2. /\ DependenciesStay'
        /\ \A q : ReverseDeps(q)' \subseteq ReverseDeps(q) \ {driver.pkg}
    BY <1>1, <1>3, <2>1, DropIsSafe DEF TypeOK
  <2> QED
    BY <1>1, <2>1, <2>2
<1>4. CASE \E r \in removal.rest : /\ driver' = Unlinking(r)
                                  /\ removal' = [removal EXCEPT !.rest = @ \ {r}]
                                  /\ UNCHANGED result
  <2>1. PICK r \in removal.rest : /\ driver' = Unlinking(r)
                                  /\ removal' = [removal EXCEPT !.rest = @ \ {r}]
                                  /\ UNCHANGED result
    BY <1>4
  <2>2. r \in Packages
    BY <1>1 DEF RemovalOK
  <2>3. driver' \in Drivers /\ driver'.pc = "unlink" /\ driver'.pkg = r
    BY <1>1, <2>1, <2>2, UnlinkingIsTyped
  <2>4. /\ removal'.rest \subseteq removal.rest /\ removal'.option = removal.option
        /\ RemovalOK'
    BY <1>1, <2>1, <2>3 DEF RemovalOK, Removing
  <2>5. DriverOK'
    BY <1>1, <2>1, <2>3 DEF TypeOK, DriverOK
  <2>6. SafeInv'
    <3> SUFFICES ASSUME NoBackDoor PROVE SafeInv'
      BY DEF SafeInv, NoBackDoor
    <3>1. ReverseDeps(r)' = {} /\ \A q \in removal'.rest : ReverseDeps(q)' = {}
      BY <1>3, <2>1, <2>4
    <3>2. ReverseDeps(driver.pkg)' = {}
      BY <2>3, <3>1
    <3> QED
      BY <1>3, <2>3, <2>4, <3>1, <3>2 DEF SafeInv
  <2> QED
    BY <1>2, <2>3, <2>4, <2>5, <2>6, OwnElsewhere DEF IInv, TypeOK
<1>5. CASE /\ removal.rest = {} /\ Depth > 1
           /\ driver' = [driver EXCEPT !.pc = "dependents"]
           /\ removal' = [removal EXCEPT !.stack = SubSeq(@, 1, Depth - 1)]
           /\ UNCHANGED result
  <2>1. driver' \in Drivers /\ driver'.pc = "dependents"
    BY <1>5 DEF IInv, TypeOK, DriverOK, Drivers
  <2>2. RemovalOK' /\ removal'.option = removal.option
    BY <1>1, <1>5, <2>1, StackIsTyped DEF RemovalOK, Removing
  <2>3. DriverOK'
    BY <1>1, <1>5, <2>1 DEF TypeOK, DriverOK
  <2>4. SafeInv'
    BY <1>3, <2>1, <2>2 DEF SafeInv, NoBackDoor
  <2> QED
    BY <1>2, <2>1, <2>2, <2>3, <2>4, OwnElsewhere DEF IInv, TypeOK
<1>6. CASE removal.rest = {} /\ Depth = 1 /\ End("ok")
  <2>1. DriverOK' /\ RemovalOK' /\ driver'.pc = "idle" /\ removal' = NoRemoval
    BY <1>1, <1>6, EndIsTyped
  <2>2. SafeInv'
    BY <1>3, <2>1 DEF SafeInv, NoBackDoor, NoRemoval
  <2> QED
    BY <1>2, <2>1, <2>2, OwnElsewhere DEF IInv, TypeOK
<1> QED
  BY <1>1, <1>4, <1>5, <1>6 DEF NextRemoval

LEMMA UninstallerPreserves == ASSUME IInv, PcInv, Uninstaller PROVE IInv'
<1>1. CASE NotInstalled \/ Depended \/ Keep
  <2>1. /\ End("error") /\ UNCHANGED <<entry, cut, disk>>
        /\ StoreOK' /\ events' \in 0 .. MaxEvents
    BY <1>1 DEF NotInstalled, Depended, Keep, IInv, TypeOK, StoreOK, DriverOK, work, registry
  <2> QED
    BY <2>1, EndPreserves
<1> QED
  BY <1>1, EnterPreserves, DescendPreserves, PlanRemovalPreserves, UnlinkPreserves,
     DropPreserves DEF Uninstaller

-----------------------------------------------------------------------------
LEMMA EventCounts ==
    ASSUME IInv, NEW e, Event(e)
    PROVE  e \in Events /\ events' \in 0 .. MaxEvents
BY OperatorAssumption DEF Event, IInv, TypeOK, DriverOK

\* A cut entry still counts as registered, and names no dependencies itself.
LEMMA CutIsSafe ==
    ASSUME StoreOK, UNCHANGED disk, NEW p \in Packages, DependenciesStay,
           entry' = [entry EXCEPT ![p] = 0], cut' = cut \cup {p}
    PROVE  DependenciesStay'
<1>1. entry \in [Packages -> 0 .. MaxVersion]
  BY DEF StoreOK
<1>2. \A q \in Packages : entry'[q] # 0 => entry'[q] = entry[q]
  BY <1>1
<1>3. \A q \in Packages : Registered(q) => Registered(q)'
  BY <1>1 DEF Registered
<1> SUFFICES ASSUME NEW q \in Packages, entry'[q] # 0, NEW d \in Deps[q][entry'[q]]
             PROVE  Available(d)'
  BY DEF DependenciesStay
<1>4. d \in Deps[q][entry[q]] /\ entry[q] # 0
  BY <1>2
<1>5. d \in Packages
  BY <1>1, <1>4, DepsAreTyped
<1>6. Available(d)
  BY <1>4 DEF DependenciesStay
<1> QED
  BY <1>3, <1>5, <1>6, StillAvailable DEF Present

LEMMA RegisterFailsPreserves == ASSUME IInv, RegisterFails PROVE IInv'
<1>1. /\ driver.pc = "register" /\ Finish /\ UNCHANGED <<recipe, work, disk, manifest>>
      /\ "full" \in Events /\ events' \in 0 .. MaxEvents
  BY EventCounts DEF RegisterFails
<1>2. /\ DriverOK' /\ RemovalOK' /\ OwnInv' /\ UNCHANGED removal
      /\ driver'.pc \in {"idle", "resolve", "stage"}
  BY <1>1, RegisteredOwn
<1>3. CASE UNCHANGED registry
  <2>1. StoreOK'
    BY <1>1, <1>3 DEF IInv, TypeOK, StoreOK, work, registry
  <2>2. SafeInv'
    BY <1>1, <1>2, <1>3, RegistryKept DEF IInv, SafeInv, NoBackDoor, registry
  <2> QED
    BY <1>2, <2>1, <2>2 DEF IInv, TypeOK
<1>4. CASE /\ entry' = [entry EXCEPT ![driver.pkg] = 0]
           /\ cut' = cut \cup {driver.pkg}
  <2>1. driver.pkg \in Packages /\ entry \in [Packages -> 0 .. MaxVersion]
    BY DEF IInv, TypeOK, StoreOK, DriverOK, Drivers
  <2>2. entry' \in [Packages -> 0 .. MaxVersion]
    BY <1>4, <2>1, ConstantsAreTyped
  <2>3. cut' \subseteq {p \in Packages : entry'[p] = 0}
    BY <1>4, <2>1 DEF IInv, TypeOK, StoreOK
  <2>4. StoreOK'
    BY <1>1, <2>2, <2>3 DEF IInv, TypeOK, StoreOK, work
  <2>5. SafeInv'
    BY <1>1, <1>2, <1>4, <2>1, CutIsSafe DEF IInv, TypeOK, SafeInv, NoBackDoor
  <2> QED
    BY <1>2, <2>4, <2>5 DEF IInv, TypeOK
<1> QED
  BY <1>3, <1>4 DEF RegisterFails

LEMMA KillPreserves == ASSUME IInv, Kill PROVE IInv'
<1>1. /\ Interrupted /\ End("killed") /\ UNCHANGED <<recipe, work, disk>>
      /\ events' \in 0 .. MaxEvents
  BY EventCounts DEF Kill
<1>2. /\ DriverOK' /\ RemovalOK' /\ driver'.pc = "idle" /\ removal' = NoRemoval
  BY <1>1, EndIsTyped
<1>3. driver.pkg \in Packages /\ entry \in [Packages -> 0 .. MaxVersion]
  BY DEF IInv, TypeOK, StoreOK, DriverOK, Drivers
<1>4. StoreOK'
  <2>1. CASE UNCHANGED registry
    BY <1>1, <2>1 DEF Interrupted, IInv, TypeOK, StoreOK, work, registry
  <2>2. CASE /\ entry' = [entry EXCEPT ![driver.pkg] = 0]
             /\ cut' = cut \cup {driver.pkg} /\ UNCHANGED manifest
    <3>1. entry' \in [Packages -> 0 .. MaxVersion]
      BY <1>3, <2>2, ConstantsAreTyped
    <3>2. cut' \subseteq {p \in Packages : entry'[p] = 0}
      BY <1>3, <2>2 DEF IInv, TypeOK, StoreOK
    <3> QED
      BY <1>1, <2>2, <3>1, <3>2 DEF IInv, TypeOK, StoreOK, work
  <2> QED
    BY <1>1, <2>1, <2>2 DEF Interrupted
<1>5. SafeInv'
  <2> SUFFICES ASSUME NoBackDoor PROVE SafeInv'
    BY DEF SafeInv, NoBackDoor
  <2>1. StoreOK /\ DependenciesStay
    BY DEF IInv, TypeOK, SafeInv
  <2>2. CASE entry' = entry /\ cut' = cut
    BY <1>1, <1>2, <2>1, <2>2, RegistryKept DEF SafeInv, NoRemoval
  <2>3. CASE /\ entry' = [entry EXCEPT ![driver.pkg] = 0]
             /\ cut' = cut \cup {driver.pkg}
    BY <1>1, <1>2, <1>3, <2>1, <2>3, CutIsSafe DEF SafeInv, NoRemoval
  <2> QED
    BY <1>1, <2>2, <2>3 DEF Interrupted, registry
<1> QED
  BY <1>2, <1>4, <1>5, OwnElsewhere DEF IInv, TypeOK

LEMMA BumpPreserves ==
    ASSUME IInv, NEW p \in Packages, Bump(p) PROVE IInv'
<1>1. /\ recipe[p] < MaxVersion /\ recipe' = [recipe EXCEPT ![p] = @ + 1]
      /\ "bump" \in Events /\ events' \in 0 .. MaxEvents
      /\ UNCHANGED <<work, disk, registry, driver, removal, result>>
      /\ recipe \in [Packages -> Versions]
  BY EventCounts DEF Bump, IInv, TypeOK, StoreOK
<1>2. recipe[p] + 1 \in Versions
  BY <1>1, RecipeAssumption DEF Versions
<1>3. recipe' \in [Packages -> Versions]
  BY <1>1, <1>2
<1>4. manifest' \in [Packages -> SUBSET Files]
  BY <1>2, DepsAreTyped DEF Bump, IInv, TypeOK, StoreOK
<1>5. TypeOK'
  BY <1>1, <1>3, <1>4
  DEF IInv, TypeOK, StoreOK, DriverOK, RemovalOK, Removing, work, registry
<1>6. SafeInv'
  BY <1>1, RegistryKept DEF IInv, SafeInv, NoBackDoor, DepsThere, registry
<1>7. OwnInv'
  BY <1>1 DEF OwnInv, LoopOnly
<1> QED
  BY <1>5, <1>6, <1>7 DEF IInv

LEMMA EnvironsPreserve == ASSUME IInv, PcInv, Environs PROVE IInv'
<1>1. CASE Fail \/ RemovalFails
  <2>1. /\ End("error") /\ UNCHANGED <<entry, cut, disk>>
        /\ StoreOK' /\ events' \in 0 .. MaxEvents
    BY <1>1, EventCounts DEF Fail, RemovalFails, IInv, TypeOK, StoreOK, work, registry
  <2> QED
    BY <2>1, EndPreserves
<1>2. ASSUME NEW f \in Files, UnlinkFails(f) PROVE IInv'
  <2>1. /\ disk' \in [Files -> Builds] /\ \A g \in Files \ {f} : disk'[g] = disk[g]
        /\ events' \in 0 .. MaxEvents
    BY <1>2, EventCounts DEF UnlinkFails, IInv, TypeOK, StoreOK
  <2>2. /\ driver.pc = "unlink" /\ f \in driver.todo
        /\ driver' = [driver EXCEPT !.todo = @ \ {f}]
        /\ removal' = [removal EXCEPT !.failed = TRUE]
        /\ UNCHANGED <<recipe, work, registry, manifest, result>>
    BY <1>2 DEF UnlinkFails
  <2> QED
    BY <2>1, <2>2, UnlinkedPreserves
<1> QED
  BY <1>1, <1>2, RegisterFailsPreserves, KillPreserves, BumpPreserves DEF Environs

-----------------------------------------------------------------------------
(***************************************************************************)
(* The file lists, and what an uninstall removes.                          *)
(***************************************************************************)

\* Lists are written at the end of an install, cut short by a kill, and edited
\* with the recipes.
LEMMA ListsChange ==
    ASSUME [Next]_vars
    PROVE  UNCHANGED manifest \/ ListFiles \/ Kill \/ \E p \in Packages : Bump(p)
<1>1. CASE Start \/ Resolve
  BY <1>1 DEF Start, StartAll, StartBuild, StartInstall, StartUninstall, Resolve, ResolveMeta,
     ResolveBuild
<1>2. CASE Builder
  BY <1>2 DEF Builder, Wipe, Unpack, Compile, Render, Stage, MakeInstall, Refuse, PublishFile,
     Register
<1>3. CASE Uninstaller
  BY <1>3 DEF Uninstaller, Enter, NotInstalled, PlanRemoval, Depended, Drop, Keep, Descend, Unlink
<1>4. CASE Environs
  BY <1>4 DEF Environs, Fail, RegisterFails, RemovalFails, UnlinkFails
<1>5. CASE UNCHANGED vars
  BY <1>5 DEF vars
<1> QED
  BY <1>1, <1>2, <1>3, <1>4, <1>5 DEF Next

\* Files are chosen for removal when a package's turn comes, and then only fewer.
LEMMA RemovalsAreListed ==
    ASSUME IInv, [Next]_vars, driver'.pc = "unlink"
    PROVE  \/ \E p \in Packages : driver' = Unlinking(p) /\ UNCHANGED manifest
           \/ /\ driver.pc = "unlink" /\ driver'.pkg = driver.pkg
              /\ driver'.todo \subseteq driver.todo
<1>1. driver \in Drivers /\ RemovalOK /\ TypeOK /\ Idle.pc = "idle"
  BY DEF IInv, TypeOK, DriverOK, Idle
<1>2. ASSUME NEW pc, NEW c, NEW p, Run(pc, c, p) PROVE driver'.pc = pc
  BY <1>2 DEF Run, Idle
<1>3. ~Finish
  <2>1. [Idle EXCEPT !.pc = "resolve"].pc = "resolve"
    BY DEF Idle
  <2> QED
    BY <1>1, <1>2, <2>1 DEF Finish
<1>4. \A r : ~End(r)
  BY <1>1 DEF End
<1>5. CASE Start
  <2>1. ~StartAll
    BY DEF StartAll, Idle
  <2>2. \A p \in Packages, o \in Options : ~StartUninstall(p, o)
    BY DEF StartUninstall, Idle
  <2> QED
    BY <1>2, <1>5, <2>1, <2>2 DEF Start, StartBuild, StartInstall
<1>6. ~Resolve
  BY <1>2, <1>4 DEF Resolve, ResolveMeta, ResolveBuild
<1>7. ~Builder
  BY <1>1, <1>3, <1>4
  DEF Builder, Wipe, Unpack, Compile, Render, Publishing, Stage, MakeInstall, Refuse, PublishFile,
      ListFiles, Register, Drivers
<1>8. CASE Uninstaller
  <2>1. CASE PlanRemoval
    <3>1. Top.pkg \in Packages
      BY <1>1, <2>1, StackIsTyped DEF PlanRemoval, Removing, Frames
    <3> QED
      BY <2>1, <3>1 DEF PlanRemoval
  <2>2. CASE Drop
    <3>1. driver' # [driver EXCEPT !.pc = "dependents"]
      BY <1>1 DEF Drivers
    <3>2. PICK r \in removal.rest : driver' = Unlinking(r)
      BY <1>4, <2>2, <3>1 DEF Drop, NextRemoval
    <3> QED
      BY <1>1, <2>2, <3>2 DEF Drop, RemovalOK
  <2>3. ASSUME NEW f \in Files, Unlink(f)
        PROVE  /\ driver.pc = "unlink" /\ driver'.pkg = driver.pkg
               /\ driver'.todo \subseteq driver.todo
    BY <1>1, <2>3 DEF Unlink, Drivers
  <2>4. ~Enter /\ \A d \in Packages : ~Descend(d)
    BY <1>1 DEF Enter, Descend, Drivers
  <2>5. ~NotInstalled /\ ~Depended /\ ~Keep
    BY <1>4 DEF NotInstalled, Depended, Keep
  <2> QED
    BY <1>8, <2>1, <2>2, <2>3, <2>4, <2>5 DEF Uninstaller
<1>9. CASE Environs
  <2>1. ~Fail /\ ~RegisterFails /\ ~RemovalFails /\ ~Kill
    BY <1>3, <1>4 DEF Fail, RegisterFails, RemovalFails, Kill
  <2>2. ASSUME NEW f \in Files, UnlinkFails(f)
        PROVE  /\ driver.pc = "unlink" /\ driver'.pkg = driver.pkg
               /\ driver'.todo \subseteq driver.todo
    BY <1>1, <2>2 DEF UnlinkFails, Drivers
  <2>3. ASSUME NEW p \in Packages, Bump(p) PROVE UNCHANGED driver
    BY <2>3 DEF Bump
  <2> QED
    BY <1>9, <2>1, <2>2, <2>3 DEF Environs
<1>10. CASE UNCHANGED vars
  BY <1>10 DEF vars
<1> QED
  BY <1>5, <1>6, <1>7, <1>8, <1>9, <1>10 DEF Next

-----------------------------------------------------------------------------
(***************************************************************************)
(* The tree that is installed is the package's.                            *)
(***************************************************************************)
LEMMA TreeElsewhere ==
    ASSUME driver'.pc \in {"idle", "resolve", "build", "fetch", "enter", "dependents", "unlink"}
    PROVE  TreeInv'
BY DEF TreeInv

\* After a build the loop installs what it built; after that it resolves.
LEMMA FinishKeepsTree ==
    ASSUME IInv, TreeInv, Finish, UNCHANGED tree, driver.pc \in {"compile", "register"}
    PROVE  TreeInv'
<1>1. CASE driver.command = "all build"
  <2>1. /\ driver'.pc = "stage" /\ driver'.command = "all install"
        /\ driver'.pkg = driver.pkg
    BY <1>1 DEF Finish, Run, Idle
  <2> QED
    BY <1>1, <2>1 DEF TreeInv
<1>2. CASE driver.command # "all build"
  <2>1. driver' = [Idle EXCEPT !.pc = "resolve"] \/ driver' = Idle
    BY <1>2 DEF Finish
  <2>2. driver'.pc \in {"idle", "resolve"}
    BY <2>1 DEF Idle
  <2> QED
    BY <2>2, TreeElsewhere
<1> QED
  BY <1>1, <1>2

LEMMA BuilderKeepsTree == ASSUME IInv, TreeInv, Builder PROVE TreeInv'
<1> SUFFICES ASSUME "install" \notin Commands PROVE TreeInv'
  BY DEF TreeInv
<1>1. driver \in Drivers /\ tree \in Builds
  BY DEF IInv, TypeOK, StoreOK, DriverOK
<1>2. CASE Wipe
  <2>1. driver'.pc = "fetch"
    BY <1>1, <1>2 DEF Wipe, Drivers
  <2> QED
    BY <2>1, TreeElsewhere
<1>3. CASE Unpack
  BY <1>1, <1>3 DEF Unpack, TreeInv, Drivers
<1>4. CASE Compile \/ Register
  BY <1>4, FinishKeepsTree DEF Compile, Register, work
<1>5. CASE Render
  BY <1>1, <1>5 DEF Render, Publishing, TreeInv, Drivers
<1>6. CASE Stage
  BY <1>1, <1>6 DEF Stage, TreeInv, Drivers
<1>7. CASE MakeInstall
  BY <1>1, <1>7 DEF MakeInstall, Publishing, TreeInv, Drivers
<1>8. CASE Refuse
  <2>1. driver'.pc = "idle"
    BY <1>8 DEF Refuse, End, Idle
  <2> QED
    BY <2>1, TreeElsewhere
<1>9. ASSUME NEW f \in Files, PublishFile(f) PROVE TreeInv'
  BY <1>1, <1>9 DEF PublishFile, TreeInv, Drivers
<1>10. CASE ListFiles
  BY <1>1, <1>10 DEF ListFiles, TreeInv, Drivers
<1> QED
  BY <1>2, <1>3, <1>4, <1>5, <1>6, <1>7, <1>8, <1>9, <1>10 DEF Builder

LEMMA TreeStep == ASSUME IInv, TreeInv, [Next]_vars PROVE TreeInv'
<1> SUFFICES ASSUME "install" \notin Commands PROVE TreeInv'
  BY DEF TreeInv
<1>1. driver \in Drivers /\ \A r : End(r) => driver'.pc = "idle"
  BY DEF IInv, TypeOK, DriverOK, End, Idle
<1>2. CASE Start
  <2>1. driver'.pc \in {"resolve", "build", "enter"}
    BY <1>2 DEF Start, StartAll, StartBuild, StartInstall, StartUninstall, Run, Idle
  <2> QED
    BY <2>1, TreeElsewhere
<1>3. CASE Resolve
  <2>1. driver'.pc \in {"idle", "build"}
    BY <1>1, <1>3 DEF Resolve, ResolveMeta, ResolveBuild, Run, Idle
  <2> QED
    BY <2>1, TreeElsewhere
<1>4. CASE Uninstaller
  <2>1. \A r : driver' = Unlinking(r) => driver'.pc = "unlink"
    BY <1>1 DEF Unlinking, Drivers
  <2>2. CASE Drop
    <3>1. driver'.pc \in {"idle", "dependents", "unlink"}
      BY <1>1, <2>1, <2>2 DEF Drop, NextRemoval, Drivers
    <3> QED
      BY <3>1, TreeElsewhere
  <2>3. ASSUME \/ Enter \/ PlanRemoval
               \/ \E d \in Packages : Descend(d)
               \/ \E f \in Files : Unlink(f)
        PROVE  driver'.pc \in {"enter", "dependents", "unlink"}
    BY <1>1, <2>1, <2>3 DEF Enter, PlanRemoval, Descend, Unlink, Drivers
  <2>4. ASSUME NotInstalled \/ Depended \/ Keep PROVE driver'.pc = "idle"
    BY <1>1, <2>4 DEF NotInstalled, Depended, Keep
  <2> QED
    BY <1>4, <2>2, <2>3, <2>4, TreeElsewhere DEF Uninstaller
<1>5. CASE Environs
  <2>1. CASE RegisterFails
    BY <2>1, FinishKeepsTree DEF RegisterFails, work
  <2>2. CASE \E p \in Packages : Bump(p)
    BY <2>2 DEF Bump, TreeInv, work
  <2>3. ASSUME Fail \/ RemovalFails \/ Kill PROVE driver'.pc = "idle"
    BY <1>1, <2>3 DEF Fail, RemovalFails, Kill
  <2>4. ASSUME NEW f \in Files, UnlinkFails(f) PROVE driver'.pc = "unlink"
    BY <1>1, <2>4 DEF UnlinkFails, Drivers
  <2> QED
    BY <1>5, <2>1, <2>2, <2>3, <2>4, TreeElsewhere DEF Environs
<1>6. CASE UNCHANGED vars
  BY <1>6 DEF vars, TreeInv
<1> QED
  BY <1>2, <1>3, <1>4, <1>5, <1>6, BuilderKeepsTree DEF Next

-----------------------------------------------------------------------------
(***************************************************************************)
(* A package's .pc file is on its own list alone.                          *)
(***************************************************************************)
LEMMA PcInit == Init => TreeInv /\ PcInv
<1> SUFFICES ASSUME Init PROVE TreeInv /\ PcInv
  OBVIOUS
<1>1. driver.pc = "idle" /\ 1 \in Versions
  BY RecipeAssumption DEF Init, Idle, Versions
<1>2. \A p \in Packages : manifest[p] = Payload[p][1]
  BY DEF Init
<1> QED
  BY <1>1, <1>2 DEF TreeInv, PcInv, NoBackDoor

LEMMA ListsStayOwn ==
    ASSUME NoBackDoor, IInv, TreeInv, PcInv, [Next]_vars
    PROVE  \A p, q \in Packages : p # q => PcFile[p] \cap manifest'[q] = {}
<1> SUFFICES ASSUME NEW p \in Packages, NEW q \in Packages, p # q
             PROVE  PcFile[p] \cap manifest'[q] = {}
  OBVIOUS
<1>1. /\ manifest \in [Packages -> SUBSET Files] /\ driver \in Drivers
      /\ recipe \in [Packages -> Versions] /\ PcFile[p] \cap manifest[q] = {}
      /\ \A v \in Versions : PcFile[p] \cap Payload[q][v] = {}
  BY DEF IInv, TypeOK, StoreOK, DriverOK, PcInv, NoBackDoor
<1>2. CASE UNCHANGED manifest
  BY <1>1, <1>2
<1>3. CASE ListFiles
  <2>1. CASE PcFile[p] = {}
    BY <2>1
  <2>2. CASE PcFile[p] # {}
    <3>1. WritesManifest => driver.from.pkg = driver.pkg
      BY <1>3, <2>2 DEF ListFiles, NoBackDoor, TreeInv
    <3>2. driver.from.version \in Versions
      BY <1>1, <1>3, DepsAreTyped DEF ListFiles, IInv, TypeOK, DriverOK, Drivers, Builds
    <3>3. manifest'[q] = manifest[q] \/ manifest'[q] = Payload[q][driver.from.version]
      BY <1>1, <1>3, <3>1 DEF ListFiles
    <3> QED
      BY <1>1, <3>2, <3>3
  <2> QED
    BY <2>1, <2>2
<1>4. CASE Kill
  <2>1. manifest'[q] = manifest[q] \/ manifest'[q] = {}
    BY <1>1, <1>4 DEF Kill, Interrupted
  <2> QED
    BY <1>1, <2>1
<1>5. ASSUME NEW r \in Packages, Bump(r) PROVE PcFile[p] \cap manifest'[q] = {}
  <2>1. recipe[r] + 1 \in Versions
    BY <1>1, <1>5, RecipeAssumption DEF Bump, Versions
  <2>2. manifest'[q] = manifest[q] \/ manifest'[q] = Payload[q][recipe[r] + 1]
    BY <1>1, <1>5 DEF Bump
  <2> QED
    BY <1>1, <2>1, <2>2
<1> QED
  BY <1>2, <1>3, <1>4, <1>5, ListsChange

LEMMA PcStep == ASSUME IInv, TreeInv, PcInv, [Next]_vars PROVE PcInv'
<1> SUFFICES ASSUME NoBackDoor PROVE PcInv'
  BY DEF PcInv, NoBackDoor
<1>1. \A p, q \in Packages : p # q => PcFile[p] \cap manifest'[q] = {}
  BY ListsStayOwn
<1>2. ASSUME driver'.pc = "unlink", NEW p \in Packages \ {driver'.pkg}
      PROVE  PcFile[p] \cap driver'.todo = {}
  <2>1. ASSUME NEW q \in Packages, driver' = Unlinking(q), UNCHANGED manifest
        PROVE  PcFile[p] \cap driver'.todo = {}
    <3>1. driver'.pkg = q /\ driver'.todo \subseteq manifest[q]
      BY <2>1 DEF Unlinking, IInv, TypeOK, DriverOK, Drivers
    <3> QED
      BY <1>2, <3>1 DEF PcInv
  <2>2. ASSUME driver.pc = "unlink", driver'.pkg = driver.pkg,
               driver'.todo \subseteq driver.todo
        PROVE  PcFile[p] \cap driver'.todo = {}
    BY <1>2, <2>2 DEF PcInv
  <2> QED
    BY <1>2, <2>1, <2>2, RemovalsAreListed
<1> QED
  BY <1>1, <1>2 DEF PcInv

-----------------------------------------------------------------------------
(***************************************************************************)
(* The theorems.                                                           *)
(***************************************************************************)
LEMMA NextPreserves == ASSUME IInv, PcInv, [Next]_vars PROVE IInv'
<1>1. CASE UNCHANGED vars
  <2>1. UNCHANGED <<recipe, tree, staged, disk, entry, cut, manifest, driver, removal,
                    result, events>>
    BY <1>1 DEF vars
  <2>2. TypeOK'
    BY <2>1 DEF IInv, TypeOK, StoreOK, DriverOK, RemovalOK, Removing
  <2>3. SafeInv'
    BY <2>1, RegistryKept DEF IInv, SafeInv, NoBackDoor, DepsThere
  <2>4. OwnInv'
    BY <2>1 DEF IInv, OwnInv, LoopOnly
  <2> QED
    BY <2>2, <2>3, <2>4 DEF IInv
<1>2. CASE Next
  BY <1>2, StartPreserves, ResolvePreserves, BuilderPreserves, UninstallerPreserves,
     EnvironsPreserve DEF Next
<1> QED
  BY <1>1, <1>2

\* The inductive invariant holds in every reachable state.
THEOREM Inductive == Spec => []IInv
<1>1. Init => IInv /\ TreeInv /\ PcInv
  BY InitEstablishes, PcInit
<1>2. IInv /\ TreeInv /\ PcInv /\ [Next]_vars => (IInv /\ TreeInv /\ PcInv)'
  BY NextPreserves, TreeStep, PcStep
<1> QED
  BY <1>1, <1>2, PTL DEF Spec

\* Work tree, prefix, registry, running command and recursion stack stay
\* well-formed: the uninstall's stack is empty exactly when none is running, and
\* a cut entry names no version.
THEOREM TypeCorrect == Spec => []TypeOK
<1>1. IInv => TypeOK
  BY DEF IInv
<1> QED
  BY <1>1, Inductive, PTL

\* check_dependencies, the dependents check and the order of removal together
\* keep the dependencies of every readable registry entry, whatever builds, kills,
\* failed or torn writes and recipe edits come between, as long as removals are
\* not forced and no list names the .pc file of another package: the recipes stage
\* none, and an `install' that rewrites the list, as on Linux, is the loop's.
THEOREM DependenciesRemain ==
    ASSUME NoBackDoor PROVE Spec => []DependenciesStay
<1>1. IInv => DependenciesStay
  BY DEF IInv, SafeInv
<1> QED
  BY <1>1, Inductive, PTL

\* Only write_registry_entry names a version.
LEMMA EntryIsRegistered ==
    ASSUME IInv, [Next]_vars, NEW p \in Packages, entry'[p] # entry[p], entry'[p] # 0
    PROVE  Register /\ p = driver.pkg
<1>1. entry \in [Packages -> 0 .. MaxVersion] /\ driver.pkg \in Packages
  BY DEF IInv, TypeOK, StoreOK, DriverOK, Drivers
<1>2. entry' # entry
  OBVIOUS
<1>3. CASE UNCHANGED vars
  BY <1>2, <1>3 DEF vars
<1>4. CASE Start
  BY <1>2, <1>4 DEF Start, StartAll, StartBuild, StartInstall, StartUninstall, registry
<1>5. CASE Resolve
  BY <1>2, <1>5 DEF Resolve, ResolveMeta, ResolveBuild, registry
<1>6. CASE Builder
  <2>1. Register
    BY <1>2, <1>6
    DEF Builder, Wipe, Unpack, Compile, Render, Stage, MakeInstall, Refuse, PublishFile,
        ListFiles, registry
  <2> QED
    BY <1>1, <2>1 DEF Register
<1>7. CASE Uninstaller
  <2>1. Drop
    BY <1>2, <1>7
    DEF Uninstaller, Enter, NotInstalled, PlanRemoval, Depended, Keep, Descend, Unlink, registry
  <2> QED
    BY <1>1, <2>1 DEF Drop
<1>8. CASE Environs
  <2>1. entry' = [entry EXCEPT ![driver.pkg] = 0]
    BY <1>2, <1>8
    DEF Environs, Fail, RegisterFails, RemovalFails, Kill, Interrupted, UnlinkFails, Bump, registry
  <2> QED
    BY <1>1, <2>1
<1> QED
  BY <1>3, <1>4, <1>5, <1>6, <1>7, <1>8 DEF Next

\* The loop of `build all' registers what it built: because each build wipes the
\* shared work tree and its install follows at once, every file of the package is
\* then in the prefix and comes from a build of that package and version.
THEOREM LoopPublishesOwnBuild ==
    ASSUME LoopOnly PROVE Spec => PublishesOwnBuild
<1> DEFINE Own == \A p \in Packages : (entry'[p] # entry[p] /\ entry'[p] # 0) =>
                    \A f \in Payload[p][entry'[p]] :
                       disk[f] = [pkg |-> p, version |-> entry'[p]]
<1>1. IInv /\ [Next]_vars => [Own]_vars
  <2> SUFFICES ASSUME IInv, [Next]_vars, NEW p \in Packages,
                      entry'[p] # entry[p], entry'[p] # 0, NEW f \in Payload[p][entry'[p]]
               PROVE  disk[f] = [pkg |-> p, version |-> entry'[p]]
    OBVIOUS
  <2>1. Register /\ p = driver.pkg
    BY EntryIsRegistered
  <2>2. driver.pc = "register" /\ entry'[p] = driver.version
    BY <2>1 DEF Register, IInv, TypeOK, StoreOK
  <2>3. /\ driver.todo = {} /\ driver.from = [pkg |-> driver.pkg, version |-> driver.version]
        /\ \A g \in Payload[driver.pkg][driver.version] \ driver.todo : disk[g] = driver.from
    BY <2>2 DEF IInv, OwnInv
  <2> QED
    BY <2>1, <2>2, <2>3
<1> QED
  BY <1>1, Inductive, PTL DEF Spec, PublishesOwnBuild

-----------------------------------------------------------------------------
(***************************************************************************)
(* What the file lists record.  While recipes and their lists stay as they *)
(* are, everything in the prefix is on the list of the package it came     *)
(* from, and an uninstall that has removed all it planned to has left      *)
(* nothing of the package.  A list that `install' rewrites stays what it   *)
(* was only where `install' publishes its own package; it may be cut short *)
(* by a kill, but then the package has no entry, and will be built again.  *)
(***************************************************************************)
FileListsStay == "bump" \notin Events /\ (WritesManifest => LoopOnly)

Listed(p) == manifest[p] = Payload[p][1]

FilesInv ==
    /\ \A p \in Packages :
          /\ recipe[p] = 1
          /\ (Registered(p) \/ ~WritesManifest \/ p \in Generated) => Listed(p)
    /\ tree.version \in {0, 1}
    /\ driver.pc \in {"build", "fetch", "compile", "stage", "staging", "publish", "list",
                      "register"} =>
          /\ driver.version = 1
          /\ (WritesManifest /\ driver.pkg \notin Generated) => ~Registered(driver.pkg)
    /\ driver.pc \in {"publish", "list"} => driver.from.version = 1
    /\ driver.pc = "publish" => driver.todo \subseteq Payload[driver.from.pkg][1]
    /\ driver.pc = "register" => Listed(driver.pkg)
    /\ \A f \in Files : Present(f) => f \in Payload[disk[f].pkg][1]
    /\ (driver.pc = "unlink" /\ Registered(driver.pkg) /\ ~removal.failed) =>
          \A f \in Files : (Present(f) /\ disk[f].pkg = driver.pkg) => f \in driver.todo

\* An entry is written for a package with its whole list only.
ListedEntries == \A p \in Packages : Registered(p)' => (Registered(p) \/ Listed(p))

\* Part of FilesInv that does not depend on the driver.
ListsInv ==
    /\ \A p \in Packages :
          /\ recipe[p] = 1
          /\ (Registered(p) \/ ~WritesManifest \/ p \in Generated) => Listed(p)
    /\ tree.version \in {0, 1}
    /\ \A f \in Files : Present(f) => f \in Payload[disk[f].pkg][1]

LEMMA SameLists ==
    ASSUME FilesInv, UNCHANGED <<recipe, disk, manifest>>, tree' = tree \/ tree' = NoBuild,
           ListedEntries
    PROVE  ListsInv'
<1>1. \A p \in Packages : recipe'[p] = 1
  BY DEF FilesInv
<1>2. ASSUME NEW p \in Packages, Registered(p)' \/ ~WritesManifest \/ p \in Generated
      PROVE  Listed(p)'
  <2>1. Listed(p)
    BY <1>2 DEF FilesInv, ListedEntries
  <2> QED
    BY <2>1 DEF Listed
<1>3. tree'.version \in {0, 1}
  BY DEF FilesInv, NoBuild
<1>4. \A f \in Files : Present(f)' => f \in Payload[disk'[f].pkg][1]
  BY DEF FilesInv, Present
<1> QED
  BY <1>1, <1>2, <1>3, <1>4 DEF ListsInv

LEMMA FilesInit == Init => FilesInv
BY DEF Init, FilesInv, Listed, Idle, NoBuild, Present

LEMMA SameEntries == ASSUME UNCHANGED registry PROVE ListedEntries
BY DEF registry, ListedEntries, Registered

\* Between the steps that build, publish or unlink there is nothing to keep.
LEMMA QuietKeepsFiles ==
    ASSUME FilesInv, UNCHANGED <<recipe, disk, manifest>>, tree' = tree \/ tree' = NoBuild,
           ListedEntries, driver'.pc \in {"idle", "resolve", "enter", "dependents"}
    PROVE  FilesInv'
BY SameLists DEF FilesInv, ListsInv

LEMMA EndKeepsFiles ==
    ASSUME FilesInv, NEW r, End(r), UNCHANGED <<recipe, work, disk, manifest>>, ListedEntries
    PROVE  FilesInv'
BY QuietKeepsFiles DEF End, Idle, work

LEMMA RunKeepsFiles ==
    ASSUME IInv, FilesInv, UNCHANGED <<recipe, tree, disk, manifest>>, ListedEntries,
           NEW p \in Packages, NEW pc \in {"build", "stage"},
           NEW c \in {"all build", "all install", "build", "install"}, Run(pc, c, p),
           (WritesManifest /\ p \notin Generated) => ~Registered(p)'
    PROVE  FilesInv'
<1>1. driver'.pc \in {"build", "stage"} /\ driver'.version = recipe[p] /\ driver'.pkg = p
  BY RunIsTyped DEF IInv
<1>2. recipe[p] = 1
  BY DEF FilesInv
<1>3. (WritesManifest /\ driver'.pkg \notin Generated) => ~Registered(driver.pkg)'
  BY <1>1 DEF Registered
<1> QED
  BY <1>1, <1>2, <1>3, SameLists DEF FilesInv, ListsInv

\* What the loop installs next is a package without an entry, or a generated one.
LEMMA FinishKeepsFiles ==
    ASSUME IInv, FilesInv, Finish, UNCHANGED <<recipe, tree, disk, manifest>>, ListedEntries,
           (driver.command = "all build" /\ WritesManifest /\ driver.pkg \notin Generated)
           => ~Registered(driver.pkg) /\ UNCHANGED registry
    PROVE  FilesInv'
<1>1. driver.pkg \in Packages
  BY DEF IInv, TypeOK, DriverOK, Drivers
<1>2. CASE driver.command = "all build"
  <2>1. Run("stage", "all install", driver.pkg)
    BY <1>2 DEF Finish
  <2>2. PICK p \in Packages : p = driver.pkg
    BY <1>1
  <2>3. (WritesManifest /\ p \notin Generated) => ~Registered(p)'
    BY <1>2, <2>2 DEF Registered, registry
  <2> QED
    BY <2>1, <2>2, <2>3, RunKeepsFiles
<1>3. CASE driver.command # "all build"
  <2>1. driver' = Idle \/ driver' = [Idle EXCEPT !.pc = "resolve"]
    BY <1>3 DEF Finish
  <2>2. Idle.pc = "idle" /\ [Idle EXCEPT !.pc = "resolve"].pc = "resolve"
    BY DEF Idle
  <2> QED
    BY <2>1, <2>2, QuietKeepsFiles
<1> QED
  BY <1>2, <1>3

LEMMA StartKeepsFiles ==
    ASSUME FileListsStay, IInv, FilesInv, Start \/ Resolve PROVE FilesInv'
<1>1. UNCHANGED <<recipe, work, disk, manifest, registry>>
  BY DEF Start, StartAll, StartBuild, StartInstall, StartUninstall, Resolve, ResolveMeta,
     ResolveBuild
<1>2. ListedEntries /\ tree' = tree
  BY <1>1, SameEntries DEF work
<1>3. ASSUME NEW p \in Packages, StartBuild(p) \/ StartInstall(p) PROVE FilesInv'
  <2>1. Run("build", "build", p) \/ Run("stage", "install", p)
    BY <1>3 DEF StartBuild, StartInstall
  <2>2. ~WritesManifest
    BY <1>3 DEF StartBuild, StartInstall, FileListsStay, LoopOnly
  <2> QED
    BY <1>1, <1>2, <2>1, <2>2, RunKeepsFiles
<1>4. ASSUME NEW i \in DOMAIN Order, ResolveBuild(i) PROVE FilesInv'
  <2>1. PICK p \in Packages : p = Order[i]
    BY DEF Packages
  <2>2. Run("build", "all build", p) /\ ~Registered(p)
    BY <1>4, <2>1 DEF ResolveBuild, IsNext
  <2>3. ~Registered(p)'
    BY <1>1, <2>2 DEF Registered, registry
  <2> QED
    BY <1>1, <1>2, <2>2, <2>3, RunKeepsFiles
<1>5. CASE StartAll
  <2>1. driver'.pc = "resolve"
    BY <1>5 DEF StartAll, Idle
  <2> QED
    BY <1>1, <1>2, <2>1, QuietKeepsFiles
<1>6. CASE ResolveMeta
  BY <1>1, <1>2, <1>6, EndKeepsFiles DEF ResolveMeta
<1>7. ASSUME NEW p \in Packages, NEW o \in Options, StartUninstall(p, o) PROVE FilesInv'
  <2>1. driver'.pc = "enter"
    BY <1>7 DEF StartUninstall, Idle
  <2> QED
    BY <1>1, <1>2, <2>1, QuietKeepsFiles
<1> QED
  BY <1>3, <1>4, <1>5, <1>6, <1>7 DEF Start, Resolve

\* A step of a build or an install goes on with the same package.
LEMMA GoingOnKeeps ==
    ASSUME FilesInv, UNCHANGED registry, driver'.pkg = driver.pkg,
           driver'.version = driver.version,
           driver.pc \in {"build", "fetch", "compile", "stage", "staging", "publish", "list",
                          "register"}
    PROVE  /\ driver'.version = 1
           /\ (WritesManifest /\ driver'.pkg \notin Generated) => ~Registered(driver.pkg)'
BY DEF FilesInv, registry, Registered

LEMMA PublishingKeepsFiles ==
    ASSUME IInv, FilesInv, UNCHANGED <<recipe, tree, disk, manifest, registry>>,
           driver.pc \in {"build", "stage", "staging"},
           NEW b \in Builds, b.version = 1, Publishing(b)
    PROVE  FilesInv'
<1>1. DriverOK /\ driver.version \in Versions
  BY DEF IInv, TypeOK, DriverOK
<1>2. /\ driver'.pc = "publish" /\ driver'.version = driver.version /\ driver'.from = b
      /\ driver'.pkg = driver.pkg /\ driver'.todo = Payload[b.pkg][b.version]
  BY <1>1, PublishingIsTyped
<1>3. ListsInv'
  BY SameLists, SameEntries
<1> QED
  BY <1>2, <1>3, GoingOnKeeps DEF FilesInv, ListsInv

LEMMA PublishFileKeepsFiles ==
    ASSUME IInv, FilesInv, NEW f \in Files, PublishFile(f) PROVE FilesInv'
<1>1. /\ driver \in Drivers /\ driver.pc = "publish" /\ f \in driver.todo
      /\ disk \in [Files -> Builds] /\ disk' = [disk EXCEPT ![f] = driver.from]
      /\ UNCHANGED <<recipe, tree, manifest, registry>>
      /\ driver' = [driver EXCEPT !.todo = @ \ {f},
                                  !.pc = IF driver.todo = {f} THEN "list" ELSE "publish"]
  BY DEF PublishFile, IInv, TypeOK, StoreOK, DriverOK, work
<1>2. /\ driver'.pc \in {"list", "publish"} /\ driver'.version = driver.version
      /\ driver'.pkg = driver.pkg
      /\ driver'.from = driver.from /\ driver'.todo \subseteq driver.todo
  BY <1>1 DEF Drivers
<1>3. \A g \in Files : Present(g)' => g \in Payload[disk'[g].pkg][1]
  BY <1>1 DEF FilesInv, Present
<1>4. \A p \in Packages :
         /\ recipe'[p] = 1
         /\ (Registered(p)' \/ ~WritesManifest \/ p \in Generated) => Listed(p)'
  BY <1>1 DEF FilesInv, Listed, Registered, registry
<1> QED
  BY <1>1, <1>2, <1>3, <1>4, GoingOnKeeps DEF FilesInv

LEMMA ListFilesKeepsFiles ==
    ASSUME FileListsStay, IInv, FilesInv, ListFiles PROVE FilesInv'
<1>1. /\ driver \in Drivers /\ driver.pc = "list" /\ driver.pkg \in Packages
      /\ manifest \in [Packages -> SUBSET Files]
      /\ driver' = [driver EXCEPT !.pc = "register"]
      /\ UNCHANGED <<recipe, tree, disk, registry>>
  BY DEF ListFiles, IInv, TypeOK, StoreOK, DriverOK, Drivers, work
<1>2. \/ UNCHANGED manifest /\ (~WritesManifest \/ driver.pkg \in Generated)
      \/ /\ WritesManifest
         /\ manifest' = [manifest EXCEPT ![driver.pkg] =
                           Payload[driver.from.pkg][driver.from.version]]
  BY DEF ListFiles
<1>3. WritesManifest => driver.from = [pkg |-> driver.pkg, version |-> driver.version]
  BY <1>1 DEF FileListsStay, IInv, OwnInv
<1>4. driver.from.version = 1
  BY <1>1 DEF FilesInv
<1>5. \A p \in Packages : manifest'[p] = manifest[p] \/ manifest'[p] = Payload[p][1]
  BY <1>1, <1>2, <1>3, <1>4
<1>6. manifest'[driver.pkg] = Payload[driver.pkg][1]
  BY <1>1, <1>2, <1>3, <1>4 DEF FilesInv, Listed
<1>7. \A p \in Packages :
         /\ recipe'[p] = 1
         /\ (Registered(p)' \/ ~WritesManifest \/ p \in Generated) => Listed(p)'
  BY <1>1, <1>5 DEF FilesInv, Listed, Registered, registry
<1>8. /\ driver'.pc = "register" /\ driver'.version = driver.version
      /\ driver'.pkg = driver.pkg
  BY <1>1 DEF Drivers
<1>9. Listed(driver.pkg)'
  BY <1>6, <1>8 DEF Listed
<1>10. \A g \in Files : Present(g)' => g \in Payload[disk'[g].pkg][1]
  BY <1>1 DEF FilesInv, Present
<1> QED
  BY <1>1, <1>7, <1>8, <1>9, <1>10, GoingOnKeeps DEF FilesInv

LEMMA BuilderKeepsFiles == ASSUME FileListsStay, IInv, FilesInv, Builder PROVE FilesInv'
<1>1. driver \in Drivers /\ driver.pkg \in Packages /\ tree \in Builds /\ StoreOK
  BY DEF IInv, TypeOK, DriverOK, StoreOK, Drivers
<1>2. ASSUME Wipe \/ Stage PROVE FilesInv'
  <2>1. /\ UNCHANGED <<recipe, disk, manifest, registry>>
        /\ (tree' = tree \/ tree' = NoBuild)
        /\ driver'.pc \in {"fetch", "staging"} /\ driver'.version = driver.version
        /\ driver'.pkg = driver.pkg /\ driver.pc \in {"build", "stage"}
    BY <1>1, <1>2 DEF Wipe, Stage, Drivers
  <2>2. ListsInv'
    BY <2>1, SameLists, SameEntries
  <2> QED
    BY <2>1, <2>2, GoingOnKeeps DEF FilesInv, ListsInv
<1>3. CASE Unpack
  <2>1. /\ UNCHANGED <<recipe, disk, manifest, registry>> /\ tree'.version = driver.version
        /\ driver'.pc = "compile" /\ driver'.version = driver.version /\ driver.pc = "fetch"
        /\ driver'.pkg = driver.pkg
    BY <1>1, <1>3 DEF Unpack, Drivers
  <2>2. \A p \in Packages :
           /\ recipe'[p] = 1
           /\ (Registered(p)' \/ ~WritesManifest \/ p \in Generated) => Listed(p)'
    BY <2>1 DEF FilesInv, Listed, Registered, registry
  <2>3. \A g \in Files : Present(g)' => g \in Payload[disk'[g].pkg][1]
    BY <2>1 DEF FilesInv, Present
  <2>4. tree'.version = 1
    BY <2>1 DEF FilesInv
  <2> QED
    BY <2>1, <2>2, <2>3, <2>4, GoingOnKeeps DEF FilesInv
<1>4. CASE Compile
  <2>1. (WritesManifest /\ driver.pkg \notin Generated) => ~Registered(driver.pkg)
    BY <1>4 DEF Compile, FilesInv
  <2> QED
    BY <1>4, <2>1, FinishKeepsFiles, SameEntries DEF Compile, work
<1>5. CASE Register
  <2>1. (WritesManifest /\ driver.command = "all build") => driver.pkg \in Generated
    BY <1>5 DEF Register, FileListsStay, IInv, OwnInv
  <2>2. ListedEntries
    <3>1. Listed(driver.pkg)
      BY <1>5 DEF Register, FilesInv
    <3>2. \A p \in Packages \ {driver.pkg} : Registered(p)' => Registered(p)
      BY <1>1, <1>5 DEF Register, Registered, StoreOK
    <3> QED
      BY <3>1, <3>2 DEF ListedEntries
  <2> QED
    BY <1>5, <2>1, <2>2, FinishKeepsFiles DEF Register, work
<1>6. CASE Render
  <2>1. /\ [pkg |-> driver.pkg, version |-> driver.version] \in Builds /\ driver.version = 1
        /\ driver.pc \in {"build", "stage"}
    BY <1>6 DEF Render, IInv, TypeOK, DriverOK, Drivers, Builds, FilesInv
  <2> QED
    BY <1>6, <2>1, PublishingKeepsFiles DEF Render, work
<1>7. CASE MakeInstall
  <2>1. tree.version = 1 /\ driver.pc = "staging"
    BY <1>7 DEF MakeInstall, IInv, TypeOK, DriverOK, FilesInv
  <2> QED
    BY <1>1, <1>7, <2>1, PublishingKeepsFiles DEF MakeInstall, work
<1>8. CASE Refuse
  BY <1>8, EndKeepsFiles, SameEntries DEF Refuse
<1> QED
  BY <1>2, <1>3, <1>4, <1>5, <1>6, <1>7, <1>8, PublishFileKeepsFiles, ListFilesKeepsFiles
     DEF Builder

\* An uninstall plans to remove all that is there of a package it has recorded.
LEMMA UnlinkingKeepsFiles ==
    ASSUME IInv, FilesInv, UNCHANGED <<recipe, tree, disk, manifest>>, NEW p \in Packages,
           driver' = Unlinking(p), \A q \in Packages : Registered(q)' => Registered(q)
    PROVE  FilesInv'
<1>1. /\ driver'.pc = "unlink" /\ driver'.pkg = p
      /\ driver'.todo = {f \in manifest[p] : Present(f)}
  BY DEF Unlinking, IInv, TypeOK, DriverOK, Drivers
<1>2. ListsInv'
  BY SameLists DEF ListedEntries
<1>3. Registered(driver.pkg)' => Listed(p)
  <2>1. Registered(driver.pkg)' => Registered(p)'
    BY <1>1 DEF Registered
  <2> QED
    BY <2>1 DEF FilesInv
<1>4. Registered(driver.pkg)' =>
         \A f \in Files : (Present(f)' /\ disk'[f].pkg = driver'.pkg) => f \in driver'.todo
  BY <1>1, <1>3 DEF FilesInv, Present, Listed
<1> QED
  BY <1>1, <1>2, <1>4 DEF FilesInv, ListsInv

LEMMA UnlinkKeepsFiles ==
    ASSUME IInv, FilesInv, NEW f \in Files, Unlink(f) PROVE FilesInv'
<1>1. /\ driver \in Drivers /\ disk \in [Files -> Builds]
      /\ disk' = [disk EXCEPT ![f] = NoBuild] /\ driver' = [driver EXCEPT !.todo = @ \ {f}]
      /\ driver.pc = "unlink" /\ UNCHANGED <<recipe, tree, manifest, removal, registry>>
  BY DEF Unlink, work, IInv, TypeOK, StoreOK, DriverOK
<1>2. driver'.pc = "unlink" /\ driver'.pkg = driver.pkg /\ driver'.todo = driver.todo \ {f}
  BY <1>1 DEF Drivers
<1>3. \A g \in Files : Present(g)' => g # f /\ Present(g) /\ disk'[g] = disk[g]
  BY <1>1 DEF Present, NoBuild
<1>4. \A p \in Packages :
         /\ recipe'[p] = 1
         /\ (Registered(p)' \/ ~WritesManifest \/ p \in Generated) => Listed(p)'
  BY <1>1 DEF FilesInv, Listed, Registered, registry
<1>5. Registered(driver.pkg)' => Registered(driver.pkg)
  BY <1>1, <1>2 DEF Registered, registry
<1>6. \A g \in Files : Present(g)' => g \in Payload[disk'[g].pkg][1]
  BY <1>3 DEF FilesInv
<1>7. (Registered(driver.pkg)' /\ ~removal'.failed) =>
         \A g \in Files : (Present(g)' /\ disk'[g].pkg = driver'.pkg) => g \in driver'.todo
  BY <1>1, <1>2, <1>3, <1>5 DEF FilesInv
<1> QED
  BY <1>1, <1>2, <1>4, <1>6, <1>7 DEF FilesInv

LEMMA UninstallerKeepsFiles == ASSUME IInv, FilesInv, Uninstaller PROVE FilesInv'
<1>1. driver \in Drivers /\ disk \in [Files -> Builds] /\ RemovalOK /\ TypeOK
  BY DEF IInv, TypeOK, DriverOK, StoreOK
<1>2. ASSUME Enter \/ \E d \in Packages : Descend(d) PROVE FilesInv'
  <2>1. /\ UNCHANGED <<recipe, work, disk, manifest, registry>>
        /\ driver'.pc \in {"enter", "dependents"}
    BY <1>1, <1>2 DEF Enter, Descend, Drivers
  <2> QED
    BY <2>1, QuietKeepsFiles, SameEntries DEF work
<1>3. CASE NotInstalled \/ Depended \/ Keep
  BY <1>3, EndKeepsFiles, SameEntries DEF NotInstalled, Depended, Keep
<1>4. CASE PlanRemoval
  <2>1. Top.pkg \in Packages
    BY <1>1, <1>4, StackIsTyped DEF PlanRemoval, Removing, Frames
  <2>2. \A q \in Packages : Registered(q)' => Registered(q)
    BY <1>4 DEF PlanRemoval, Registered, registry
  <2> QED
    BY <1>4, <2>1, <2>2, UnlinkingKeepsFiles DEF PlanRemoval, work
<1>5. CASE Drop
  <2>1. UNCHANGED <<recipe, work, disk, manifest>> /\ NextRemoval
    BY <1>5 DEF Drop
  <2>2. \A q \in Packages : Registered(q)' => Registered(q)
    BY <1>1, <1>5 DEF Drop, Registered, TypeOK, StoreOK
  <2>3. ListedEntries
    BY <2>2 DEF ListedEntries
  <2>4. ASSUME NEW r \in removal.rest, driver' = Unlinking(r) PROVE FilesInv'
    BY <1>1, <2>1, <2>2, <2>4, UnlinkingKeepsFiles DEF RemovalOK, work
  <2>5. ASSUME driver' = [driver EXCEPT !.pc = "dependents"] PROVE FilesInv'
    <3>1. driver'.pc = "dependents"
      BY <1>1, <2>5 DEF Drivers
    <3> QED
      BY <2>1, <2>3, <3>1, QuietKeepsFiles DEF work
  <2> QED
    BY <2>1, <2>3, <2>4, <2>5, EndKeepsFiles DEF NextRemoval
<1> QED
  BY <1>2, <1>3, <1>4, <1>5, UnlinkKeepsFiles DEF Uninstaller

\* A kill cuts a list short before there is an entry, an entry after its list.
LEMMA KillKeepsFiles == ASSUME FilesInv, IInv, Kill PROVE FilesInv'
<1>1. /\ UNCHANGED <<recipe, tree, disk>> /\ driver'.pc = "idle" /\ driver.pkg \in Packages
      /\ manifest \in [Packages -> SUBSET Files]
      /\ entry \in [Packages -> 0 .. MaxVersion] /\ Interrupted
  BY DEF Kill, End, Idle, work, IInv, TypeOK, StoreOK, DriverOK, Drivers
<1>2. CASE UNCHANGED manifest
  <2>1. ListedEntries
    <3>1. CASE UNCHANGED registry
      BY <3>1, SameEntries
    <3>2. CASE ~UNCHANGED registry
      <4>1. /\ driver.pc = "register" /\ entry' = [entry EXCEPT ![driver.pkg] = 0]
            /\ cut' = cut \cup {driver.pkg}
        BY <1>1, <3>2 DEF Interrupted
      <4>2. Listed(driver.pkg)
        BY <4>1 DEF FilesInv
      <4>3. \A p \in Packages \ {driver.pkg} : Registered(p)' => Registered(p)
        BY <1>1, <4>1 DEF Registered
      <4> QED
        BY <4>2, <4>3 DEF ListedEntries
    <3> QED
      BY <3>1, <3>2
  <2> QED
    BY <1>1, <1>2, <2>1, QuietKeepsFiles
<1>3. CASE ~UNCHANGED manifest
  <2>1. /\ driver.pc = "list" /\ WritesManifest /\ driver.pkg \notin Generated
        /\ manifest' = [manifest EXCEPT ![driver.pkg] = {}] /\ UNCHANGED registry
    BY <1>1, <1>3 DEF Interrupted
  <2>2. ~Registered(driver.pkg)
    BY <2>1 DEF FilesInv
  <2>3. \A p \in Packages :
           /\ recipe'[p] = 1
           /\ (Registered(p)' \/ ~WritesManifest \/ p \in Generated) => Listed(p)'
    BY <1>1, <2>1, <2>2 DEF FilesInv, Listed, Registered, registry
  <2>4. \A g \in Files : Present(g)' => g \in Payload[disk'[g].pkg][1]
    BY <1>1 DEF FilesInv, Present
  <2> QED
    BY <1>1, <2>3, <2>4 DEF FilesInv
<1> QED
  BY <1>2, <1>3

LEMMA EnvironsKeepFiles == ASSUME FileListsStay, IInv, FilesInv, Environs PROVE FilesInv'
<1>1. CASE Fail \/ RemovalFails
  BY <1>1, EndKeepsFiles, SameEntries DEF Fail, RemovalFails
<1>2. CASE RegisterFails
  <2>1. (WritesManifest /\ driver.command = "all build") => driver.pkg \in Generated
    BY <1>2 DEF RegisterFails, FileListsStay, IInv, OwnInv
  <2>2. ListedEntries
    <3>1. Listed(driver.pkg) /\ entry \in [Packages -> 0 .. MaxVersion]
      BY <1>2 DEF RegisterFails, FilesInv, IInv, TypeOK, StoreOK
    <3>2. \A p \in Packages \ {driver.pkg} : Registered(p)' => Registered(p)
      BY <1>2, <3>1 DEF RegisterFails, Registered, registry
    <3> QED
      BY <3>1, <3>2 DEF ListedEntries
  <2> QED
    BY <1>2, <2>1, <2>2, FinishKeepsFiles DEF RegisterFails, work
<1>3. ASSUME NEW f \in Files, UnlinkFails(f) PROVE FilesInv'
  <2>1. /\ driver \in Drivers /\ driver.pc = "unlink"
        /\ driver' = [driver EXCEPT !.todo = @ \ {f}]
        /\ removal' = [removal EXCEPT !.failed = TRUE] /\ RemovalOK
        /\ UNCHANGED <<recipe, tree, disk, manifest, registry>>
    BY <1>3 DEF UnlinkFails, IInv, TypeOK, DriverOK, work
  <2>2. driver'.pc = "unlink" /\ removal'.failed
    BY <2>1 DEF Drivers, RemovalOK
  <2>3. ListsInv'
    BY <2>1, SameLists, SameEntries
  <2> QED
    BY <2>2, <2>3 DEF FilesInv, ListsInv
<1>4. ASSUME NEW p \in Packages, Bump(p) PROVE FilesInv'
  BY <1>4 DEF Bump, Event, FileListsStay
<1> QED
  BY <1>1, <1>2, <1>3, <1>4, KillKeepsFiles DEF Environs

LEMMA StepKeepsFiles ==
    ASSUME FileListsStay, IInv, FilesInv, [Next]_vars PROVE FilesInv'
<1>1. CASE UNCHANGED vars
  BY <1>1 DEF vars, work, FilesInv, Present, Listed, Registered
<1> QED
  BY <1>1, StartKeepsFiles, BuilderKeepsFiles, UninstallerKeepsFiles, EnvironsKeepFiles DEF Next

\* A step that leaves the prefix alone and keeps all it has registered, but for
\* one package of which the prefix holds nothing, leaves nothing unrecorded.
LEMMA NothingNewUnrecorded ==
    ASSUME StoreOK, NEW d \in Packages, disk' = disk,
           \A f \in Files : Present(f) => disk[f].pkg # d,
           \A p \in Packages \ {d} : Registered(p) => Registered(p)'
    PROVE  Unrecorded' \subseteq Unrecorded
<1> SUFFICES ASSUME NEW f \in Files, Present(f)', ~Registered(disk[f].pkg)'
             PROVE  Present(f) /\ ~Registered(disk[f].pkg)
  BY DEF Unrecorded
<1>1. Present(f) /\ disk[f].pkg \in Packages
  BY DEF Present, StoreOK, Builds
<1> QED
  BY <1>1 DEF Registered

LEMMA RecordsStay ==
    ASSUME StoreOK, disk' = disk, \A p \in Packages : Registered(p) => Registered(p)'
    PROVE  Unrecorded' \subseteq Unrecorded
<1> SUFFICES ASSUME NEW f \in Files, Present(f)', ~Registered(disk[f].pkg)'
             PROVE  Present(f) /\ ~Registered(disk[f].pkg)
  BY DEF Unrecorded
<1>1. Present(f) /\ disk[f].pkg \in Packages
  BY DEF Present, StoreOK, Builds
<1> QED
  BY <1>1 DEF Registered

\* An uninstall drops the entry of a package that has nothing left in the prefix,
\* or that had no entry.
LEMMA DropLeavesNothing ==
    ASSUME IInv, FilesInv, Drop PROVE Unrecorded' \subseteq Unrecorded
<1>1. /\ driver.pkg \in Packages /\ disk' = disk /\ StoreOK
      /\ entry \in [Packages -> 0 .. MaxVersion]
      /\ entry' = [entry EXCEPT ![driver.pkg] = 0] /\ cut' = cut \ {driver.pkg}
  BY DEF Drop, IInv, TypeOK, StoreOK, DriverOK, Drivers
<1>2. \A p \in Packages \ {driver.pkg} : Registered(p) => Registered(p)'
  BY <1>1 DEF Registered
<1>3. CASE Registered(driver.pkg)
  <2>1. \A f \in Files : Present(f) => disk[f].pkg # driver.pkg
    BY <1>3 DEF Drop, FilesInv
  <2> QED
    BY <1>1, <1>2, <2>1, NothingNewUnrecorded
<1>4. CASE ~Registered(driver.pkg)
  <2>1. \A p \in Packages : Registered(p) => Registered(p)'
    BY <1>2, <1>4
  <2> QED
    BY <1>1, <2>1, RecordsStay
<1> QED
  BY <1>3, <1>4

\* Writing an entry, whole or not, records its package.
LEMMA WritingRecords ==
    ASSUME IInv, Register \/ RegisterFails \/ Kill
    PROVE  \A p \in Packages : Registered(p) => Registered(p)'
<1>1. /\ driver.pkg \in Packages /\ MaxVersion \in Nat \ {0}
      /\ entry \in [Packages -> 0 .. MaxVersion]
      /\ driver.pc = "register" => driver.version \in Versions
  BY RecipeAssumption DEF IInv, TypeOK, StoreOK, DriverOK, Drivers
<1>2. \/ UNCHANGED registry
      \/ entry' = [entry EXCEPT ![driver.pkg] = 0] /\ cut' = cut \cup {driver.pkg}
      \/ /\ driver.version \in Versions
         /\ entry' = [entry EXCEPT ![driver.pkg] = driver.version]
         /\ cut' = cut \ {driver.pkg}
  BY <1>1 DEF Register, RegisterFails, Kill, Interrupted
<1>3. CASE UNCHANGED registry
  BY <1>3 DEF registry, Registered
<1>4. CASE entry' = [entry EXCEPT ![driver.pkg] = 0] /\ cut' = cut \cup {driver.pkg}
  BY <1>1, <1>4 DEF Registered
<1>5. CASE /\ driver.version \in Versions
           /\ entry' = [entry EXCEPT ![driver.pkg] = driver.version]
           /\ cut' = cut \ {driver.pkg}
  <2>1. driver.version # 0
    BY <1>1, <1>5 DEF Versions
  <2> QED
    BY <1>1, <1>5, <2>1 DEF Registered
<1> QED
  BY <1>2, <1>3, <1>4, <1>5

\* Removing a file of the prefix leaves the others as they were recorded.
LEMMA UnlinkRecords ==
    ASSUME IInv, NEW g \in Files, Unlink(g) PROVE Unrecorded' \subseteq Unrecorded
<1>1. disk \in [Files -> Builds] /\ disk' = [disk EXCEPT ![g] = NoBuild] /\ UNCHANGED registry
  BY DEF Unlink, IInv, TypeOK, StoreOK
<1>2. \A f \in Files : Present(f)' => Present(f) /\ disk'[f] = disk[f]
  BY <1>1 DEF Present, NoBuild
<1> QED
  BY <1>1, <1>2 DEF Unrecorded, Registered, registry

LEMMA StepRecords ==
    ASSUME IInv, FilesInv, [Next]_vars, driver.pc # "publish"
    PROVE  Unrecorded' \subseteq Unrecorded
<1>1. StoreOK
  BY DEF IInv, TypeOK
<1>2. CASE UNCHANGED <<disk, registry>>
  BY <1>1, <1>2, RecordsStay DEF Registered, registry
<1>3. CASE Start \/ Resolve
  BY <1>2, <1>3 DEF Start, StartAll, StartBuild, StartInstall, StartUninstall, Resolve,
     ResolveMeta, ResolveBuild
<1>4. CASE Builder
  <2>1. CASE Register
    BY <1>1, <2>1, WritingRecords, RecordsStay DEF Register
  <2>2. CASE ~Register
    BY <1>2, <1>4, <2>2 DEF Builder, Wipe, Unpack, Compile, Render, Stage, MakeInstall,
       Refuse, PublishFile, ListFiles
  <2> QED
    BY <2>1, <2>2
<1>5. CASE Uninstaller
  <2>1. CASE Drop
    BY <2>1, DropLeavesNothing
  <2>2. ASSUME NEW g \in Files, Unlink(g) PROVE Unrecorded' \subseteq Unrecorded
    BY <2>2, UnlinkRecords
  <2>3. ASSUME Enter \/ NotInstalled \/ PlanRemoval \/ Depended \/ Keep
               \/ \E d \in Packages : Descend(d)
        PROVE  UNCHANGED <<disk, registry>>
    BY <2>3 DEF Enter, NotInstalled, PlanRemoval, Depended, Keep, Descend
  <2> QED
    BY <1>2, <1>5, <2>1, <2>2, <2>3 DEF Uninstaller
<1>6. CASE Environs
  <2>1. CASE RegisterFails \/ Kill
    BY <1>1, <2>1, WritingRecords, RecordsStay DEF RegisterFails, Kill
  <2>2. CASE ~(RegisterFails \/ Kill)
    BY <1>2, <1>6, <2>2 DEF Environs, Fail, RemovalFails, UnlinkFails, Bump
  <2> QED
    BY <2>1, <2>2
<1>7. CASE UNCHANGED vars
  BY <1>2, <1>7 DEF vars, registry
<1> QED
  BY <1>3, <1>4, <1>5, <1>6, <1>7 DEF Next

\* "removing only the registry entry would leave every installed file with
\* nothing recording it": where the recipes stay as they are, and `install'
\* leaves the file lists alone or only the loop runs it, no step but a
\* publication leaves a file of the prefix without an entry, whatever is killed,
\* torn or stuck, and whether or not a dependency that --with-deps takes along
\* has an entry.
THEOREM FilesAreRecorded ==
    ASSUME FileListsStay PROVE Spec => NothingUnrecorded
<1>1. Init => FilesInv
  BY FilesInit
<1>2. IInv /\ FilesInv /\ [Next]_vars => FilesInv'
  BY StepKeepsFiles
<1>3. IInv /\ FilesInv /\ [Next]_vars
      => [driver.pc # "publish" => Unrecorded' \subseteq Unrecorded]_vars
  BY StepRecords
<1> QED
  BY <1>1, <1>2, <1>3, Inductive, PTL DEF Spec, NothingUnrecorded

=============================================================================
