----------------------- MODULE DirectInstallRefinement -----------------------
(***************************************************************************)
(* DirectInstall implements ManagedPrefix, for every list of packages,     *)
(* every dependency relation and payload, files shared by packages         *)
(* included, and any number of events, where only `build all' builds and   *)
(* installs, no recipe is edited (LoopOnly), nobody forces a removal and   *)
(* no package stages the .pc file of another (NoBackDoor).                 *)
(***************************************************************************)
EXTENDS DirectInstallProofs

-----------------------------------------------------------------------------
(***************************************************************************)
(* What an uninstall removes is on the list of the package it takes out,   *)
(* and lists name nothing but what the package stages.                     *)
(***************************************************************************)
ListInv ==
    /\ \A p \in Packages : manifest[p] \subseteq Payload[p][1]
    /\ driver.pc = "unlink" => driver.todo \subseteq Payload[driver.pkg][1]

LEMMA ListInit == Init => ListInv
BY DEF Init, ListInv, Idle

LEMMA ListsAreShort ==
    ASSUME LoopOnly, IInv, ListInv, FilesInv', [Next]_vars
    PROVE  \A p \in Packages : manifest'[p] \subseteq Payload[p][1]
<1>1. manifest \in [Packages -> SUBSET Files] /\ driver \in Drivers
  BY DEF IInv, TypeOK, StoreOK, DriverOK
<1>2. CASE UNCHANGED manifest
  BY <1>2 DEF ListInv
<1>3. CASE ListFiles
  <2>1. driver'.pc = "register" /\ driver'.pkg = driver.pkg
    BY <1>1, <1>3 DEF ListFiles, Drivers
  <2>2. manifest'[driver.pkg] = Payload[driver.pkg][1]
    BY <2>1 DEF FilesInv, Listed
  <2>3. \A p \in Packages \ {driver.pkg} : manifest'[p] = manifest[p]
    BY <1>1, <1>3 DEF ListFiles
  <2> QED
    BY <2>2, <2>3 DEF ListInv
<1>4. CASE Kill
  <2>1. \A p \in Packages : manifest'[p] = manifest[p] \/ manifest'[p] = {}
    BY <1>1, <1>4 DEF Kill, Interrupted
  <2> QED
    BY <2>1 DEF ListInv
<1>5. \A p \in Packages : ~Bump(p)
  BY DEF LoopOnly, Bump, Event
<1> QED
  BY <1>2, <1>3, <1>4, <1>5, ListsChange

LEMMA ListStep ==
    ASSUME LoopOnly, IInv, ListInv, FilesInv', [Next]_vars PROVE ListInv'
<1>1. \A p \in Packages : manifest'[p] \subseteq Payload[p][1]
  BY ListsAreShort
<1>2. ASSUME driver'.pc = "unlink" PROVE driver'.todo \subseteq Payload[driver'.pkg][1]
  <2>1. ASSUME NEW p \in Packages, driver' = Unlinking(p), UNCHANGED manifest
        PROVE  driver'.todo \subseteq manifest[p] /\ driver'.pkg = p
    BY <2>1 DEF Unlinking, IInv, TypeOK, DriverOK, Drivers
  <2> QED
    BY <1>2, <2>1, RemovalsAreListed DEF ListInv
<1> QED
  BY <1>1, <1>2 DEF ListInv

-----------------------------------------------------------------------------
(***************************************************************************)
(* The steps that change the prefix or the registry.                       *)
(***************************************************************************)
Orderly == LoopOnly /\ NoBackDoor

LEMMA NeedsAreMet ==
    ASSUME Orderly, IInv, driver.pc \in {"publish", "register"}
    PROVE  Managed!NeedsMet(driver.pkg, driver.version)
<1>1. \A d \in Deps[driver.pkg][driver.version] : Available(d)
  BY DEF Orderly, IInv, SafeInv, DepsThere
<1>2. driver.pkg \in Packages /\ driver.version \in Versions
  BY DEF IInv, TypeOK, DriverOK, Drivers
<1>3. Deps[driver.pkg][driver.version] \subseteq Packages
  BY <1>2, DepsAreTyped
<1> QED
  BY <1>1, <1>3
  DEF Managed!NeedsMet, Managed!IsThere, Managed!IsFound, Available, Registered, Present

\* When an entry is written, or spoilt, the package is in place.
LEMMA EntriesAreInPlace ==
    ASSUME Orderly, IInv, driver.pc = "register"
    PROVE  Managed!InPlace(driver.pkg, driver.version)
BY DEF Orderly, IInv, OwnInv, Managed!InPlace

LEMMA CopyingIsCopy ==
    ASSUME Orderly, IInv, FilesInv, NEW f \in Files, PublishFile(f) PROVE Managed!Next
<1> DEFINE p == driver.pkg
           v == driver.version
<1>1. p \in Packages /\ v \in Versions /\ driver.pc = "publish" /\ f \in driver.todo
  BY DEF PublishFile, IInv, TypeOK, DriverOK, Drivers
<1>2. driver.from = [pkg |-> p, version |-> v] /\ v = 1
  BY <1>1 DEF Orderly, IInv, OwnInv, FilesInv
<1>3. f \in Payload[p][v]
  BY <1>1, <1>2 DEF FilesInv
<1>4. Managed!NeedsMet(p, v)
  BY <1>1, NeedsAreMet
<1>5. disk' = [disk EXCEPT ![f] = [pkg |-> p, version |-> v]] /\ UNCHANGED <<entry, cut>>
  BY <1>2 DEF PublishFile, registry
<1>6. Managed!Copy(p, v, f)
  BY <1>3, <1>4, <1>5 DEF Managed!Copy
<1> QED
  BY <1>1, <1>6 DEF Managed!Next

LEMMA RegisteringIsRecord ==
    ASSUME Orderly, IInv, Register PROVE Managed!Next
<1>1. driver.pkg \in Packages /\ driver.version \in Versions /\ driver.pc = "register"
  BY DEF Register, IInv, TypeOK, DriverOK, Drivers
<1>2. Managed!Record(driver.pkg, driver.version)
  BY <1>1, NeedsAreMet, EntriesAreInPlace DEF Register, Managed!Record
<1> QED
  BY <1>1, <1>2 DEF Managed!Next

LEMMA SpoilingIsRecordBadly ==
    ASSUME Orderly, IInv, RegisterFails \/ Kill
    PROVE  Managed!Next \/ UNCHANGED Managed!vars
<1>1. disk' = disk
  BY DEF RegisterFails, Kill
<1>2. \/ UNCHANGED <<entry, cut>>
      \/ /\ driver.pc = "register"
         /\ entry' = [entry EXCEPT ![driver.pkg] = 0] /\ cut' = cut \cup {driver.pkg}
  BY DEF RegisterFails, Kill, Interrupted, registry
<1>3. CASE UNCHANGED <<entry, cut>>
  BY <1>1, <1>3 DEF Managed!vars
<1>4. CASE /\ driver.pc = "register"
           /\ entry' = [entry EXCEPT ![driver.pkg] = 0] /\ cut' = cut \cup {driver.pkg}
  <2>1. driver.pkg \in Packages /\ driver.version \in Versions
    BY <1>4 DEF IInv, TypeOK, DriverOK, Drivers
  <2>2. Managed!RecordBadly(driver.pkg, driver.version)
    BY <1>1, <1>4, NeedsAreMet, EntriesAreInPlace DEF Managed!RecordBadly
  <2> QED
    BY <2>1, <2>2 DEF Managed!Next
<1> QED
  BY <1>2, <1>3, <1>4

\* Nothing readable depends on a package while its files are removed.
LEMMA RemovedIsUnneeded ==
    ASSUME Orderly, IInv, driver.pc = "unlink" PROVE ~Managed!IsNeeded(driver.pkg)
<1>1. ReverseDeps(driver.pkg) = {}
  BY DEF Orderly, IInv, SafeInv
<1> QED
  BY <1>1 DEF ReverseDeps, Managed!IsNeeded

LEMMA UnlinkingIsDelete ==
    ASSUME Orderly, IInv, ListInv, NEW f \in Files, Unlink(f) PROVE Managed!Next
<1>1. driver.pkg \in Packages /\ driver.pc = "unlink"
  BY DEF Unlink, IInv, TypeOK, DriverOK, Drivers
<1>2. f \in Payload[driver.pkg][1]
  BY DEF Unlink, ListInv
<1>3. Managed!Delete(driver.pkg, 1, f)
  BY <1>1, <1>2, RemovedIsUnneeded DEF Unlink, registry, Managed!Delete
<1>4. 1 \in Versions
  BY RecipeAssumption DEF Versions
<1> QED
  BY <1>1, <1>3, <1>4 DEF Managed!Next

LEMMA DroppingIsForget ==
    ASSUME Orderly, IInv, FilesInv, Drop PROVE Managed!Next \/ UNCHANGED Managed!vars
<1>1. /\ driver.pkg \in Packages /\ driver.pc = "unlink" /\ disk' = disk
      /\ disk \in [Files -> Builds] /\ entry \in [Packages -> 0 .. MaxVersion]
      /\ entry' = [entry EXCEPT ![driver.pkg] = 0] /\ cut' = cut \ {driver.pkg}
  BY DEF Drop, IInv, TypeOK, StoreOK, DriverOK, Drivers
<1>2. CASE Registered(driver.pkg)
  <2>1. \A f \in Files : Present(f) => disk[f].pkg # driver.pkg
    BY <1>2 DEF Drop, FilesInv
  <2>2. Managed!FilesOf(driver.pkg) = {}
    BY <2>1 DEF Managed!FilesOf, Present
  <2>3. Managed!Forget(driver.pkg)
    BY <1>1, <2>2, RemovedIsUnneeded DEF Managed!Forget
  <2> QED
    BY <1>1, <2>3 DEF Managed!Next
<1>3. CASE ~Registered(driver.pkg)
  <2>1. entry' = entry /\ cut' = cut
    BY <1>1, <1>3 DEF Registered
  <2> QED
    BY <1>1, <2>1 DEF Managed!vars
<1> QED
  BY <1>2, <1>3

-----------------------------------------------------------------------------
\* All other steps leave prefix and registry alone.
LEMMA OtherStepsStutter ==
    ASSUME [Next]_vars
    PROVE  \/ UNCHANGED <<disk, entry, cut>>
           \/ Register \/ RegisterFails \/ Kill \/ Drop
           \/ \E f \in Files : PublishFile(f) \/ Unlink(f)
<1>1. CASE Start \/ Resolve
  BY <1>1 DEF Start, StartAll, StartBuild, StartInstall, StartUninstall, Resolve, ResolveMeta,
     ResolveBuild, registry
<1>2. CASE Builder
  BY <1>2 DEF Builder, Wipe, Unpack, Compile, Render, Stage, MakeInstall, Refuse, ListFiles,
     registry
<1>3. CASE Uninstaller
  BY <1>3 DEF Uninstaller, Enter, NotInstalled, PlanRemoval, Depended, Keep, Descend, registry
<1>4. CASE Environs
  BY <1>4 DEF Environs, Fail, RemovalFails, UnlinkFails, Bump, registry
<1>5. CASE UNCHANGED vars
  BY <1>5 DEF vars
<1> QED
  BY <1>1, <1>2, <1>3, <1>4, <1>5 DEF Next

LEMMA StepRefines ==
    ASSUME Orderly, IInv, FilesInv, ListInv, [Next]_vars
    PROVE  [Managed!Next]_(Managed!vars)
<1>1. CASE UNCHANGED <<disk, entry, cut>>
  BY <1>1 DEF Managed!vars
<1>2. CASE \E f \in Files : PublishFile(f) \/ Unlink(f)
  BY <1>2, CopyingIsCopy, UnlinkingIsDelete
<1> QED
  BY <1>1, <1>2, RegisteringIsRecord, SpoilingIsRecordBadly, DroppingIsForget,
     OtherStepsStutter

LEMMA InitRefines == Init => Managed!Init
BY DEF Init, Managed!Init

\* Direct mode, used by its loop and by uninstall without --force, keeps the
\* prefix as a package manager would: whatever fails or is killed at whichever
\* step, files come in only for packages whose needs are there, packages are
\* recorded only when they are complete, and nothing is deleted or forgotten that
\* something recorded needs.  Packages may install .pc files of their own, which
\* stand for a missing entry.
THEOREM DirectKeepsPrefix ==
    ASSUME Orderly PROVE Spec => KeepsPrefix
<1>1. FileListsStay /\ LoopOnly
  BY DEF Orderly, FileListsStay, LoopOnly
<1>2. IInv /\ FilesInv /\ [Next]_vars => FilesInv'
  BY <1>1, StepKeepsFiles
<1>3. IInv /\ ListInv /\ FilesInv' /\ [Next]_vars => ListInv'
  BY <1>1, ListStep
<1>4. IInv /\ FilesInv /\ ListInv /\ [Next]_vars => [Managed!Next]_(Managed!vars)
  BY StepRefines
<1> QED
  BY <1>2, <1>3, <1>4, FilesInit, ListInit, InitRefines, Inductive, PTL
     DEF Spec, KeepsPrefix, Managed!Spec

=============================================================================
