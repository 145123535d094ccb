--------------------------- MODULE FrontEndProofs ---------------------------
(***************************************************************************)
(* Theorems about FrontEnd, for every order, dependency relation, host and *)
(* configuration, every set of events and any number of them.              *)
(***************************************************************************)
EXTENDS FrontEnd, TLAPS

-----------------------------------------------------------------------------
(***************************************************************************)
(* The inductive invariant.  Between the package being written and its     *)
(* installation nothing else writes one of that name, and each half of the *)
(* steps belongs to one kind of format.  `next' has chosen a package that  *)
(* the host did not have, as far as scls.py can find it there.             *)
(***************************************************************************)
PathInv ==
    /\ driver.pc \in {"pack", "mark", "install"} => Native
    /\ driver.pc \in {"uninstall", "publish"} => ~Native
    /\ driver.pc \in {"install", "publish"} => driver.command # "build"

ChosenInv ==
    driver.command = "next" =>
        IF Native THEN Findable(driver.pkg) => driver.was = 0 ELSE driver.was = 0

\* The part of StoreOK that is about the host.
HostOK ==
    /\ registry \in [Names -> 0 .. MaxVersion]
    /\ installed \in [Names -> 0 .. MaxVersion]
    /\ cut \subseteq {p \in Names : registry[p] = 0}
    /\ Native => cut = {} /\ \A p \in Names : registry[p] \in {0, installed[p]}

WrittenInv == driver.pc \in {"mark", "install"} => newest[driver.pkg] = driver.version

RunInv == DriverOK /\ PathInv /\ ChosenInv

IInv == StoreOK /\ RunInv /\ WrittenInv

-----------------------------------------------------------------------------
(***************************************************************************)
(* Which formats there are, and what starts and ends a command.            *)
(***************************************************************************)

\* Whatever the two files and the host say, it is one of the four formats.
LEMMA FormatIsKnown ==
    ASSUME NEW c \in Configs, NEW h
    PROVE  PackageFormat(c, h) \in Formats
<1>1. DetectedFormat(h) \in Formats
  BY DEF DetectedFormat, Formats
<1>2. ConfiguredFormat(c) \in Formats \cup {"auto"}
  <2> DEFINE loadable == {i \in DOMAIN c : c[i] \notin {"absent", "broken"}}
  <2>1. DOMAIN c = 1 .. 2 /\ \A i \in 1 .. 2 : c[i] \in {"absent", "broken", "auto"} \cup Formats
    BY ConfigAssumption
  <2>2. CASE loadable = {}
    BY <2>2 DEF ConfiguredFormat
  <2>3. CASE loadable # {}
    <3>1. \E i \in loadable : \A j \in loadable : i <= j
      BY <2>1, <2>3
    <3>2. PICK i \in loadable : ConfiguredFormat(c) = c[i]
      BY <2>3, <3>1, Zenon DEF ConfiguredFormat
    <3> QED
      BY <2>1, <3>2
  <2> QED
    BY <2>2, <2>3
<1> QED
  BY <1>1, <1>2 DEF PackageFormat

LEMMA ConstantsAreTyped ==
    /\ Meta \in Names
    /\ Idle \in Drivers
    /\ 0 \in 0 .. MaxVersion
    /\ \A v \in Versions : v \in 0 .. MaxVersion /\ v # 0
<1>1. DOMAIN Order = 1 .. Len(Order) /\ Len(Order) \in Nat /\ Len(Order) # 0
  BY OrderAssumption
<1>2. Meta \in Names
  BY <1>1 DEF Names, Meta
<1>3. 0 \in 0 .. MaxVersion /\ \A v \in Versions : v \in 0 .. MaxVersion /\ v # 0
  BY BoundsAssumption DEF Versions
<1> QED
  BY <1>2, <1>3 DEF Idle, Drivers

LEMMA StoreStays ==
    ASSUME StoreOK, UNCHANGED <<format, recipe, host, disk, sources>>
    PROVE  StoreOK'
BY DEF StoreOK, host, disk, sources, SourcesTypeOK, Native

\* The archive of the running command is one of the recipes'.
LEMMA ArchiveIsKnown ==
    ASSUME DriverOK, driver.pc \in {"fetch", "transfer", "compile"}
    PROVE  Archive \in Archives
BY ArchivesAssumption DEF DriverOK, Archive

LEMMA EventIsCounted ==
    ASSUME IInv, NEW e, Event(e)
    PROVE  events' \in 0 .. MaxEvents
<1>1. events \in 0 .. MaxEvents
  BY DEF IInv, RunInv, DriverOK
<1>2. events < MaxEvents /\ events' = events + 1
  BY DEF Event
<1> QED
  BY <1>1, <1>2, BoundsAssumption

LEMMA EndIsTyped ==
    ASSUME NEW r \in {"ok", "error", "killed"}, End(r), events' \in 0 .. MaxEvents
    PROVE  RunInv' /\ WrittenInv'
<1>1. driver' = Idle /\ result' = r
  BY DEF End
<1> QED
  BY <1>1, ConstantsAreTyped DEF RunInv, DriverOK, PathInv, ChosenInv, WrittenInv, Idle

\* The next step of the running command.
LEMMA GoToIsTyped ==
    ASSUME RunInv, GoTo("start") \/ GoTo("transfer") \/ GoTo("compile") \/ GoTo("pack")
                     \/ GoTo("mark") \/ GoTo("install") \/ GoTo("publish"),
           UNCHANGED <<format, events>>, driver.pc # "idle"
    PROVE  /\ driver' \in Drivers /\ driver'.pkg = driver.pkg /\ driver'.pkg \in Recipes
           /\ driver'.version = driver.version /\ driver'.command = driver.command
           /\ driver'.was = driver.was
           /\ result' \in {"none", "ok", "error", "killed", "all installed"}
           /\ events' \in 0 .. MaxEvents
           /\ ChosenInv'
<1>1. PICK pc \in {"start", "transfer", "compile", "pack", "mark", "install", "publish"} :
        driver' = [driver EXCEPT !.pc = pc] /\ UNCHANGED result
  BY DEF GoTo
<1>2. /\ driver' \in Drivers /\ driver'.pkg = driver.pkg /\ driver'.version = driver.version
      /\ driver'.command = driver.command /\ driver'.was = driver.was
  BY <1>1 DEF RunInv, DriverOK, Drivers
<1> QED
  BY <1>1, <1>2 DEF RunInv, DriverOK, ChosenInv, Native, Findable

\* A command begins: on a package, or with an error for the meta-package.
LEMMA LaunchIsTyped ==
    ASSUME IInv, NEW p \in Names, NEW c \in {"install", "next", "build"}, Launch(c, p),
           driver.pc = "idle", c = "next" => p \in Missing,
           format' = format, events' \in 0 .. MaxEvents
    PROVE  RunInv' /\ WrittenInv'
<1>1. CASE p = Meta
  <2>1. result' = "error" /\ driver' = driver
    BY <1>1 DEF Launch
  <2> QED
    BY <2>1 DEF IInv, RunInv, DriverOK, PathInv, ChosenInv, WrittenInv, Native, Findable
<1>2. CASE p # Meta
  <2>1. PICK pc \in {"uninstall", "start"} :
          /\ driver' = [pc |-> pc, command |-> c, pkg |-> p, version |-> 0,
                        was |-> IF Native THEN installed[p] ELSE registry[p]]
          /\ pc = "uninstall" => ~Native
    BY <1>2 DEF Launch
  <2>2. result' = result /\ p \in Recipes
    BY <1>2 DEF Launch, Recipes
  <2>3. installed[p] \in 0 .. MaxVersion /\ registry[p] \in 0 .. MaxVersion
    BY DEF IInv, StoreOK
  <2>4. DriverOK' /\ PathInv' /\ WrittenInv'
    BY <2>1, <2>2, <2>3, ConstantsAreTyped
       DEF IInv, RunInv, DriverOK, Drivers, PathInv, WrittenInv, Native
  <2>5. ChosenInv'
    BY <2>1 DEF ChosenInv, Missing, HasEntry, KnownToHost, Native, Findable
  <2> QED
    BY <2>4, <2>5 DEF RunInv
<1> QED
  BY <1>1, <1>2

LEMMA InitEstablishes == Init => IInv
<1> SUFFICES ASSUME Init PROVE IInv
  OBVIOUS
<1>1. format \in Formats
  BY FormatIsKnown DEF Init
<1>2. 1 \in Versions /\ 0 \in 0 .. MaxEvents
  BY BoundsAssumption DEF Versions
<1>3. SourcesTypeOK
  BY DEF Init, SourcesInit, SourcesTypeOK, Contents
<1>4. StoreOK
  BY <1>1, <1>2, <1>3, ConstantsAreTyped DEF Init, StoreOK
<1>5. RunInv /\ WrittenInv
  BY <1>2, ConstantsAreTyped
     DEF Init, RunInv, DriverOK, PathInv, ChosenInv, WrittenInv, Idle
<1> QED
  BY <1>4, <1>5 DEF IInv

-----------------------------------------------------------------------------
(***************************************************************************)
(* Each action keeps the invariant.                                        *)
(***************************************************************************)
LEMMA SourcesAreTyped ==
    ASSUME SourcesTypeOK, NEW a \in Archives,
           \/ UseCached(a) \/ BeginDownload(a) \/ FinishDownload(a) \/ AbandonDownload(a)
           \/ Spoil(a) \/ UNCHANGED sources
    PROVE  SourcesTypeOK'
BY DEF SourcesTypeOK, Contents, UseCached, BeginDownload, FinishDownload, AbandonDownload, Spoil,
       sources

LEMMA StoreStaysButSources ==
    ASSUME StoreOK, UNCHANGED <<format, recipe, host, disk>>, SourcesTypeOK'
    PROVE  StoreOK'
BY DEF StoreOK, host, disk, Native

\* A walk over the list only deletes markers.
LEMMA StoreStaysButMarker ==
    ASSUME StoreOK, UNCHANGED <<format, recipe, host, artifacts, newest, sources>>,
           marker' \subseteq Names
    PROVE  StoreOK'
BY DEF StoreOK, host, sources, SourcesTypeOK, Native

LEMMA StoreStaysButHost ==
    ASSUME StoreOK, UNCHANGED <<format, recipe, disk>>, UNCHANGED sources, HostOK'
    PROVE  StoreOK'
BY DEF StoreOK, HostOK, disk, sources, SourcesTypeOK, Native

\* Half-way states of an uninstall or a publication are states of the host.
LEMMA HalfWayKeepsHost ==
    ASSUME IInv, HalfWay, format' = format
    PROVE  HostOK'
<1>1. CASE UNCHANGED host
  BY <1>1 DEF IInv, StoreOK, HostOK, host, Native
<1>2. CASE /\ driver.pc \in {"uninstall", "publish"}
           /\ installed' = [installed EXCEPT ![driver.pkg] = driver.version]
           /\ UNCHANGED <<registry, cut>>
  <2>1. driver.version \in 0 .. MaxVersion /\ ~Native
    BY <1>2 DEF IInv, RunInv, DriverOK, Drivers, PathInv
  <2> QED
    BY <1>2, <2>1 DEF IInv, StoreOK, HostOK, Native
<1> QED
  BY <1>1, <1>2 DEF HalfWay

LEMMA CutEntryKeepsHost ==
    ASSUME IInv, CutEntry, driver.pc = "publish", format' = format,
           installed' = [installed EXCEPT ![driver.pkg] = driver.version]
    PROVE  HostOK'
<1>1. /\ driver.pkg \in Names /\ driver.version \in 0 .. MaxVersion /\ ~Native
      /\ 0 \in 0 .. MaxVersion
  BY ConstantsAreTyped DEF IInv, RunInv, DriverOK, Drivers, PathInv, Recipes
<1>2. registry' \in [Names -> 0 .. MaxVersion] /\ cut' \subseteq {p \in Names : registry'[p] = 0}
  BY <1>1 DEF CutEntry, IInv, StoreOK
<1> QED
  BY <1>1, <1>2 DEF IInv, StoreOK, HostOK, Native

\* `install', `build', `next' and --force start a command and touch nothing else.
LEMMA LaunchKeeps ==
    ASSUME IInv, NEW p \in Names,
           NEW c \in {"install", "next", "build"},
           (Command(c, p) /\ c # "next") \/ Resolve(c, p),
           events' \in 0 .. MaxEvents
    PROVE  IInv'
<1>1. /\ Launch(c, p) /\ driver.pc = "idle" /\ (c = "next" => p \in Missing)
      /\ UNCHANGED <<format, recipe, host, artifacts, newest, sources>>
      /\ marker' \subseteq marker
  BY DEF Command, Resolve, Visit, disk
<1>2. StoreOK'
  BY <1>1, StoreStaysButMarker DEF IInv, StoreOK
<1>3. RunInv' /\ WrittenInv'
  BY <1>1, LaunchIsTyped
<1> QED
  BY <1>2, <1>3 DEF IInv

LEMMA NothingNextKeeps == IInv /\ NothingNext => IInv'
<1> SUFFICES ASSUME IInv, NothingNext PROVE IInv'
  OBVIOUS
<1>1. StoreOK'
  BY StoreStaysButMarker DEF NothingNext, Visit, IInv, StoreOK
<1>2. RunInv' /\ WrittenInv'
  BY DEF NothingNext, IInv, RunInv, DriverOK, PathInv, ChosenInv, WrittenInv, Native, Findable
<1> QED
  BY <1>1, <1>2 DEF IInv

\* _remove_direct, before the new version is built.
LEMMA UninstallKeeps == IInv /\ Uninstall => IInv'
<1> SUFFICES ASSUME IInv, Uninstall PROVE IInv'
  OBVIOUS
<1>1. GoTo("start") /\ driver.pc = "uninstall" /\ driver'.pc = "start"
  BY DEF Uninstall, GoTo, IInv, RunInv, DriverOK, Drivers
<1>2. RunInv' /\ WrittenInv'
  BY <1>1, GoToIsTyped DEF Uninstall, IInv, RunInv, DriverOK, PathInv, WrittenInv
<1>3. ASSUME installed' = [installed EXCEPT ![driver.pkg] = 0],
             registry' = [registry EXCEPT ![driver.pkg] = 0], UNCHANGED cut
      PROVE  HostOK'
  BY <1>1, <1>3, ConstantsAreTyped DEF Uninstall, IInv, RunInv, PathInv, StoreOK, HostOK, Native
<1>4. ASSUME HalfWay PROVE HostOK'
  BY <1>4, HalfWayKeepsHost DEF Uninstall
<1>5. StoreOK'
  BY <1>3, <1>4, StoreStaysButHost DEF Uninstall, IInv
<1> QED
  BY <1>2, <1>5 DEF IInv

LEMMA StartBuilderKeeps == IInv /\ StartBuilder => IInv'
<1> SUFFICES ASSUME IInv, StartBuilder PROVE IInv'
  OBVIOUS
<1>1. StoreOK'
  BY StoreStays DEF StartBuilder, IInv
<1>2. /\ driver' = [driver EXCEPT !.pc = "fetch", !.version = recipe[driver.pkg]]
      /\ driver.pkg \in Recipes /\ driver.pkg \in Names /\ recipe[driver.pkg] \in Versions
  BY DEF StartBuilder, IInv, RunInv, DriverOK, Recipes, StoreOK
<1>3. driver' \in Drivers /\ driver'.version \in Versions /\ driver'.pkg = driver.pkg
  BY <1>2, ConstantsAreTyped DEF IInv, RunInv, DriverOK, Drivers
<1>4. RunInv' /\ WrittenInv'
  BY <1>2, <1>3 DEF StartBuilder, IInv, RunInv, DriverOK, Drivers, PathInv, ChosenInv, WrittenInv,
                    Native, Findable
<1> QED
  BY <1>1, <1>4 DEF IInv

LEMMA DownloadKeeps == IInv /\ (Fetch \/ Transfer) => IInv'
<1> SUFFICES ASSUME IInv, Fetch \/ Transfer PROVE IInv'
  OBVIOUS
<1>1. Archive \in Archives
  BY ArchiveIsKnown DEF Fetch, Transfer, IInv, RunInv
<1>2. SourcesTypeOK'
  BY <1>1, SourcesAreTyped DEF Fetch, Transfer, IInv, StoreOK
<1>3. StoreOK'
  BY <1>2, StoreStaysButSources DEF Fetch, Transfer, IInv
<1>4. PICK pc \in {"compile", "transfer"} : GoTo(pc) /\ driver'.pc = pc
  BY DEF Fetch, Transfer, GoTo, IInv, RunInv, DriverOK, Drivers
<1>5. driver.version \in Versions /\ driver.pc # "idle" /\ UNCHANGED <<format, events>>
  BY DEF Fetch, Transfer, IInv, RunInv, DriverOK
<1>6. RunInv' /\ WrittenInv'
  BY <1>4, <1>5, GoToIsTyped DEF IInv, RunInv, DriverOK, PathInv, WrittenInv
<1> QED
  BY <1>3, <1>6 DEF IInv

\* The build ends, or its result is packed, or copied to the prefix.
LEMMA CompileKeeps == IInv /\ Compile => IInv'
<1> SUFFICES ASSUME IInv, Compile PROVE IInv'
  OBVIOUS
<1>1. StoreOK'
  BY StoreStays DEF Compile, IInv
<1>2. /\ driver.version \in Versions /\ driver.pc = "compile" /\ UNCHANGED <<format, events>>
      /\ events' \in 0 .. MaxEvents
  BY DEF Compile, IInv, RunInv, DriverOK
<1>3. CASE End("ok")
  BY <1>1, <1>2, <1>3, EndIsTyped DEF IInv
<1>4. CASE \/ GoTo("pack") /\ Native
           \/ GoTo("publish") /\ ~Native /\ driver.command # "build"
  <2>1. \/ driver'.pc = "pack" /\ Native
        \/ driver'.pc = "publish" /\ ~Native /\ driver'.command # "build"
    BY <1>4 DEF GoTo, IInv, RunInv, DriverOK, Drivers
  <2>2. RunInv' /\ WrittenInv'
    BY <1>2, <1>4, <2>1, GoToIsTyped DEF IInv, RunInv, DriverOK, PathInv, WrittenInv, Native
  <2> QED
    BY <1>1, <2>2 DEF IInv
<1>5. \/ End("ok")
      \/ GoTo("pack") /\ Native
      \/ GoTo("publish") /\ ~Native /\ driver.command # "build"
  BY Zenon DEF Compile
<1> QED
  BY <1>3, <1>4, <1>5

\* The package is written, and until it is installed it is the last one written.
LEMMA PackKeeps == IInv /\ Pack => IInv'
<1> SUFFICES ASSUME IInv, Pack PROVE IInv'
  OBVIOUS
<1>1. driver.pkg \in Names /\ driver.version \in Versions /\ driver.version \in 0 .. MaxVersion
  BY ConstantsAreTyped DEF Pack, IInv, RunInv, DriverOK, Recipes
<1>2. /\ artifacts' \in [Names -> SUBSET Versions]
      /\ newest' \in [Names -> 0 .. MaxVersion]
      /\ \A p \in Names : newest'[p] \in artifacts'[p] \cup {0}
      /\ newest'[driver.pkg] = driver.version
  BY <1>1 DEF Pack, IInv, StoreOK
<1>3. StoreOK'
  BY <1>2 DEF Pack, IInv, StoreOK, host, sources, SourcesTypeOK, Native
<1>4. GoTo("mark") /\ driver'.pc = "mark" /\ Native
  BY DEF Pack, GoTo, IInv, RunInv, DriverOK, Drivers, PathInv
<1>5. RunInv' /\ WrittenInv'
  BY <1>1, <1>2, <1>4, GoToIsTyped
     DEF Pack, IInv, RunInv, DriverOK, PathInv, WrittenInv, Native
<1> QED
  BY <1>3, <1>5 DEF IInv

LEMMA MarkKeeps == IInv /\ Mark => IInv'
<1> SUFFICES ASSUME IInv, Mark PROVE IInv'
  OBVIOUS
<1>1. driver.pkg \in Names /\ driver.version \in Versions /\ Native
  BY DEF Mark, IInv, RunInv, DriverOK, Recipes, PathInv
<1>2. StoreOK'
  BY <1>1, StoreStaysButMarker DEF Mark, IInv, StoreOK
<1>3. events' = events /\ events' \in 0 .. MaxEvents
  BY DEF Mark, IInv, RunInv, DriverOK
<1>4. CASE End("ok")
  BY <1>2, <1>3, <1>4, EndIsTyped DEF IInv
<1>5. CASE GoTo("install") /\ driver.command # "build"
  <2>1. driver'.pc = "install" /\ driver'.command # "build"
    BY <1>5 DEF GoTo, IInv, RunInv, DriverOK, Drivers
  <2>2. RunInv' /\ WrittenInv'
    BY <1>1, <1>5, <2>1, GoToIsTyped
       DEF Mark, IInv, RunInv, DriverOK, PathInv, WrittenInv, Native
  <2> QED
    BY <1>2, <2>2 DEF IInv
<1>6. End("ok") \/ (GoTo("install") /\ driver.command # "build")
  BY Zenon DEF Mark
<1> QED
  BY <1>4, <1>5, <1>6

\* dnf or apt installs the file written last, and the entry in it.
LEMMA InstallNativeKeeps == IInv /\ InstallNative => IInv'
<1> SUFFICES ASSUME IInv, InstallNative PROVE IInv'
  OBVIOUS
<1>1. PICK v \in Versions :
        /\ Installable(driver.pkg, v)
        /\ IF installed[driver.pkg] = v THEN UNCHANGED host
           ELSE /\ installed' = [installed EXCEPT ![driver.pkg] = v]
                /\ registry' = [registry EXCEPT ![driver.pkg] = v]
                /\ UNCHANGED cut
  BY DEF InstallNative
<1>2. Native /\ cut' = {}
  BY <1>1 DEF InstallNative, IInv, RunInv, PathInv, StoreOK, host
<1>3. HostOK'
  BY <1>1, <1>2, ConstantsAreTyped DEF InstallNative, IInv, StoreOK, HostOK, host, Native
<1>5. StoreOK'
  BY <1>3, StoreStaysButHost DEF InstallNative, IInv
<1>4. RunInv' /\ WrittenInv'
  BY EndIsTyped DEF InstallNative, IInv, RunInv, DriverOK
<1> QED
  BY <1>4, <1>5 DEF IInv

\* The tree is copied to the prefix, and its entry is written or is not.
LEMMA PublishKeeps == IInv /\ (Publish \/ PublishUnrecorded) => IInv'
<1> SUFFICES ASSUME IInv, Publish \/ PublishUnrecorded PROVE IInv'
  OBVIOUS
<1>1. /\ driver.pkg \in Names /\ driver.version \in 0 .. MaxVersion /\ ~Native
      /\ driver.pc = "publish" /\ driver.version # 0
      /\ installed' = [installed EXCEPT ![driver.pkg] = driver.version]
      /\ UNCHANGED <<format, recipe, disk>> /\ UNCHANGED sources
  BY ConstantsAreTyped DEF Publish, PublishUnrecorded, IInv, RunInv, DriverOK, Recipes, PathInv
<1>2. ASSUME Publish PROVE HostOK'
  <2>1. /\ registry' = [registry EXCEPT ![driver.pkg] = driver.version]
        /\ cut' = cut \ {driver.pkg}
    BY <1>2 DEF Publish
  <2> QED
    BY <1>1, <2>1 DEF IInv, StoreOK, HostOK, Native
<1>3. ASSUME PublishUnrecorded PROVE HostOK'
  <2>1. UNCHANGED <<registry, cut>> \/ CutEntry
    BY <1>3 DEF PublishUnrecorded
  <2>2. CASE UNCHANGED <<registry, cut>>
    BY <1>1, <2>2 DEF IInv, StoreOK, HostOK, Native
  <2> QED
    BY <1>1, <2>1, <2>2, CutEntryKeepsHost
<1>4. End("ok") \/ End("error")
  BY DEF Publish, PublishUnrecorded, EndOfPublishing
<1>5. events' \in 0 .. MaxEvents
  BY EventIsCounted DEF Publish, PublishUnrecorded, IInv, RunInv, DriverOK
<1>6. RunInv' /\ WrittenInv'
  BY <1>4, <1>5, EndIsTyped
<1>7. HostOK'
  BY <1>2, <1>3
<1> QED
  BY <1>1, <1>6, <1>7, StoreStaysButHost DEF IInv

LEMMA StoppingKeeps == IInv /\ (Fail \/ Kill) => IInv'
<1> SUFFICES ASSUME IInv, Fail \/ Kill PROVE IInv'
  OBVIOUS
<1>1. events' \in 0 .. MaxEvents
  <2>1. CASE Fail
    BY <2>1 DEF Fail, IInv, RunInv, DriverOK
  <2>2. CASE Kill
    BY <2>2, EventIsCounted DEF Kill
  <2> QED
    BY <2>1, <2>2
<1>2. RunInv' /\ WrittenInv'
  BY <1>1, EndIsTyped DEF Fail, Kill
<1>3. SourcesTypeOK'
  <2>1. UNCHANGED sources \/ (driver.pc = "transfer" /\ AbandonDownload(Archive))
    BY DEF Fail, Kill
  <2> QED
    BY <2>1, ArchiveIsKnown, SourcesAreTyped DEF IInv, StoreOK, RunInv, SourcesTypeOK, sources
<1>4. HostOK'
  <2>1. \/ HalfWay
        \/ /\ driver.pc = "publish" /\ CutEntry
           /\ installed' = [installed EXCEPT ![driver.pkg] = driver.version]
    BY DEF Fail, Kill
  <2> QED
    BY <2>1, HalfWayKeepsHost, CutEntryKeepsHost DEF Fail, Kill
<1>5. StoreOK'
  BY <1>3, <1>4 DEF Fail, Kill, IInv, StoreOK, HostOK, disk, Native
<1> QED
  BY <1>2, <1>5 DEF IInv

\* What happens beside the commands leaves the running one as it is.
LEMMA RunStays ==
    ASSUME RunInv, UNCHANGED <<format, driver, result>>, events' \in 0 .. MaxEvents
    PROVE  RunInv'
BY DEF RunInv, DriverOK, PathInv, ChosenInv, Native, Findable

LEMMA RemoveKeeps == ASSUME IInv, NEW p \in Names, RemovePackage(p) PROVE IInv'
<1>1. PICK gone \in SUBSET Names :
        /\ registry' = [q \in Names |-> IF q \in gone THEN 0 ELSE registry[q]]
        /\ installed' = [q \in Names |-> IF q \in gone THEN 0 ELSE installed[q]]
        /\ cut' = cut \ gone
  BY DEF RemovePackage, NeededBy
<1>2. HostOK'
  BY <1>1, ConstantsAreTyped DEF RemovePackage, IInv, StoreOK, HostOK, Native
<1>3. StoreOK'
  BY <1>2, StoreStaysButHost DEF RemovePackage, IInv
<1>4. RunInv' /\ WrittenInv'
  BY EventIsCounted, RunStays DEF RemovePackage, IInv, WrittenInv, disk
<1> QED
  BY <1>3, <1>4 DEF IInv

\* Artifacts come and go only between two commands.
LEMMA ArtifactsKeep == IInv /\ (Wipe \/ MetaElsewhere) => IInv'
<1> SUFFICES ASSUME IInv, Wipe \/ MetaElsewhere PROVE IInv'
  OBVIOUS
<1>1. events' \in 0 .. MaxEvents
  BY EventIsCounted DEF Wipe, MetaElsewhere
<1>2. 1 \in Versions
  BY BoundsAssumption DEF Versions
<1>3. /\ artifacts' \in [Names -> SUBSET Versions] /\ newest' \in [Names -> 0 .. MaxVersion]
      /\ \A p \in Names : newest'[p] \in artifacts'[p] \cup {0}
      /\ marker' \subseteq Names
  BY <1>2, ConstantsAreTyped DEF Wipe, MetaElsewhere, IInv, StoreOK
<1>4. StoreOK'
  BY <1>3 DEF Wipe, MetaElsewhere, IInv, StoreOK, host, sources, SourcesTypeOK, Native
<1>5. RunInv' /\ WrittenInv'
  BY <1>1, RunStays DEF Wipe, MetaElsewhere, IInv, WrittenInv
<1> QED
  BY <1>4, <1>5 DEF IInv

LEMMA EditKeeps == ASSUME IInv, NEW p \in Names, EditRecipe(p) PROVE IInv'
<1>1. recipe' \in [Names -> Versions]
  BY DEF EditRecipe, IInv, StoreOK
<1>2. StoreOK'
  BY <1>1 DEF EditRecipe, IInv, StoreOK, host, disk, sources, SourcesTypeOK, Native
<1>3. RunInv' /\ WrittenInv'
  BY EventIsCounted, RunStays DEF EditRecipe, IInv, WrittenInv, disk
<1> QED
  BY <1>2, <1>3 DEF IInv

LEMMA UnregisterKeeps == ASSUME IInv, NEW p \in Names, Unregister(p) PROVE IInv'
<1>1. HostOK'
  BY ConstantsAreTyped DEF Unregister, IInv, StoreOK, HostOK, Native
<1>2. StoreOK'
  BY <1>1, StoreStaysButHost DEF Unregister, IInv
<1>3. RunInv' /\ WrittenInv'
  BY EventIsCounted, RunStays DEF Unregister, IInv, WrittenInv, disk
<1> QED
  BY <1>2, <1>3 DEF IInv

LEMMA SpoilKeeps == ASSUME IInv, NEW a \in Archives, SpoilArchive(a) PROVE IInv'
<1>1. SourcesTypeOK'
  BY SourcesAreTyped DEF SpoilArchive, IInv, StoreOK
<1>2. StoreOK'
  BY <1>1, StoreStaysButSources DEF SpoilArchive, IInv
<1>3. RunInv' /\ WrittenInv'
  BY EventIsCounted, RunStays DEF SpoilArchive, IInv, WrittenInv, disk
<1> QED
  BY <1>2, <1>3 DEF IInv

LEMMA NextPreserves == IInv /\ [Next]_vars => IInv'
<1> SUFFICES ASSUME IInv, [Next]_vars PROVE IInv'
  OBVIOUS
<1>1. events \in 0 .. MaxEvents
  BY DEF IInv, RunInv, DriverOK
<1>2. ASSUME NEW p \in Names, InstallPackage(p) PROVE IInv'
  BY <1>1, <1>2, LaunchKeeps DEF InstallPackage
<1>3. CASE InstallNext
  BY <1>1, <1>3, LaunchKeeps DEF InstallNext
<1>4. CASE BuildNext
  BY <1>4, EventIsCounted, LaunchKeeps DEF BuildNext
<1>5. ASSUME NEW p \in Names, BuildPackage(p) \/ ForcePackage(p) PROVE IInv'
  BY <1>5, EventIsCounted, LaunchKeeps DEF BuildPackage, ForcePackage
<1>6. CASE Step
  BY <1>6, UninstallKeeps, StartBuilderKeeps, DownloadKeeps, CompileKeeps, PackKeeps, MarkKeeps,
     InstallNativeKeeps, PublishKeeps DEF Step
<1>7. CASE UNCHANGED vars
  <2>1. StoreOK'
    BY <1>7, StoreStays DEF vars, host, disk, sources, IInv
  <2>2. RunInv' /\ WrittenInv'
    BY <1>1, <1>7, RunStays DEF vars, IInv, WrittenInv
  <2> QED
    BY <2>1, <2>2 DEF IInv
<1>8. CASE Environs
  BY <1>4, <1>5, <1>8, StoppingKeeps, PublishKeeps, ArtifactsKeep, SpoilKeeps, RemoveKeeps, EditKeeps,
     UnregisterKeeps DEF Environs
<1> QED
  BY <1>2, <1>3, <1>6, <1>7, <1>8, NothingNextKeeps, StoppingKeeps DEF Next

THEOREM Inductive == Spec => []IInv
BY InitEstablishes, NextPreserves, PTL DEF Spec

-----------------------------------------------------------------------------
\* Every state is well-formed; on rpm and deb hosts an entry of the registry is
\* that of the version in the host's database, whatever was killed or lost.
THEOREM TypeCorrect == Spec => []TypeOK
<1>1. IInv => TypeOK
  BY DEF IInv, RunInv, TypeOK
<1> QED
  BY <1>1, Inductive, PTL

\* A command that did not only build ends well in two ways.
LEMMA EndsByInstalling ==
    ASSUME IInv, Next, Ends("ok"), driver.command # "build"
    PROVE  InstallNative \/ Publish \/ PublishUnrecorded
<1> SUFFICES ASSUME ~InstallNative, ~Publish, ~PublishUnrecorded PROVE FALSE
  OBVIOUS
<1>1. driver.pc # "idle" /\ driver'.pc = "idle" /\ result' = "ok"
  BY DEF Ends
<1>2. ~(Fail \/ Kill)
  BY <1>1 DEF Fail, Kill, End
<1>3. ASSUME UNCHANGED driver PROVE FALSE
  BY <1>1, <1>3
<1>4. ASSUME GoTo("start") \/ GoTo("transfer") \/ GoTo("compile") \/ GoTo("pack") \/ GoTo("mark")
               \/ GoTo("install") \/ GoTo("publish")
      PROVE  FALSE
  BY <1>1, <1>4 DEF GoTo, IInv, RunInv, DriverOK, Drivers
<1>5. ~Step
  <2>1. ~StartBuilder
    BY <1>1 DEF StartBuilder, IInv, RunInv, DriverOK, Drivers
  <2> QED
    BY <1>4, <2>1, Zenon DEF Step, Uninstall, Fetch, Transfer, Compile, Pack, Mark
<1>6. ~(InstallNext \/ NothingNext \/ BuildNext)
  BY <1>1 DEF InstallNext, NothingNext, BuildNext, Resolve
<1>7. \A p \in Names : ~(InstallPackage(p) \/ BuildPackage(p) \/ ForcePackage(p))
  BY <1>1 DEF InstallPackage, BuildPackage, ForcePackage, Command
<1>8. ~Environs
  BY <1>2, <1>3, <1>6, <1>7, Zenon
     DEF Environs, Wipe, MetaElsewhere, SpoilArchive, RemovePackage, EditRecipe, Unregister
<1> QED
  BY <1>2, <1>5, <1>6, <1>7, <1>8 DEF Next

\* The step that ends an install well brings the files of its own build.
LEMMA InstallationDelivers ==
    ASSUME IInv, InstallNative \/ Publish \/ PublishUnrecorded
    PROVE  /\ installed'[driver.pkg] = driver.version
           /\ driver.version # 0
           /\ Native => Findable(driver.pkg)
           /\ Native \/ registry'[driver.pkg] = driver.version \/ PublishUnrecorded
<1>1. driver.pkg \in Names /\ driver.version # 0
  BY ConstantsAreTyped
     DEF InstallNative, Publish, PublishUnrecorded, IInv, RunInv, DriverOK, Recipes
<1>2. CASE InstallNative
  <2>1. PICK v \in Versions :
          /\ Installable(driver.pkg, v)
          /\ IF installed[driver.pkg] = v THEN UNCHANGED host
             ELSE /\ installed' = [installed EXCEPT ![driver.pkg] = v]
                  /\ registry' = [registry EXCEPT ![driver.pkg] = v]
                  /\ UNCHANGED cut
    BY <1>2 DEF InstallNative
  <2>2. Native /\ v = driver.version /\ Findable(driver.pkg)
    BY <1>2, <2>1 DEF InstallNative, Installable, ChosenFile, IInv, RunInv, PathInv, WrittenInv
  <2>3. installed'[driver.pkg] = v
    BY <1>1, <2>1 DEF IInv, StoreOK, host
  <2> QED
    BY <1>1, <2>2, <2>3
<1>3. CASE Publish \/ PublishUnrecorded
  <2>1. ~Native /\ installed'[driver.pkg] = driver.version
    BY <1>1, <1>3 DEF Publish, PublishUnrecorded, IInv, RunInv, PathInv, StoreOK
  <2>2. registry'[driver.pkg] = driver.version \/ PublishUnrecorded
    BY <1>1, <1>3 DEF Publish, IInv, StoreOK
  <2> QED
    BY <1>1, <2>1, <2>2
<1> QED
  BY <1>2, <1>3

\* An `install' that exits 0 has left in the database, or in direct mode in the
\* prefix, the version its own build made, whatever files of other versions lie on
\* the disk, and whatever was killed, wiped, edited or unregistered before or
\* meanwhile; and in direct mode it is registered, unless the write of that entry
\* was the one that failed.
THEOREM InstallDelivers == Spec => DeliversItsBuild
<1>1. IInv /\ [Next]_vars =>
        [(Ends("ok") /\ driver.command # "build") =>
            /\ installed'[driver.pkg] = driver.version
            /\ Native \/ registry'[driver.pkg] = driver.version \/ PublishUnrecorded]_vars
  BY EndsByInstalling, InstallationDelivers
<1> QED
  BY <1>1, Inductive, PTL DEF Spec, DeliversItsBuild

\* An `install next' that exits 0 has brought to the database, or in direct mode to
\* the registry, what was not there: with success it chooses the same package again
\* only where the write of its registry entry fails.
THEOREM NextMakesProgress == Spec => NextBringsSomething
<1>1. IInv /\ [Next]_vars =>
        [(Ends("ok") /\ driver.command = "next") =>
            \/ (IF Native THEN installed' ELSE registry')[driver.pkg] # driver.was
            \/ PublishUnrecorded]_vars
  <2> SUFFICES ASSUME IInv, Next, Ends("ok"), driver.command = "next", ~PublishUnrecorded
               PROVE  (IF Native THEN installed' ELSE registry')[driver.pkg] # driver.was
    OBVIOUS
  <2>1. InstallNative \/ Publish
    BY EndsByInstalling
  <2>2. driver.was = 0
    BY <2>1, InstallationDelivers DEF IInv, RunInv, ChosenInv
  <2> QED
    BY <2>1, <2>2, InstallationDelivers
<1> QED
  BY <1>1, Inductive, PTL DEF Spec, NextBringsSomething
=============================================================================
