-------------------------- MODULE StackBuildProofs --------------------------
(***************************************************************************)
(* Theorems about StackBuild, for every build order, dependency relation,  *)
(* number of versions and number of events.                                *)
(***************************************************************************)
EXTENDS StackBuild, TLAPS

-----------------------------------------------------------------------------
(***************************************************************************)
(* The inductive invariant: what is about to be pruned is older than some  *)
(* complete package that stays (unless everything was wiped meanwhile),    *)
(* and, on an rpm host where no write is cut short, every binary package   *)
(* on disk or installed has its source package.                            *)
(***************************************************************************)
PruneInv == driver.pc = "prune" =>
    \/ built[driver.pkg] = {}
    \/ \E w \in built[driver.pkg] \ driver.drop : \A v \in driver.drop : v < w

SourcesKept == Format = "rpm" /\ "tear" \notin Events

SourceInv == SourcesKept => \A p \in Names :
    /\ built[p] \subseteq source[p]
    /\ installed[p] # 0 => installed[p] \in source[p]
    /\ (driver.pc = "prune" /\ driver.pkg = p) => installed[p] \notin driver.drop

IInv == TypeOK /\ PruneInv /\ SourceInv

-----------------------------------------------------------------------------
\* The names are those of the order, each at one position.
LEMMA PositionIsIndex ==
    ASSUME NEW p \in Names
    PROVE  /\ Position(p) \in DOMAIN Order
           /\ Position(p) \in Nat
           /\ Order[Position(p)] = p
<1>1. \E i \in DOMAIN Order : Order[i] = p
  BY DEF Names
<1>2. Position(p) \in DOMAIN Order /\ Order[Position(p)] = p
  BY <1>1 DEF Position
<1>3. DOMAIN Order = 1 .. Len(Order) /\ Len(Order) \in Nat
  BY OrderAssumption
<1> QED
  BY <1>2, <1>3

LEMMA MetaIsName == Meta \in Names
<1>1. DOMAIN Order = 1 .. Len(Order) /\ Len(Order) \in Nat /\ Len(Order) # 0
  BY OrderAssumption
<1> QED
  BY <1>1 DEF Names, Meta

LEMMA IdleIsDriver == Idle \in Drivers
BY MetaIsName, HostAssumption DEF Idle, Drivers

\* Starting a step on p gives a well-formed driver and touches nothing else.
LEMMA BeginIsTyped ==
    ASSUME TypeOK, NEW p \in Names, NEW pc \in {"resolve", "compile", "install"},
           NEW c \in {"all", "build", "install"}, Begin(pc, c, p)
    PROVE  /\ driver' \in Drivers
           /\ driver'.pc = pc
           /\ driver'.pc \in {"compile", "pack", "mark", "source"} => driver'.version \in Versions
<1>1. recipe[p] \in Versions
  BY DEF TypeOK
<1> QED
  BY <1>1, HostAssumption DEF Begin, Drivers, Versions

LEMMA VisitIsTyped ==
    ASSUME TypeOK, NEW S, Visit(S)
    PROVE  marker' \in [Names -> 0 .. MaxVersion]
BY HostAssumption DEF Visit, TypeOK

-----------------------------------------------------------------------------
LEMMA InitEstablishes == Init => IInv
<1> SUFFICES ASSUME Init PROVE IInv
  OBVIOUS
<1>1. driver \in Drivers
  BY IdleIsDriver DEF Init
<1>2. TypeOK
  BY <1>1, HostAssumption DEF Init, TypeOK, Versions, Idle
<1> QED
  BY <1>2 DEF Init, IInv, PruneInv, SourceInv, Idle

LEMMA StartPreserves == ASSUME IInv, Start PROVE IInv'
<1> USE DEF IInv
<1>1. /\ UNCHANGED <<inputs, built, torn, source, host, result>>
      /\ marker' \in [Names -> 0 .. MaxVersion]
      /\ driver' \in Drivers
      /\ driver'.pc # "prune"
      /\ driver'.pc \in {"compile", "pack", "mark", "source"} => driver'.version \in Versions
  <2>1. CASE StartAll
    <3>1. Begin("resolve", "all", Meta) /\ marker' = marker
      BY <2>1 DEF StartAll
    <3> QED
      BY <3>1, MetaIsName, BeginIsTyped DEF Begin, TypeOK
  <2>2. CASE \E p \in Names : \/ StartBuild(p) \/ StartInstall(p)
                              \/ StartBuildNext(p) \/ StartInstallNext(p)
    <3>1. PICK p \in Names : \/ StartBuild(p) \/ StartInstall(p)
                             \/ StartBuildNext(p) \/ StartInstallNext(p)
      BY <2>2
    <3>2. \E pc \in {"compile", "install"} : \E c \in {"all", "build", "install"} :
              Begin(pc, c, p)
      BY <3>1 DEF StartBuild, StartInstall, StartBuildNext, StartInstallNext
    <3>3. marker' \in [Names -> 0 .. MaxVersion]
      BY <3>1, VisitIsTyped
      DEF StartBuild, StartInstall, StartBuildNext, StartInstallNext, TypeOK
    <3> QED
      BY <3>2, <3>3, BeginIsTyped DEF Begin
  <2> QED
    BY <2>1, <2>2 DEF Start
<1>2. TypeOK'
  BY <1>1 DEF TypeOK, inputs, host
<1>3. PruneInv' /\ SourceInv'
  BY <1>1 DEF PruneInv, SourceInv, host
<1> QED
  BY <1>2, <1>3
LEMMA ResolvePreserves == ASSUME IInv, Resolve PROVE IInv'
<1> USE DEF IInv
<1>1. /\ UNCHANGED <<inputs, built, torn, source, host>>
      /\ marker' \in [Names -> 0 .. MaxVersion]
      /\ driver' \in Drivers
      /\ driver'.pc # "prune"
      /\ driver'.pc \in {"compile", "pack", "mark", "source"} => driver'.version \in Versions
      /\ result' \in {"none", "ok", "done", "error", "killed"}
  <2>1. CASE ResolveNothing
    BY <2>1, IdleIsDriver, VisitIsTyped DEF ResolveNothing, End, Idle
  <2>2. CASE ResolveRaises
    BY <2>2, IdleIsDriver DEF ResolveRaises, End, Idle, TypeOK, disk
  <2>3. CASE \E p \in Names : ResolveInstall(p) \/ ResolveBuild(p)
    <3>1. PICK p \in Names : ResolveInstall(p) \/ ResolveBuild(p)
      BY <2>3
    <3>2. \E pc \in {"resolve", "compile", "install"} : Begin(pc, "all", p)
      BY <3>1 DEF ResolveInstall, ResolveBuild
    <3>3. marker' \in [Names -> 0 .. MaxVersion]
      BY <3>1, VisitIsTyped DEF ResolveInstall, ResolveBuild
    <3>4. driver'.pc # "prune"
      BY <3>1 DEF ResolveInstall, ResolveBuild, Begin
    <3> QED
      BY <3>2, <3>3, <3>4, BeginIsTyped DEF Begin, TypeOK
  <2> QED
    BY <2>1, <2>2, <2>3 DEF Resolve
<1>2. TypeOK'
  BY <1>1 DEF TypeOK, inputs, host
<1>3. PruneInv' /\ SourceInv'
  BY <1>1 DEF PruneInv, SourceInv, host
<1> QED
  BY <1>2, <1>3

\* Finishing a command or going to the next step keeps the driver well-formed.
LEMMA FinishIsTyped ==
    ASSUME TypeOK, Finish
    PROVE  /\ driver' \in Drivers
           /\ driver'.pc \in {"idle", "resolve"}
           /\ result' \in {"none", "ok", "done", "error", "killed"}
BY IdleIsDriver DEF Finish, End, Idle, Drivers, TypeOK

LEMMA GoToIsTyped ==
    ASSUME TypeOK, NEW pc \in {"pack", "mark", "source"}, GoTo(pc)
    PROVE  /\ driver' \in Drivers
           /\ driver'.pc = pc
           /\ driver'.version = driver.version
           /\ result' \in {"none", "ok", "done", "error", "killed"}
BY DEF GoTo, Drivers, TypeOK

LEMMA EndIsTyped ==
    ASSUME TypeOK, NEW r \in {"ok", "done", "error", "killed"}, End(r)
    PROVE  /\ driver' \in Drivers
           /\ driver'.pc = "idle"
           /\ result' \in {"none", "ok", "done", "error", "killed"}
BY IdleIsDriver DEF End, Idle

LEMMA CompilePreserves == ASSUME IInv, Compile PROVE IInv'
<1> USE DEF IInv
<1>1. GoTo("pack") /\ driver.pc = "compile" /\ UNCHANGED <<inputs, disk, host>>
  BY DEF Compile
<1>2. driver' \in Drivers /\ driver'.pc = "pack" /\ driver'.version = driver.version
      /\ result' \in {"none", "ok", "done", "error", "killed"}
  BY <1>1, GoToIsTyped
<1>3. TypeOK'
  BY <1>1, <1>2 DEF TypeOK, inputs, disk, host
<1> QED
  BY <1>1, <1>2, <1>3 DEF PruneInv, SourceInv, disk, host

LEMMA PackPreserves == ASSUME IInv, Pack PROVE IInv'
<1> USE DEF IInv
<1>1. /\ driver.pc = "pack" /\ driver.pkg \in Names /\ driver.version \in Versions
      /\ built' = [built EXCEPT ![driver.pkg] = @ \cup {driver.version}]
      /\ torn' = [torn EXCEPT ![driver.pkg] = @ \ {driver.version}]
      /\ source' = IF Format = "rpm"
                   THEN [source EXCEPT ![driver.pkg] = @ \cup {driver.version}] ELSE source
      /\ GoTo("mark")
      /\ UNCHANGED <<inputs, marker, host>>
  BY DEF Pack, TypeOK, Drivers
<1>2. driver' \in Drivers /\ driver'.pc = "mark" /\ driver'.version = driver.version
      /\ result' \in {"none", "ok", "done", "error", "killed"}
  BY <1>1, GoToIsTyped
<1>3. /\ built' \in [Names -> SUBSET Versions]
      /\ torn' \in [Names -> SUBSET Versions]
      /\ source' \in [Names -> SUBSET Versions]
      /\ \A p \in Names : built'[p] \cap torn'[p] = {}
  BY <1>1 DEF TypeOK
<1>4. TypeOK'
  BY <1>1, <1>2, <1>3 DEF TypeOK, inputs, host
<1>5. SourceInv'
  BY <1>1, <1>2 DEF SourceInv, SourcesKept, TypeOK, host
<1> QED
  BY <1>2, <1>4, <1>5 DEF PruneInv

LEMMA MarkPreserves == ASSUME IInv, Mark PROVE IInv'
<1> USE DEF IInv
<1>1. /\ driver.pc = "mark" /\ driver.pkg \in Names /\ driver.version \in Versions
      /\ marker' = [marker EXCEPT ![driver.pkg] = driver.version]
      /\ GoTo("source") \/ Finish
      /\ UNCHANGED <<inputs, built, torn, source, host>>
  BY DEF Mark, TypeOK, Drivers
<1>2. /\ driver' \in Drivers
      /\ driver'.pc \in {"source", "idle", "resolve"}
      /\ driver'.pc = "source" => driver'.version \in Versions
      /\ result' \in {"none", "ok", "done", "error", "killed"}
  BY <1>1, GoToIsTyped, FinishIsTyped
<1>3. marker' \in [Names -> 0 .. MaxVersion]
  BY <1>1, HostAssumption DEF TypeOK, Versions
<1>4. TypeOK'
  BY <1>1, <1>2, <1>3 DEF TypeOK, inputs, host
<1> QED
  BY <1>1, <1>2, <1>4 DEF PruneInv, SourceInv, host

LEMMA CreateSourcePreserves == ASSUME IInv, CreateSource PROVE IInv'
<1> USE DEF IInv
<1>1. /\ driver.pc = "source" /\ driver.pkg \in Names /\ driver.version \in Versions
      /\ source' = [source EXCEPT ![driver.pkg] = @ \cup {driver.version}]
      /\ Finish
      /\ UNCHANGED <<inputs, built, torn, marker, host>>
  BY DEF CreateSource, TypeOK, Drivers
<1>2. /\ driver' \in Drivers
      /\ driver'.pc \in {"idle", "resolve"}
      /\ result' \in {"none", "ok", "done", "error", "killed"}
  BY <1>1, FinishIsTyped
<1>3. source' \in [Names -> SUBSET Versions]
  BY <1>1 DEF TypeOK
<1>4. TypeOK'
  BY <1>1, <1>2, <1>3 DEF TypeOK, inputs, host
<1>5. SourceInv'
  BY <1>1, <1>2 DEF SourceInv, TypeOK, host
<1> QED
  BY <1>2, <1>4, <1>5 DEF PruneInv

LEMMA InstallPreserves == ASSUME IInv, Install PROVE IInv'
<1> USE DEF IInv
<1>1. PICK p \in Names, v \in Versions : InstallVersion(p, v)
  BY DEF Install
<1>2. /\ driver.pkg = p
      /\ v \in built[p]
      /\ v \in Candidates(p) /\ \A w \in Candidates(p) : w <= v
      /\ Candidates(p) \subseteq Versions
      /\ installed' = [installed EXCEPT ![p] = v]
      /\ registry' = registry \cup {p}
      /\ UNCHANGED <<inputs, disk, result>>
  BY <1>1 DEF InstallVersion, Accepts, IsNewest, Candidates, Artifacts, TypeOK
<1>3. /\ driver' \in Drivers
      /\ driver'.pc = "prune"
      /\ driver'.pkg = p
      /\ driver'.drop \subseteq Candidates(p) \ {v}
  <2>1. PICK drop \in {{}, IF p = Meta THEN {} ELSE Candidates(p) \ {v}} :
           driver' = [driver EXCEPT !.pc = "prune", !.drop = drop]
    BY <1>1 DEF InstallVersion
  <2>2. drop \subseteq Candidates(p) \ {v}
    BY <2>1
  <2>3. driver' = [driver EXCEPT !.pc = "prune", !.drop = drop] /\ drop \in SUBSET Versions
    BY <1>2, <2>1, <2>2
  <2> QED
    BY <1>2, <2>2, <2>3 DEF TypeOK, Drivers
<1>4. TypeOK'
  <2>1. installed' \in [Names -> 0 .. MaxVersion] /\ v # 0
    BY <1>2, HostAssumption DEF TypeOK, Versions
  <2>2. registry' \subseteq {q \in Names : installed'[q] # 0}
    BY <1>2, <2>1 DEF TypeOK
  <2> QED
    BY <1>2, <1>3, <2>1, <2>2 DEF TypeOK, inputs, disk
<1>5. PruneInv'
  <2>1. \A u \in driver'.drop : u < v
    BY <1>2, <1>3 DEF Versions
  <2> QED
    BY <1>2, <1>3, <2>1 DEF PruneInv, disk
<1>6. SourceInv'
  BY <1>2, <1>3 DEF SourceInv, TypeOK, disk
<1> QED
  BY <1>4, <1>5, <1>6

LEMMA PrunePreserves == ASSUME IInv, Prune PROVE IInv'
<1> USE DEF IInv
<1>1. /\ driver.pc = "prune" /\ driver.pkg \in Names
      /\ built' = [built EXCEPT ![driver.pkg] = @ \ driver.drop]
      /\ torn' = [torn EXCEPT ![driver.pkg] = @ \ driver.drop]
      /\ source' = IF Format = "rpm"
                   THEN [source EXCEPT ![driver.pkg] = @ \ driver.drop] ELSE source
      /\ Finish
      /\ UNCHANGED <<inputs, marker, host>>
  BY DEF Prune, TypeOK, Drivers
<1>2. /\ driver' \in Drivers
      /\ driver'.pc \in {"idle", "resolve"}
      /\ result' \in {"none", "ok", "done", "error", "killed"}
  BY <1>1, FinishIsTyped
<1>3. /\ built' \in [Names -> SUBSET Versions]
      /\ torn' \in [Names -> SUBSET Versions]
      /\ source' \in [Names -> SUBSET Versions]
      /\ \A p \in Names : built'[p] \cap torn'[p] = {}
  BY <1>1 DEF TypeOK
<1>4. TypeOK'
  BY <1>1, <1>2, <1>3 DEF TypeOK, inputs, host
<1>5. SourceInv'
  BY <1>1, <1>2 DEF SourceInv, TypeOK, host
<1> QED
  BY <1>2, <1>4, <1>5 DEF PruneInv

LEMMA InterruptedIsTyped ==
    ASSUME TypeOK, Interrupted
    PROVE  /\ built' \in [Names -> SUBSET Versions]
           /\ torn' \in [Names -> SUBSET Versions]
           /\ source' \in [Names -> SUBSET Versions]
           /\ \A p \in Names : built'[p] \cap torn'[p] = {}
           /\ SourcesKept => UNCHANGED <<built, source>>
<1>1. driver.pkg \in Names
  BY DEF TypeOK, Drivers
<1>2. CASE UNCHANGED <<built, torn, source>>
  BY <1>2 DEF TypeOK
<1>3. CASE ~UNCHANGED <<built, torn, source>>
  <2>1. "tear" \in Events /\ driver.version \in Versions
    BY <1>3 DEF Interrupted, TypeOK
  <2>2. \/ /\ built' = [built EXCEPT ![driver.pkg] = @ \ {driver.version}]
           /\ torn' = [torn EXCEPT ![driver.pkg] = @ \cup {driver.version}]
           /\ \/ source' = [source EXCEPT ![driver.pkg] = @ \cup {driver.version}]
              \/ source' = source
        \/ /\ source' = [source EXCEPT ![driver.pkg] = @ \ {driver.version}]
           /\ UNCHANGED <<built, torn>>
    BY <1>3 DEF Interrupted
  <2> QED
    BY <1>1, <2>1, <2>2 DEF TypeOK, SourcesKept
<1> QED
  BY <1>2, <1>3

LEMMA FailPreserves == ASSUME IInv, Fail \/ Kill PROVE IInv'
<1> USE DEF IInv
<1>1. /\ Interrupted
      /\ End("error") \/ End("killed")
      /\ UNCHANGED <<recipe, recipesOk, marker, host>>
      /\ events' \in 0 .. MaxEvents
  BY HostAssumption DEF Fail, Kill, Event, inputs, TypeOK
<1>2. /\ driver' \in Drivers
      /\ driver'.pc = "idle"
      /\ result' \in {"none", "ok", "done", "error", "killed"}
  BY <1>1, EndIsTyped
<1>3. TypeOK'
  BY <1>1, <1>2, InterruptedIsTyped DEF TypeOK, host
<1>4. SourceInv'
  BY <1>1, <1>2, InterruptedIsTyped DEF SourceInv, host
<1> QED
  BY <1>2, <1>3, <1>4 DEF PruneInv

LEMMA EnvironsPreserves == ASSUME IInv, Environs PROVE IInv'
<1> USE DEF IInv
<1>1. CASE Wipe
  <2>1. /\ built' = [p \in Names |-> {}] /\ torn' = [p \in Names |-> {}]
        /\ events' \in 0 .. MaxEvents
        /\ UNCHANGED <<recipe, recipesOk, marker, source, host, driver, result>>
    BY <1>1, HostAssumption DEF Wipe, Event, TypeOK
  <2>2. TypeOK'
    BY <2>1 DEF TypeOK, host
  <2>3. PruneInv'
    BY <2>1 DEF PruneInv, TypeOK, Drivers
  <2>4. SourceInv'
    BY <2>1 DEF SourceInv, host
  <2> QED
    BY <2>2, <2>3, <2>4
<1>2. CASE ToggleRecipes \/ \E p \in Names : Bump(p) \/ Revert(p)
  <2>1. /\ recipe' \in [Names -> Versions] /\ recipesOk' \in BOOLEAN
        /\ events' \in 0 .. MaxEvents
        /\ UNCHANGED <<disk, host, driver, result>>
    <3>1. CASE ToggleRecipes
      BY <3>1, HostAssumption DEF ToggleRecipes, Event, TypeOK
    <3>2. CASE \E p \in Names : Bump(p) \/ Revert(p)
      <4>1. PICK p \in Names : Bump(p) \/ Revert(p)
        BY <3>2
      <4>2. recipe[p] \in 1 .. MaxVersion
        BY DEF TypeOK, Versions
      <4>3. \/ recipe' = [recipe EXCEPT ![p] = @ + 1] /\ recipe[p] + 1 \in Versions
            \/ recipe' = [recipe EXCEPT ![p] = @ - 1] /\ recipe[p] - 1 \in Versions
        BY <4>1, <4>2, HostAssumption DEF Bump, Revert, Versions
      <4>4. recipe' \in [Names -> Versions]
        BY <4>3 DEF TypeOK
      <4> QED
        BY <4>1, <4>4, HostAssumption DEF Bump, Revert, Event, TypeOK
    <3> QED
      BY <1>2, <3>1, <3>2
  <2>2. TypeOK'
    BY <2>1 DEF TypeOK, disk, host
  <2> QED
    BY <2>1, <2>2 DEF PruneInv, SourceInv, disk, host
<1>3. CASE \E p \in Names : Remove(p) \/ Unregister(p)
  <2>1. PICK p \in Names : Remove(p) \/ Unregister(p)
    BY <1>3
  <2>2. /\ events' \in 0 .. MaxEvents
        /\ UNCHANGED <<recipe, recipesOk, disk, driver, result>>
    BY <2>1, HostAssumption DEF Remove, Unregister, Event, TypeOK
  <2>3. \E G \in SUBSET Names :
           /\ \/ installed' = [q \in Names |-> IF q \in G THEN 0 ELSE installed[q]]
              \/ installed' = installed
           /\ registry' \subseteq registry
           /\ \A q \in registry' : installed'[q] = installed[q]
    <3>1. CASE Remove(p)
      <4>1. NeededBy(p) \in SUBSET Names
        BY DEF NeededBy
      <4>2. \A q \in Names : q \notin NeededBy(p) => installed'[q] = installed[q]
        BY <3>1 DEF Remove
      <4> QED
        BY <3>1, <4>1, <4>2 DEF Remove, TypeOK
    <3>2. CASE Unregister(p)
      <4>1. {} \in SUBSET Names
        OBVIOUS
      <4> QED
        BY <3>2, <4>1 DEF Unregister
    <3> QED
      BY <2>1, <3>1, <3>2
  <2>4. /\ installed' \in [Names -> 0 .. MaxVersion]
        /\ \A q \in Names : installed'[q] \in {0, installed[q]}
        /\ registry' \subseteq {q \in Names : installed'[q] # 0}
    BY <2>3, HostAssumption DEF TypeOK
  <2>5. TypeOK'
    BY <2>2, <2>4 DEF TypeOK, disk
  <2>6. PruneInv'
    BY <2>2 DEF PruneInv, disk
  <2>7. SourceInv'
    <3>1. SUFFICES ASSUME SourcesKept, NEW q \in Names
                   PROVE  /\ built'[q] \subseteq source'[q]
                          /\ installed'[q] # 0 => installed'[q] \in source'[q]
                          /\ (driver'.pc = "prune" /\ driver'.pkg = q)
                                => installed'[q] \notin driver'.drop
      BY DEF SourceInv, SourcesKept
    <3>2. installed'[q] = 0 \/ installed'[q] = installed[q]
      BY <2>4
    <3>3. 0 \notin driver.drop
      BY DEF TypeOK, Drivers, Versions
    <3> QED
      BY <2>2, <3>1, <3>2, <3>3 DEF SourceInv, disk
  <2> QED
    BY <2>5, <2>6, <2>7
<1> QED
  BY <1>1, <1>2, <1>3 DEF Environs

LEMMA NextPreserves == ASSUME IInv, [Next]_vars PROVE IInv'
<1>1. CASE UNCHANGED vars
  BY <1>1 DEF IInv, TypeOK, PruneInv, SourceInv, vars
<1> QED
  BY <1>1, StartPreserves, ResolvePreserves, CompilePreserves, PackPreserves, MarkPreserves,
     CreateSourcePreserves, InstallPreserves, PrunePreserves, FailPreserves,
     EnvironsPreserves DEF Next

-----------------------------------------------------------------------------
\* The strengthening holds in every reachable state.
THEOREM Inductive == Spec => []IInv
BY InitEstablishes, NextPreserves, PTL DEF Spec

\* Every command leaves a well-formed state; in particular only installed
\* packages are registered, and a file is never complete and cut short at once.
THEOREM TypeCorrect == Spec => []TypeOK
<1>1. IInv => TypeOK
  BY DEF IInv
<1> QED
  BY <1>1, Inductive, PTL

\* On an rpm host, short of interrupted writes, every installed package has its
\* source package: rpmbuild -ba writes both, and pruning never takes away the
\* source of what is installed.
THEOREM SourcesStay ==
    ASSUME SourcesKept
    PROVE  Spec => []InstalledHasSource
<1>1. ASSUME IInv PROVE InstalledHasSource
  BY <1>1, SourcesKept DEF IInv, SourceInv, InstalledHasSource
<1> QED
  BY <1>1, Inductive, PTL

-----------------------------------------------------------------------------
\* One step of any kind takes a complete package away only when the whole tree
\* is wiped, when a rewrite of that very file is cut short, or in favour of a
\* newer complete package.
LEMMA StepKeepsFallback ==
    ASSUME IInv, [Next]_vars, NEW p \in Names, NEW v \in built[p] \ built'[p]
    PROVE  \/ \A q \in Names : built'[q] = {}
           \/ v \in torn'[p]
           \/ \E w \in built'[p] : w > v
<1> USE DEF IInv
<1>1. driver.pkg \in Names /\ v \in Versions
  BY DEF TypeOK, Drivers
<1>2. CASE Wipe
  BY <1>2 DEF Wipe
<1>3. CASE Pack
  BY <1>1, <1>3 DEF Pack, TypeOK
<1>4. CASE Prune
  <2>1. /\ driver.pc = "prune"
        /\ built' = [built EXCEPT ![driver.pkg] = @ \ driver.drop]
    BY <1>4 DEF Prune
  <2>2. p = driver.pkg /\ v \in driver.drop
    BY <1>1, <2>1 DEF TypeOK
  <2>3. PICK w \in built[p] \ driver.drop : v < w
    BY <2>1, <2>2 DEF PruneInv
  <2>4. w \in built'[p]
    BY <1>1, <2>1, <2>2, <2>3 DEF TypeOK
  <2>5. v \in Nat /\ w \in Nat
    BY <1>1, <2>3, HostAssumption DEF TypeOK, Versions
  <2> QED
    BY <2>3, <2>4, <2>5
<1>5. CASE Fail \/ Kill
  <2>1. Interrupted
    BY <1>5 DEF Fail, Kill
  <2>2. /\ built' = [built EXCEPT ![driver.pkg] = @ \ {driver.version}]
        /\ torn' = [torn EXCEPT ![driver.pkg] = @ \cup {driver.version}]
    BY <2>1 DEF Interrupted
  <2> QED
    BY <1>1, <2>2 DEF TypeOK
<1>6. CASE Start \/ Resolve
  BY <1>6 DEF Start, Resolve, StartAll, StartBuild, StartInstall, StartBuildNext,
     StartInstallNext, ResolveInstall, ResolveBuild, ResolveNothing, ResolveRaises, Begin, disk
<1>7. CASE Compile \/ Mark \/ CreateSource
  BY <1>7 DEF Compile, Mark, CreateSource, disk
<1>8. CASE Install
  BY <1>8 DEF Install, InstallVersion, disk
<1>9. CASE Environs
  BY <1>2, <1>9 DEF Environs, ToggleRecipes, Bump, Revert, Remove, Unregister, disk
<1>10. CASE UNCHANGED vars
  BY <1>10 DEF vars
<1> QED
  BY <1>2, <1>3, <1>4, <1>5, <1>6, <1>7, <1>8, <1>9, <1>10 DEF Next

\* What install_rpm and install_deb promise: an older package stays to fall
\* back on until a newer one is installed.
THEOREM FallbackStays == Spec => FallbackKept
<1>1. IInv /\ [Next]_vars =>
        [\A p \in Names : \A v \in built[p] \ built'[p] :
            \/ \A q \in Names : built'[q] = {}
            \/ v \in torn'[p]
            \/ \E w \in built'[p] : w > v]_vars
  BY StepKeepsFallback
<1> QED
  BY <1>1, Inductive, PTL DEF Spec, FallbackKept

-----------------------------------------------------------------------------
\* When nothing is left to install and p is the first package to build, what
\* the build of p needs has been built and registered before.
LEMMA FirstUnbuiltIsReady ==
    ASSUME TypeOK, Uninstalled = {}, NEW p \in Names, IsFirst(p, Unbuilt),
           NEW d \in BuildDeps[p]
    PROVE  d \in registry /\ installed[d] # 0
<1>1. d \in Names
  BY DepsAssumption
<1>2. Position(d) < Position(p)
  BY <1>1, PositionIsIndex, DepsAssumption
<1>3. d \notin Unbuilt
  BY <1>1, <1>2, PositionIsIndex DEF IsFirst
<1>4. d \in registry
  BY <1>1, <1>3 DEF Unbuilt, Uninstalled
<1> QED
  BY <1>4 DEF TypeOK

\* Only ResolveBuild makes the loop start a build.
LEMMA DecidesToBuild ==
    ASSUME TypeOK, Next, Decides("compile")
    PROVE  \E p \in Names : ResolveBuild(p) /\ driver'.pkg = p
<1>1. driver.pc = "resolve" /\ driver'.pc = "compile"
  BY DEF Decides
<1>2. ~Start /\ ~Compile /\ ~Pack /\ ~Mark /\ ~CreateSource /\ ~Install /\ ~Prune /\ ~Fail
  BY <1>1 DEF Start, StartAll, StartBuild, StartInstall, StartBuildNext, StartInstallNext,
     Compile, Pack, Mark, CreateSource, Install, InstallVersion, Prune, Fail
<1>3. ~Kill /\ ~ResolveNothing /\ ~ResolveRaises
  BY <1>1 DEF Kill, ResolveNothing, ResolveRaises, End, Idle
<1>4. ~Environs
  BY <1>1 DEF Environs, Wipe, ToggleRecipes, Bump, Revert, Remove, Unregister
<1>5. \A p \in Names : ~ResolveInstall(p)
  BY <1>1 DEF ResolveInstall, Begin
<1> QED
  BY <1>2, <1>3, <1>4, <1>5 DEF Next, Resolve, ResolveBuild, Begin

\* `scls build all' never starts a build whose dependencies are missing, for
\* every build order and whatever was interrupted, removed or unregistered.
THEOREM BuildsAreReady == Spec => BuildsInDependencyOrder
<1>1. ASSUME TypeOK, Next, Decides("compile")
      PROVE  \A d \in BuildDeps[driver'.pkg] : d \in registry /\ installed[d] # 0
  <2>1. PICK p \in Names : ResolveBuild(p) /\ driver'.pkg = p
    BY <1>1, DecidesToBuild
  <2>2. Uninstalled = {} /\ IsFirst(p, Unbuilt)
    BY <2>1 DEF ResolveBuild
  <2> QED
    BY <1>1, <2>1, <2>2, FirstUnbuiltIsReady
<1>2. TypeOK /\ [Next]_vars =>
        [Decides("compile") =>
            \A d \in BuildDeps[driver'.pkg] : d \in registry /\ installed[d] # 0]_vars
  BY <1>1
<1> QED
  BY <1>2, TypeCorrect, PTL DEF Spec, BuildsInDependencyOrder

\* "Done" is announced only by a turn that found nothing to do, or by one whose
\* resolver raised.
LEMMA DecidesToStop ==
    ASSUME TypeOK, Next, Decides("idle"), result' = "done"
    PROVE  ResolveNothing \/ ResolveRaises
<1>1. driver.pc = "resolve" /\ driver'.pc = "idle"
  BY DEF Decides
<1>2. ~Start /\ ~Compile /\ ~Pack /\ ~Mark /\ ~CreateSource /\ ~Install /\ ~Prune /\ ~Fail
  BY <1>1 DEF Start, StartAll, StartBuild, StartInstall, StartBuildNext, StartInstallNext,
     Compile, Pack, Mark, CreateSource, Install, InstallVersion, Prune, Fail
<1>3. ~Kill
  BY DEF Kill, End
<1>4. ~Environs
  BY <1>1 DEF Environs, Wipe, ToggleRecipes, Bump, Revert, Remove, Unregister
<1>5. \A p \in Names : ~ResolveInstall(p) /\ ~ResolveBuild(p)
  BY <1>1 DEF ResolveInstall, ResolveBuild, Begin
<1> QED
  BY <1>2, <1>3, <1>4, <1>5 DEF Next, Resolve

\* When the recipes can be read, "Done" means the whole list and the flavor's
\* meta-package are registered, and no marker outlives its artifact.
THEOREM DoneMeansComplete == Spec => DoneIsComplete
<1>1. ASSUME TypeOK, Next, Decides("idle"), result' = "done", recipesOk
      PROVE  /\ registry' = Names
             /\ \A p \in Names : marker'[p] # 0 => Artifacts(p)' # {}
  <2>1. ResolveNothing
    BY <1>1, DecidesToStop DEF ResolveRaises
  <2>2. /\ Uninstalled \cup Unbuilt = {}
        /\ marker' = [p \in Names |-> IF p \in Names /\ ~BuiltLocally(p) THEN 0 ELSE marker[p]]
        /\ UNCHANGED <<built, torn, registry>>
    BY <2>1 DEF ResolveNothing, Visit, host
  <2>3. Names \subseteq registry
    BY <2>2 DEF Uninstalled, Unbuilt
  <2>4. registry' = Names
    BY <1>1, <2>2, <2>3 DEF TypeOK
  <2>5. \A p \in Names : marker'[p] # 0 => Artifacts(p)' # {}
    BY <2>2 DEF BuiltLocally, Artifacts
  <2> QED
    BY <2>4, <2>5
<1>2. TypeOK /\ [Next]_vars =>
        [(Decides("idle") /\ result' = "done" /\ recipesOk) =>
            /\ registry' = Names
            /\ \A p \in Names : marker'[p] # 0 => Artifacts(p)' # {}]_vars
  BY <1>1
<1> QED
  BY <1>2, TypeCorrect, PTL DEF Spec, DoneIsComplete

-----------------------------------------------------------------------------
(***************************************************************************)
(* What an install delivers is not older than the last completed build.    *)
(* A marker whose packages were all deleted says nothing any more; `scls   *)
(* build <pkg>' does not look at it, the resolver deletes it on its way.   *)
(***************************************************************************)
Wipes == "wipe" \in Events

MarkersAreVisited == ~Wipes \/ "build" \notin Commands

\* What the marker of p names is on disk, or a newer one is.
Covered(p) ==
    \/ marker[p] = 0
    \/ \E w \in Artifacts(p) : w >= marker[p]
    \/ Wipes /\ Artifacts(p) = {}

\* The steps between a build and its marker, and between an install and its
\* pruning, keep it so.
BuildInv ==
    /\ (driver.pc \in {"compile", "pack"} /\ Wipes) => marker[driver.pkg] = 0
    /\ driver.pc = "mark" =>
          \/ driver.version \in Artifacts(driver.pkg)
          \/ Wipes /\ Artifacts(driver.pkg) = {}
    /\ driver.pc = "prune" =>
          \/ Wipes /\ Artifacts(driver.pkg) = {}
          \/ \E w \in built[driver.pkg] \ driver.drop : \A v \in driver.drop : v < w

MarkerInv == (\A p \in Names : Covered(p)) /\ BuildInv

LEMMA InitCovers == Init => MarkerInv
BY DEF Init, MarkerInv, Covered, BuildInv, Idle

\* A step that deletes markers at most and starts no build keeps the markers
\* covered.
LEMMA SameDiskCovers ==
    ASSUME TypeOK, MarkerInv, UNCHANGED <<built, torn>>,
           \A p \in Names : marker'[p] \in {0, marker[p]},
           driver'.pc \notin {"mark", "prune"},
           (driver'.pc \in {"compile", "pack"} /\ Wipes) => marker'[driver'.pkg] = 0
    PROVE  MarkerInv'
<1>1. \A p \in Names : Covered(p)'
  BY DEF MarkerInv, Covered, Artifacts
<1> QED
  BY <1>1 DEF MarkerInv, BuildInv

\* The resolver deletes the marker of the name it picks for a build.
LEMMA VisitClears ==
    ASSUME NEW p \in Names, NEW S, p \in S, ~BuiltLocally(p), Visit(S)
    PROVE  marker'[p] = 0
BY DEF Visit

LEMMA VisitDeletes ==
    ASSUME NEW S, Visit(S), NEW p \in Names
    PROVE  marker'[p] \in {0, marker[p]}
BY DEF Visit

LEMMA StartCovers == ASSUME MarkersAreVisited, TypeOK, MarkerInv, Start PROVE MarkerInv'
<1>1. CASE StartAll
  <2>1. /\ driver'.pc = "resolve" /\ UNCHANGED <<built, torn, marker>>
    BY <1>1 DEF StartAll, Begin
  <2> QED
    BY <2>1, SameDiskCovers
<1>2. CASE \E p \in Names : StartInstall(p) \/ StartInstallNext(p)
  <2>1. PICK p \in Names : StartInstall(p) \/ StartInstallNext(p)
    BY <1>2
  <2>2. driver'.pc = "install" /\ UNCHANGED <<built, torn>>
    BY <2>1 DEF StartInstall, StartInstallNext, Begin
  <2>3. \A q \in Names : marker'[q] \in {0, marker[q]}
    BY <2>1, VisitDeletes DEF StartInstall, StartInstallNext
  <2> QED
    BY <2>2, <2>3, SameDiskCovers
<1>3. CASE \E p \in Names : StartBuild(p)
  <2>1. PICK p \in Names : StartBuild(p)
    BY <1>3
  <2>2. driver'.pc = "compile" /\ UNCHANGED <<built, torn, marker>> /\ ~Wipes
    BY <2>1 DEF StartBuild, Begin, MarkersAreVisited
  <2> QED
    BY <2>2, SameDiskCovers
<1>4. CASE \E p \in Names : StartBuildNext(p)
  <2>1. PICK p \in Names : StartBuildNext(p)
    BY <1>4
  <2>2. /\ driver'.pc = "compile" /\ driver'.pkg = p /\ UNCHANGED <<built, torn>>
        /\ Visit(UpTo(p)) /\ p \in Unbuilt
    BY <2>1 DEF StartBuildNext, Begin, IsFirst
  <2>3. p \in UpTo(p)
    BY PositionIsIndex DEF UpTo
  <2>4. marker'[p] = 0
    BY <2>2, <2>3, VisitClears DEF Unbuilt
  <2>5. \A q \in Names : marker'[q] \in {0, marker[q]}
    BY <2>2, VisitDeletes
  <2> QED
    BY <2>2, <2>4, <2>5, SameDiskCovers
<1> QED
  BY <1>1, <1>2, <1>3, <1>4 DEF Start

LEMMA ResolveCovers == ASSUME TypeOK, MarkerInv, Resolve PROVE MarkerInv'
<1>1. CASE ResolveNothing \/ ResolveRaises
  <2>1. driver'.pc = "idle" /\ UNCHANGED <<built, torn>>
    BY <1>1 DEF ResolveNothing, ResolveRaises, End, Idle, disk
  <2>2. \A q \in Names : marker'[q] \in {0, marker[q]}
    BY <1>1, VisitDeletes DEF ResolveNothing, ResolveRaises, disk
  <2> QED
    BY <2>1, <2>2, SameDiskCovers
<1>2. CASE \E p \in Names : ResolveInstall(p)
  <2>1. PICK p \in Names : ResolveInstall(p)
    BY <1>2
  <2>2. driver'.pc = "install" /\ UNCHANGED <<built, torn>>
    BY <2>1 DEF ResolveInstall, Begin
  <2>3. \A q \in Names : marker'[q] \in {0, marker[q]}
    BY <2>1, VisitDeletes DEF ResolveInstall
  <2> QED
    BY <2>2, <2>3, SameDiskCovers
<1>3. CASE \E p \in Names : ResolveBuild(p)
  <2>1. PICK p \in Names : ResolveBuild(p)
    BY <1>3
  <2>2. /\ driver'.pc = "compile" /\ driver'.pkg = p /\ UNCHANGED <<built, torn>>
        /\ Visit(Names) /\ p \in Unbuilt
    BY <2>1 DEF ResolveBuild, Begin, IsFirst
  <2>3. marker'[p] = 0
    BY <2>2, VisitClears DEF Unbuilt
  <2>4. \A q \in Names : marker'[q] \in {0, marker[q]}
    BY <2>2, VisitDeletes
  <2> QED
    BY <2>2, <2>3, <2>4, SameDiskCovers
<1> QED
  BY <1>1, <1>2, <1>3 DEF Resolve

\* A step that only adds to the artifacts of names without a marker keeps the
\* markers covered.
LEMMA PackCovers == ASSUME TypeOK, MarkerInv, Pack PROVE MarkerInv'
<1>1. /\ driver.pc = "pack" /\ driver.pkg \in Names
      /\ built' = [built EXCEPT ![driver.pkg] = @ \cup {driver.version}]
      /\ torn' = [torn EXCEPT ![driver.pkg] = @ \ {driver.version}]
      /\ driver' = [driver EXCEPT !.pc = "mark"]
      /\ UNCHANGED marker
  BY DEF Pack, GoTo, TypeOK, Drivers
<1>2. driver'.pc = "mark" /\ driver'.pkg = driver.pkg /\ driver'.version = driver.version
  BY <1>1 DEF TypeOK, Drivers
<1>3. /\ Artifacts(driver.pkg)' = Artifacts(driver.pkg) \cup {driver.version}
      /\ \A p \in Names \ {driver.pkg} : Artifacts(p)' = Artifacts(p)
  BY <1>1, <1>2 DEF Artifacts, TypeOK
<1>4. \A p \in Names : Covered(p)'
  BY <1>1, <1>2, <1>3 DEF MarkerInv, BuildInv, Covered
<1> QED
  BY <1>1, <1>2, <1>3, <1>4 DEF MarkerInv, BuildInv

LEMMA MarkCovers == ASSUME TypeOK, MarkerInv, Mark PROVE MarkerInv'
<1>1. /\ driver.pc = "mark" /\ driver.pkg \in Names /\ driver.version \in Versions
      /\ marker' = [marker EXCEPT ![driver.pkg] = driver.version]
      /\ UNCHANGED <<built, torn>>
      /\ GoTo("source") \/ Finish
  BY DEF Mark, TypeOK, Drivers
<1>2. driver'.pc \in {"source", "idle", "resolve"}
  BY <1>1, GoToIsTyped, FinishIsTyped
<1>3. driver.version \in Nat
  BY <1>1, HostAssumption DEF Versions
<1>4. \A p \in Names : Covered(p)'
  BY <1>1, <1>3 DEF MarkerInv, BuildInv, Covered, Artifacts, TypeOK
<1> QED
  BY <1>2, <1>4 DEF MarkerInv, BuildInv

\* The newest file is the one installed, so it covers what the marker names.
LEMMA InstallCovers == ASSUME TypeOK, MarkerInv, Install PROVE MarkerInv'
<1>1. PICK p \in Names, v \in Versions : InstallVersion(p, v)
  BY DEF Install
<1>2. PICK drop \in {{}, IF p = Meta THEN {} ELSE Candidates(p) \ {v}} :
         driver' = [driver EXCEPT !.pc = "prune", !.drop = drop]
  BY <1>1 DEF InstallVersion
<1>3. /\ driver'.pc = "prune" /\ driver'.pkg = p /\ driver'.drop \subseteq Candidates(p) \ {v}
      /\ v \in built[p] /\ \A w \in Candidates(p) : w <= v
      /\ UNCHANGED <<built, torn, marker>>
  BY <1>1, <1>2 DEF InstallVersion, Accepts, IsNewest, TypeOK, Drivers, disk
<1>4. \A u \in driver'.drop : u < v
  <2>1. Candidates(p) \subseteq Nat /\ v \in Nat
    BY HostAssumption DEF Candidates, Artifacts, TypeOK, Versions
  <2> QED
    BY <1>3, <2>1
<1>5. \A q \in Names : Covered(q)'
  BY <1>3 DEF MarkerInv, Covered, Artifacts
<1> QED
  BY <1>3, <1>4, <1>5 DEF MarkerInv, BuildInv

LEMMA PruneCovers == ASSUME TypeOK, MarkerInv, Prune PROVE MarkerInv'
<1>1. PICK p \in Names : p = driver.pkg
  BY DEF TypeOK, Drivers
<1>2. /\ driver.pc = "prune"
      /\ built' = [built EXCEPT ![p] = @ \ driver.drop]
      /\ torn' = [torn EXCEPT ![p] = @ \ driver.drop]
      /\ UNCHANGED marker
      /\ Finish
  BY <1>1 DEF Prune
<1>3. driver'.pc \in {"idle", "resolve"}
  BY <1>2, FinishIsTyped
<1>4. Covered(p)'
  <2>1. Artifacts(p)' = Artifacts(p) \ driver.drop
    BY <1>2 DEF Artifacts, TypeOK
  <2>2. CASE Wipes /\ Artifacts(p) = {}
    BY <2>1, <2>2 DEF Covered
  <2>3. CASE \E w \in built[p] \ driver.drop : \A v \in driver.drop : v < w
    <3>1. PICK w \in built[p] \ driver.drop : \A v \in driver.drop : v < w
      BY <2>3
    <3>2. /\ w \in Artifacts(p)' /\ w \in Artifacts(p) /\ Artifacts(p) \subseteq Nat
          /\ marker[p] \in Nat /\ marker'[p] = marker[p]
      BY <1>2, <2>1, <3>1, HostAssumption DEF Artifacts, TypeOK, Versions
    <3>3. CASE marker[p] = 0
      BY <3>2, <3>3 DEF Covered
    <3>4. CASE marker[p] # 0
      <4>1. PICK u \in Artifacts(p) : u >= marker[p]
        BY <3>2, <3>4 DEF MarkerInv, Covered
      <4>2. u \in Artifacts(p)' \/ u < w
        BY <2>1, <3>1, <4>1
      <4>3. u \in Nat /\ w \in Nat
        BY <3>2, <4>1
      <4>4. u \in Artifacts(p)' \/ w >= marker[p]
        BY <3>2, <4>1, <4>2, <4>3
      <4> QED
        BY <3>2, <4>1, <4>4 DEF Covered
    <3> QED
      BY <3>3, <3>4
  <2> QED
    BY <1>1, <1>2, <2>2, <2>3 DEF MarkerInv, BuildInv
<1>5. \A q \in Names \ {p} : Covered(q)'
  BY <1>2 DEF MarkerInv, Covered, Artifacts, TypeOK
<1> QED
  BY <1>3, <1>4, <1>5 DEF MarkerInv, BuildInv

\* An interrupted write leaves at least as many files.
LEMMA FailCovers == ASSUME TypeOK, MarkerInv, Fail \/ Kill PROVE MarkerInv'
<1>1. Interrupted /\ UNCHANGED marker /\ driver'.pc = "idle"
  BY DEF Fail, Kill, End, Idle
<1>2. CASE UNCHANGED <<built, torn>>
  BY <1>1, <1>2, SameDiskCovers
<1>3. CASE ~UNCHANGED <<built, torn>>
  <2>1. PICK p \in Names : p = driver.pkg
    BY DEF TypeOK, Drivers
  <2>2. /\ driver.pc = "pack"
        /\ built' = [built EXCEPT ![p] = @ \ {driver.version}]
        /\ torn' = [torn EXCEPT ![p] = @ \cup {driver.version}]
    BY <1>1, <1>3, <2>1 DEF Interrupted
  <2>3. /\ Artifacts(p)' = Artifacts(p) \cup {driver.version}
        /\ \A q \in Names \ {p} : Artifacts(q)' = Artifacts(q)
    BY <2>2 DEF TypeOK, Artifacts
  <2>4. \A q \in Names : Covered(q)'
    BY <1>1, <2>1, <2>2, <2>3 DEF MarkerInv, BuildInv, Covered
  <2> QED
    BY <1>1, <2>4 DEF MarkerInv, BuildInv
<1> QED
  BY <1>2, <1>3

LEMMA EnvironsCovers == ASSUME TypeOK, MarkerInv, Environs PROVE MarkerInv'
<1>1. CASE Wipe
  <2>1. /\ Wipes
        /\ driver.pc \notin {"compile", "pack"}
        /\ \A p \in Names : Artifacts(p)' = {}
        /\ UNCHANGED <<marker, driver>>
    BY <1>1 DEF Wipe, Event, Wipes, Artifacts
  <2>2. \A p \in Names : Covered(p)'
    BY <2>1 DEF Covered
  <2>3. BuildInv'
    BY <2>1 DEF BuildInv, TypeOK, Drivers
  <2> QED
    BY <2>2, <2>3 DEF MarkerInv
<1>2. CASE UNCHANGED <<built, torn, marker, driver>>
  BY <1>2 DEF MarkerInv, Covered, BuildInv, Artifacts
<1> QED
  BY <1>1, <1>2 DEF Environs, ToggleRecipes, Bump, Revert, Remove, Unregister, disk

LEMMA NextCovers ==
    ASSUME MarkersAreVisited, TypeOK, MarkerInv, [Next]_vars
    PROVE  MarkerInv'
<1>1. CASE Compile
  <2>1. /\ driver.pc = "compile" /\ UNCHANGED <<built, torn, marker>>
        /\ driver'.pc = "pack" /\ driver'.pkg = driver.pkg
    BY <1>1 DEF Compile, GoTo, disk, TypeOK, Drivers
  <2> QED
    BY <2>1, SameDiskCovers DEF MarkerInv, BuildInv
<1>2. CASE CreateSource
  <2>1. Finish /\ UNCHANGED <<built, torn, marker>>
    BY <1>2 DEF CreateSource
  <2>2. driver'.pc \in {"idle", "resolve"}
    BY <2>1, FinishIsTyped
  <2> QED
    BY <2>1, <2>2, SameDiskCovers
<1>3. CASE UNCHANGED vars
  BY <1>3 DEF vars, MarkerInv, Covered, BuildInv, Artifacts
<1> QED
  BY <1>1, <1>2, <1>3, StartCovers, ResolveCovers, PackCovers, MarkCovers, InstallCovers,
     PruneCovers, FailCovers, EnvironsCovers DEF Next

\* In every reachable state each marker is backed by a package on disk at least
\* as new, or by none at all after an `rm -rf'.
THEOREM MarkersAreCovered ==
    ASSUME MarkersAreVisited
    PROVE  Spec => []MarkerInv
<1>1. TypeOK /\ TypeOK' /\ MarkerInv /\ [Next]_vars => MarkerInv'
  BY MarkersAreVisited, NextCovers
<1> QED
  BY <1>1, InitCovers, TypeCorrect, PTL DEF Spec

\* Installed versions change by installing or by removing.
LEMMA OnlyInstallDelivers ==
    ASSUME [Next]_vars, NEW p \in Names, installed'[p] \notin {0, installed[p]}
    PROVE  Install
<1>1. ASSUME Environs PROVE FALSE
  <2>1. \A q \in Names : ~Remove(q)
    BY DEF Remove
  <2> QED
    BY <1>1, <2>1 DEF Environs, Wipe, ToggleRecipes, Bump, Revert, Unregister, host
<1>2. ~Start /\ ~Resolve
  BY DEF Start, Resolve, StartAll, StartBuild, StartInstall, StartBuildNext,
     StartInstallNext, ResolveInstall, ResolveBuild, ResolveNothing, ResolveRaises, Begin, host
<1>3. ~Compile /\ ~Pack /\ ~Mark /\ ~CreateSource /\ ~Prune /\ ~Fail /\ ~Kill
  BY DEF Compile, Pack, Mark, CreateSource, Prune, Fail, Kill, host
<1> QED
  BY <1>1, <1>2, <1>3 DEF Next, vars

LEMMA InstallIsNotOlder ==
    ASSUME TypeOK, MarkerInv, [Next]_vars, NEW p \in Names,
           installed'[p] \notin {0, installed[p]}
    PROVE  installed'[p] >= marker[p]
<1>1. PICK q \in Names, v \in Versions : InstallVersion(q, v)
  BY OnlyInstallDelivers DEF Install
<1>2. /\ installed' = [installed EXCEPT ![q] = v]
      /\ v \in Candidates(q) /\ \A w \in Candidates(q) : w <= v
      /\ v \in built[q]
      /\ Format = "rpm" => torn[q] = {}
  BY <1>1 DEF InstallVersion, IsNewest, Accepts
<1>3. p = q /\ installed'[p] = v
  BY <1>2 DEF TypeOK
<1>4. Candidates(p) = Artifacts(p)
  BY <1>2, <1>3, HostAssumption DEF Candidates, Artifacts
<1>5. marker[p] = 0 \/ \E w \in Artifacts(p) : w >= marker[p]
  BY <1>2, <1>3 DEF MarkerInv, Covered, Artifacts
<1>6. marker[p] \in Nat /\ v \in Nat /\ Artifacts(p) \subseteq Nat
  BY HostAssumption DEF TypeOK, Versions, Artifacts
<1> QED
  BY <1>2, <1>3, <1>4, <1>5, <1>6

\* What is installed is never older than what the last completed build of the
\* package left, for any interleaving of builds, installs, prunings, kills, torn
\* writes, upgrades and reverts.
THEOREM InstallsAreNotOlder ==
    ASSUME MarkersAreVisited
    PROVE  Spec => InstallNotOlderThanBuild
<1>1. TypeOK /\ MarkerInv /\ [Next]_vars =>
        [\A p \in Names : installed'[p] \notin {0, installed[p]} =>
            installed'[p] >= marker[p]]_vars
  BY InstallIsNotOlder
<1>2. Spec => []MarkerInv
  BY MarkersAreVisited, MarkersAreCovered
<1> QED
  BY <1>1, <1>2, TypeCorrect, PTL DEF Spec, InstallNotOlderThanBuild

-----------------------------------------------------------------------------
(***************************************************************************)
(* StackBuild implements PackagingHost: each step that touches packages,   *)
(* host or registry is one action there, all others are stutters.          *)
(***************************************************************************)
LEMMA WorksIsBuild ==
    ASSUME TypeOK, driver.pc = "pack"
    PROVE  /\ InTheWorks = [pkg |-> driver.pkg, version |-> driver.version]
           /\ driver.pkg \in Names /\ driver.version \in Versions
BY DEF InTheWorks, TypeOK, Drivers

LEMMA InitKeepsHost == Init => Managed!Init
BY DEF Init, Managed!Init, InTheWorks, Idle

LEMMA CompilingBegins == ASSUME TypeOK, Compile PROVE Managed!Next
<1> DEFINE p == driver.pkg
           v == driver.version
<1>1. /\ driver.pc = "compile" /\ p \in Names /\ v \in Versions
      /\ \A d \in BuildDeps[p] : DependencyThere(d)
      /\ driver' = [driver EXCEPT !.pc = "pack"]
      /\ UNCHANGED <<built, installed, registry>>
  BY DEF Compile, DependenciesThere, GoTo, disk, host, TypeOK, Drivers
<1>2. InTheWorks = NoBuild /\ InTheWorks' = [pkg |-> p, version |-> v]
  BY <1>1 DEF InTheWorks, TypeOK, Drivers
\* An entry is shipped by an installed package; the rest is what the host has.
<1>3. \A d \in BuildDeps[p] :
        installed[d] # 0 \/ d \in (IF Format = "rpm" THEN {} ELSE HostPc)
  BY <1>1 DEF DependencyThere, TypeOK
<1>4. Managed!Begin(p, v)
  BY <1>1, <1>2, <1>3 DEF Managed!Begin
<1> QED
  BY <1>1, <1>4 DEF Managed!Next

LEMMA PackingCompletes == ASSUME TypeOK, Pack PROVE Managed!Next
<1> DEFINE p == driver.pkg
           v == driver.version
<1>1. /\ driver.pc = "pack" /\ driver'.pc = "mark"
      /\ built' = [built EXCEPT ![p] = @ \cup {v}]
      /\ UNCHANGED <<installed, registry>>
  BY DEF Pack, GoTo, host, TypeOK, Drivers
<1>2. InTheWorks' = NoBuild
  BY <1>1 DEF InTheWorks
<1>3. Managed!Complete(p, v)
  BY <1>1, <1>2, WorksIsBuild DEF Managed!Complete
<1> QED
  BY <1>1, <1>3, WorksIsBuild DEF Managed!Next

\* A command that ends early stops the build whose package is being written, and
\* may leave no complete file of that version.
LEMMA StoppingBreaksOff ==
    ASSUME TypeOK, Fail \/ Kill PROVE Managed!Next \/ UNCHANGED Managed!vars
<1> DEFINE p == driver.pkg
           v == driver.version
<1>1. Interrupted /\ driver' = Idle /\ UNCHANGED <<installed, registry>>
  BY DEF Fail, Kill, End, host
<1>2. InTheWorks' = NoBuild
  BY <1>1 DEF InTheWorks, Idle
<1>3. CASE driver.pc = "pack"
  <2>1. built' \in {built, [built EXCEPT ![p] = @ \ {v}]}
    BY <1>1 DEF Interrupted
  <2>2. Managed!BreakOff(p, v)
    BY <1>1, <1>2, <1>3, <2>1, WorksIsBuild DEF Managed!BreakOff
  <2> QED
    BY <1>3, <2>2, WorksIsBuild DEF Managed!Next
<1>4. CASE driver.pc # "pack"
  <2>1. built' = built /\ InTheWorks = NoBuild
    BY <1>1, <1>4 DEF Interrupted, InTheWorks
  <2> QED
    BY <1>1, <1>2, <2>1 DEF Managed!vars
<1> QED
  BY <1>3, <1>4

\* On a deb host install takes the newest file, complete or not, and goes through
\* only if it is complete; on an rpm host it takes the newest complete one.
LEMMA InstallingDelivers == ASSUME TypeOK, Install PROVE Managed!Next
<1>1. PICK p \in Names, v \in Versions : InstallVersion(p, v)
  BY DEF Install
<1>2. /\ driver.pc = "install" /\ driver'.pc = "prune"
      /\ IsNewest(v, Candidates(p)) /\ Accepts(p, v)
      /\ installed' = [installed EXCEPT ![p] = v]
      /\ registry' = registry \cup {p}
      /\ built' = built
  <2>1. PICK drop \in {{}, IF p = Meta THEN {} ELSE Candidates(p) \ {v}} :
           driver' = [driver EXCEPT !.pc = "prune", !.drop = drop]
    BY <1>1 DEF InstallVersion
  <2> QED
    BY <1>1, <2>1 DEF InstallVersion, disk, TypeOK, Drivers
<1>3. built[p] \subseteq Candidates(p)
  BY DEF Candidates, Artifacts
<1>4. v \in built[p] /\ \A w \in built[p] : w <= v
  BY <1>2, <1>3 DEF IsNewest, Accepts
<1>5. Format = "rpm" \/ installed[p] <= v
  BY <1>2, HostAssumption DEF Accepts
<1>6. InTheWorks = NoBuild /\ InTheWorks' = NoBuild
  BY <1>2 DEF InTheWorks
<1>7. Managed!Deliver(p, v)
  BY <1>2, <1>4, <1>5, <1>6 DEF Managed!Deliver, Accepts
<1> QED
  BY <1>7 DEF Managed!Next

LEMMA PruningSupersedes ==
    ASSUME TypeOK, PruneInv, Prune PROVE Managed!Next \/ UNCHANGED Managed!vars
<1> DEFINE p == driver.pkg
           old == built[p] \cap driver.drop
<1>1. /\ driver.pc = "prune" /\ p \in Names /\ driver.drop \subseteq Versions
      /\ driver'.pc \in {"idle", "resolve"}
      /\ built' = [built EXCEPT ![p] = @ \ driver.drop]
      /\ UNCHANGED <<installed, registry>>
  BY FinishIsTyped DEF Prune, host, TypeOK, Drivers
<1>2. InTheWorks = NoBuild /\ InTheWorks' = NoBuild
  BY <1>1 DEF InTheWorks
<1>3. CASE built[p] = {}
  <2>1. built' = built
    BY <1>1, <1>3 DEF TypeOK
  <2> QED
    BY <1>1, <1>2, <2>1 DEF Managed!vars
<1>4. CASE built[p] # {}
  <2>1. PICK w \in built[p] \ driver.drop : \A v \in driver.drop : v < w
    BY <1>1, <1>4 DEF PruneInv
  <2>2. old \in SUBSET {v \in built[p] : v < w} /\ w \in Versions
    BY <1>1, <2>1 DEF TypeOK
  <2>3. built' = [built EXCEPT ![p] = @ \ old]
    BY <1>1 DEF TypeOK
  <2>4. Managed!Supersede(p, w)
    BY <1>1, <1>2, <2>1, <2>2, <2>3 DEF Managed!Supersede
  <2> QED
    BY <1>1, <2>2, <2>4 DEF Managed!Next
<1> QED
  BY <1>3, <1>4

\* What needs one of them is one of them.
LEMMA DependentsAreClosed ==
    ASSUME NEW p \in Names, NEW q \in Names, RunDeps[q] \cap NeededBy(p) # {}
    PROVE  q \in NeededBy(p)
<1>1. PICK d \in RunDeps[q] : d \in NeededBy(p)
  OBVIOUS
<1>2. ASSUME NEW S \in SUBSET Names, p \in S,
             \A r \in Names : RunDeps[r] \cap S # {} => r \in S
      PROVE  q \in S
  <2>1. d \in S
    BY <1>1, <1>2 DEF NeededBy
  <2> QED
    BY <1>2, <2>1
<1> QED
  BY <1>2 DEF NeededBy

LEMMA RemovingWithdraws == ASSUME TypeOK, NEW p \in Names, Remove(p) PROVE Managed!Next
<1>1. /\ installed' = [q \in Names |-> IF q \in NeededBy(p) THEN 0 ELSE installed[q]]
      /\ registry' = registry \ NeededBy(p)
      /\ UNCHANGED <<built, driver>>
  BY DEF Remove, disk
<1>2. InTheWorks' = InTheWorks
  BY <1>1 DEF InTheWorks
<1>3. Managed!Withdraw(NeededBy(p))
  BY <1>1, <1>2, DependentsAreClosed DEF Managed!Withdraw
<1>4. NeededBy(p) \in SUBSET Names
  BY DEF NeededBy
<1> QED
  BY <1>3, <1>4 DEF Managed!Next

LEMMA EnvironsKeepHost ==
    ASSUME TypeOK, Environs PROVE Managed!Next \/ UNCHANGED Managed!vars
<1>1. CASE Wipe
  <2>1. /\ driver.pc \notin {"compile", "pack"} /\ built' = [p \in Names |-> {}]
        /\ UNCHANGED <<installed, registry, driver>>
    BY <1>1 DEF Wipe, host
  <2>2. InTheWorks = NoBuild /\ InTheWorks' = NoBuild
    BY <2>1 DEF InTheWorks
  <2>3. Managed!Wipe
    BY <2>1, <2>2 DEF Managed!Wipe
  <2> QED
    BY <2>3 DEF Managed!Next
<1>2. CASE ToggleRecipes \/ \E p \in Names : Bump(p) \/ Revert(p)
  <2>1. UNCHANGED <<built, installed, registry, driver>>
    BY <1>2 DEF ToggleRecipes, Bump, Revert, disk, host
  <2> QED
    BY <2>1 DEF Managed!vars, InTheWorks
<1>3. ASSUME NEW p \in Names, Unregister(p) PROVE Managed!Next
  <2>1. registry' = registry \ {p} /\ UNCHANGED <<built, installed, driver>>
    BY <1>3 DEF Unregister, disk
  <2>2. Managed!Unregister(p)
    BY <2>1 DEF Managed!Unregister, InTheWorks
  <2> QED
    BY <2>2 DEF Managed!Next
<1> QED
  BY <1>1, <1>2, <1>3, RemovingWithdraws DEF Environs

\* Commands that begin or end and resolvers touch markers and driver only, and a
\* build that waits for its needs has not begun.
LEMMA OtherStepsStutter ==
    ASSUME TypeOK, Start \/ Resolve \/ Mark \/ CreateSource \/ UNCHANGED vars
    PROVE  UNCHANGED Managed!vars
<1>1. UNCHANGED <<built, installed, registry>>
  BY DEF Start, StartAll, StartBuild, StartInstall, StartBuildNext, StartInstallNext, Begin,
     Resolve, ResolveNothing, ResolveRaises, ResolveInstall, ResolveBuild, Mark, CreateSource,
     vars, host, disk
<1>2. CASE Start \/ Resolve \/ Mark \/ CreateSource
  <2>1. driver.pc # "pack"
    BY <1>2 DEF Start, StartAll, StartBuild, StartInstall, StartBuildNext, StartInstallNext,
       Resolve, ResolveNothing, ResolveRaises, ResolveInstall, ResolveBuild, Mark, CreateSource
  <2>2. driver'.pc # "pack"
    BY <1>2, FinishIsTyped, GoToIsTyped
    DEF Start, StartAll, StartBuild, StartInstall, StartBuildNext, StartInstallNext, Begin, End,
       Idle, Resolve, ResolveNothing, ResolveRaises, ResolveInstall, ResolveBuild, Mark,
       CreateSource
  <2> QED
    BY <1>1, <2>1, <2>2 DEF Managed!vars, InTheWorks
<1>3. CASE UNCHANGED vars
  BY <1>1, <1>3 DEF vars, Managed!vars, InTheWorks
<1> QED
  BY <1>2, <1>3

LEMMA StepKeepsHost == ASSUME IInv, [Next]_vars PROVE [Managed!Next]_(Managed!vars)
<1>1. TypeOK /\ PruneInv
  BY DEF IInv
<1> QED
  BY <1>1, CompilingBegins, PackingCompletes, StoppingBreaksOff, InstallingDelivers,
     PruningSupersedes, EnvironsKeepHost, OtherStepsStutter DEF Next

\* The scls script, its resolvers and the builders keep a packaging host as its
\* abstract specification says: under any commands, whatever fails, is killed, cut
\* short, wiped, removed or unregistered, builds begin only where the package
\* database has what they need or (deb) the host has a pkg-config file for it,
\* installations take the newest complete package and find what they require, and
\* pruning leaves a complete newer package.
THEOREM StackKeepsHost == Spec => KeepsHost
<1>1. IInv /\ [Next]_vars => [Managed!Next]_(Managed!vars)
  BY StepKeepsHost
<1> QED
  BY <1>1, InitKeepsHost, Inductive, PTL DEF Spec, KeepsHost, Managed!Spec

=============================================================================
