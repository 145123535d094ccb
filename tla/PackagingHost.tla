--------------------------- MODULE PackagingHost ---------------------------
(***************************************************************************)
(* What `scls build' and `scls install' promise of a packaging host,       *)
(* without commands, resolvers, markers and pruning: a build begins only   *)
(* where the package database has what it needs, or the host provides it   *)
(* (the registry is not asked); an installation takes the newest           *)
(* complete package, and only where what it requires is installed; a       *)
(* package file goes only because a complete newer one stays, because the  *)
(* build that writes it breaks off, or with all others; and what is        *)
(* removed from the host takes its dependents along.                       *)
(***************************************************************************)
EXTENDS Naturals

CONSTANTS
    Names, Versions,
    BuildNeeds,    \* name -> the names its build needs
    RunNeeds,      \* name -> the names its installation needs
    External,      \* names a build may find on the host instead
    Downgrades,    \* whether an older version may replace a newer one
    Nothing        \* the value of building when nothing is built

VARIABLES
    packages,      \* name -> the versions whose package is complete
    building,      \* the package and version in the works
    installed,     \* name -> the version installed, or 0
    registered     \* the names with an entry in the registry

vars == <<packages, building, installed, registered>>

Init ==
    /\ packages = [p \in Names |-> {}]
    /\ building = Nothing
    /\ installed = [p \in Names |-> 0]
    /\ registered = {}

Begin(p, v) ==
    /\ building = Nothing
    /\ \A d \in BuildNeeds[p] : installed[d] # 0 \/ d \in External
    /\ building' = [pkg |-> p, version |-> v]
    /\ UNCHANGED <<packages, installed, registered>>

Complete(p, v) ==
    /\ building = [pkg |-> p, version |-> v]
    /\ packages' = [packages EXCEPT ![p] = @ \cup {v}]
    /\ building' = Nothing
    /\ UNCHANGED <<installed, registered>>

BreakOff(p, v) ==
    /\ building = [pkg |-> p, version |-> v]
    /\ packages' \in {packages, [packages EXCEPT ![p] = @ \ {v}]}
    /\ building' = Nothing
    /\ UNCHANGED <<installed, registered>>

Deliver(p, v) ==
    /\ building = Nothing
    /\ v \in packages[p] /\ \A w \in packages[p] : w <= v
    /\ Downgrades \/ installed[p] <= v
    /\ \A d \in RunNeeds[p] : installed[d] # 0
    /\ installed' = [installed EXCEPT ![p] = v]
    /\ registered' = registered \cup {p}
    /\ UNCHANGED <<packages, building>>

Supersede(p, v) ==
    /\ building = Nothing
    /\ v \in packages[p]
    /\ \E old \in SUBSET {w \in packages[p] : w < v} :
          packages' = [packages EXCEPT ![p] = @ \ old]
    /\ UNCHANGED <<building, installed, registered>>

Withdraw(S) ==
    /\ \A q \in Names : RunNeeds[q] \cap S # {} => q \in S
    /\ installed' = [q \in Names |-> IF q \in S THEN 0 ELSE installed[q]]
    /\ registered' = registered \ S
    /\ UNCHANGED <<packages, building>>

Unregister(p) ==
    /\ registered' = registered \ {p}
    /\ UNCHANGED <<packages, building, installed>>

Wipe ==
    /\ building = Nothing
    /\ packages' = [p \in Names |-> {}]
    /\ UNCHANGED <<building, installed, registered>>

Next ==
    \/ Wipe
    \/ \E S \in SUBSET Names : Withdraw(S)
    \/ \E p \in Names :
          \/ Unregister(p)
          \/ \E v \in Versions : \/ Begin(p, v) \/ Complete(p, v) \/ BreakOff(p, v)
                                 \/ Deliver(p, v) \/ Supersede(p, v)

Spec == Init /\ [][Next]_vars
=============================================================================
