-------------------------- MODULE TopologicalOrder --------------------------
(***************************************************************************)
(* What `scls order' and the resolvers of `scls build' promise, without    *)
(* in-degrees, queues and ranks: packages are taken one at a time, each    *)
(* after everything it needs; when all are taken, a list appears that puts *)
(* every package after its needs; the computation may give up only when no *)
(* package is left that could be taken.                                    *)
(*                                                                         *)
(* The code keeps the promise with two reservations.  One package is moved *)
(* to the front of the list whatever it needs (`Forced'), and one that     *)
(* lists a name twice (a member of `repeating') may never be taken.        *)
(***************************************************************************)
EXTENDS Naturals

CONSTANTS Packages, Forced

VARIABLES
    needs,      \* what each package has to come after
    repeating,  \* the packages that list a name twice
    placed,     \* the packages taken so far
    status,     \* "open", "listed" or "cyclic"
    list        \* the position of each package, once status is "listed"

vars == <<needs, repeating, placed, status, list>>

CanBePlaced(p) == p \in Packages \ placed /\ needs[p] \subseteq placed

Init ==
    /\ needs \in [Packages -> SUBSET Packages]
    /\ repeating \in SUBSET Packages
    /\ placed = {}
    /\ status = "open"
    /\ list = <<>>

Place(p) ==
    /\ status = "open"
    /\ CanBePlaced(p)
    /\ placed' = placed \cup {p}
    /\ UNCHANGED <<needs, repeating, status, list>>

Publish ==
    /\ status = "open"
    /\ placed = Packages
    /\ status' = "listed"
    /\ list' \in [Packages -> Nat]
    /\ \A p \in Packages \ {Forced} : \A d \in needs[p] : list'[d] < list'[p]
    /\ \A p, q \in Packages : list'[p] = list'[q] => p = q
    /\ UNCHANGED <<needs, repeating, placed>>

GiveUp ==
    /\ status = "open"
    /\ placed # Packages
    /\ \A p \in Packages : CanBePlaced(p) => p \in repeating
    /\ status' = "cyclic"
    /\ UNCHANGED <<needs, repeating, placed, list>>

Next == (\E p \in Packages : Place(p)) \/ Publish \/ GiveUp

Spec == Init /\ [][Next]_vars
=============================================================================
