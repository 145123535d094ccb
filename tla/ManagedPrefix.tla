--------------------------- MODULE ManagedPrefix ---------------------------
(***************************************************************************)
(* What direct mode promises of a prefix, without commands, work trees,    *)
(* destdirs, file lists and recursion: files are copied in only for a      *)
(* package whose needs are there; a package is recorded when all its files *)
(* are in place and its needs are there; while another package needs it,   *)
(* its record is not taken out and no file on its list is deleted; and its *)
(* record is taken out only when none of its files is left.                *)
(*                                                                         *)
(* A record may be lost for its contents: the package still counts as      *)
(* there, and what it needs is forgotten.  A package without a record is   *)
(* there for others when the host has it, or when one of its files that    *)
(* tell is in the prefix.                                                  *)
(***************************************************************************)
EXTENDS Naturals

CONSTANTS
    Packages, Versions, Files,
    Needs,      \* name -> version -> the names it needs
    Payload,    \* name -> version -> its files
    External,   \* names found on the host
    Telltale,   \* name -> files by which a package is found without a record
    Nothing     \* what a path holds where there is no file: its version is 0

VARIABLES
    holds,      \* the package and version that each path of the prefix is from
    recorded,   \* name -> the version recorded, or 0
    unreadable  \* names whose record has lost its contents

vars == <<holds, recorded, unreadable>>

IsThere(p) == recorded[p] # 0 \/ p \in unreadable

IsFound(p) == \E f \in Telltale[p] : holds[f].version # 0

NeedsMet(p, v) == \A d \in Needs[p][v] : IsThere(d) \/ d \in External \/ IsFound(d)

IsNeeded(p) == \E q \in Packages \ {p} : recorded[q] # 0 /\ p \in Needs[q][recorded[q]]

FilesOf(p) == {f \in Files : holds[f].version # 0 /\ holds[f].pkg = p}

InPlace(p, v) == \A f \in Payload[p][v] : holds[f] = [pkg |-> p, version |-> v]

Init ==
    /\ holds = [f \in Files |-> Nothing]
    /\ recorded = [p \in Packages |-> 0]
    /\ unreadable = {}

Copy(p, v, f) ==
    /\ f \in Payload[p][v] /\ NeedsMet(p, v)
    /\ holds' = [holds EXCEPT ![f] = [pkg |-> p, version |-> v]]
    /\ UNCHANGED <<recorded, unreadable>>

Record(p, v) ==
    /\ InPlace(p, v) /\ NeedsMet(p, v)
    /\ recorded' = [recorded EXCEPT ![p] = v]
    /\ unreadable' = unreadable \ {p}
    /\ UNCHANGED holds

RecordBadly(p, v) ==
    /\ InPlace(p, v) /\ NeedsMet(p, v)
    /\ recorded' = [recorded EXCEPT ![p] = 0]
    /\ unreadable' = unreadable \cup {p}
    /\ UNCHANGED holds

Delete(p, v, f) ==
    /\ f \in Payload[p][v] /\ ~IsNeeded(p)
    /\ holds' = [holds EXCEPT ![f] = Nothing]
    /\ UNCHANGED <<recorded, unreadable>>

Forget(p) ==
    /\ ~IsNeeded(p) /\ FilesOf(p) = {}
    /\ recorded' = [recorded EXCEPT ![p] = 0]
    /\ unreadable' = unreadable \ {p}
    /\ UNCHANGED holds

Next == \E p \in Packages :
    \/ Forget(p)
    \/ \E v \in Versions : \/ Record(p, v) \/ RecordBadly(p, v)
                           \/ \E f \in Files : Copy(p, v, f) \/ Delete(p, v, f)

Spec == Init /\ [][Next]_vars
=============================================================================
