---------------------------- MODULE MCBuildOrder ----------------------------
(***************************************************************************)
(* BuildOrder on three packages.  ShortLists are all the lists of at most  *)
(* two names, repeats, self references and names outside the build set     *)
(* included.                                                               *)
(***************************************************************************)
EXTENDS BuildOrder, SequencesExt

CONSTANT Names      \* the packages, in alphabetical order

\* One name sorts before `environment', so that ties can go either way.
ThreeNames == <<"cmake", "environment", "gcc">>

MCPackages  == ToSet(Names)
MCOutside   == {"python"}
MCNameOrder == [p \in MCPackages |-> CHOOSE i \in 1 .. Len(Names) : Names[i] = p]

ShortLists == {<<>>} \cup {<<a>> : a \in MCPackages \cup MCOutside}
                     \cup {<<a, b>> : a, b \in MCPackages \cup MCOutside}
=============================================================================
