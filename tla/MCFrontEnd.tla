---------------------------- MODULE MCFrontEnd ----------------------------
(***************************************************************************)
(* FrontEnd on two recipes: a library, and one that needs it and whose     *)
(* name Debian does not allow.  The hosts and config files give each of    *)
(* the four formats, one of them after a file that cannot be read.         *)
(***************************************************************************)
EXTENDS FrontEnd

PairOrder == <<"zlib", "superlu_dist", "_meta">>
PairNames == {"zlib", "superlu_dist", "_meta"}
NoDeps    == [p \in PairNames |-> {}]
PairDeps  == [p \in PairNames |-> IF p = "superlu_dist" THEN {"zlib"} ELSE {}]

ShortPc    == {"zlib"}
ShortPlain == PairNames \ {"superlu_dist"}
PairArchives == {"zlib", "superlu_dist"} \X Versions

SomeHosts   == {{"Darwin"}, {"redhat-release", "dnf"}, {"debian_version", "apt-get"},
                {"dnf", "apt-get"}, {}}
RedHat      == {{"redhat-release", "dnf"}}
SomeConfigs == {<<"absent", "absent">>, <<"broken", "auto">>, <<"tar.xz", "rpm">>}
NoConfig    == {<<"absent", "absent">>}

\* On a native host a built package that is not installed is not met again.  A .pkg
\* host differs from a plain one in the exit code of an install alone.
AnyEvents == [f \in Formats |->
    CASE f = "pkg"    -> {"kill", "full"}
      [] f = "tar.xz" -> {"kill", "edit", "unregister", "force", "refuse", "build", "remove",
                          "full"}
      [] OTHER        -> {"kill", "edit", "unregister", "wipe", "spoil", "meta", "force"}]
RefusedOnce == [f \in Formats |-> {"refuse", "meta", "remove"}]
=============================================================================
