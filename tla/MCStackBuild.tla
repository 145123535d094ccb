---------------------------- MODULE MCStackBuild ----------------------------
(***************************************************************************)
(* StackBuild on a three-name list: a build tool that is needed only to    *)
(* build, a library that needs it, and the flavor meta-package; or on a    *)
(* two-name list for the run with many events.                             *)
(***************************************************************************)
EXTENDS StackBuild

ThreeOrder     == <<"cmake", "hdf5", "_meta">>
ThreeBuildDeps == [p \in {"cmake", "hdf5", "_meta"} |->
                      IF p = "hdf5" THEN {"cmake"} ELSE {}]
ThreeRunDeps   == [p \in {"cmake", "hdf5", "_meta"} |->
                      IF p = "_meta" THEN {"cmake", "hdf5"} ELSE {}]

ChainOrder     == <<"zlib", "hdf5", "_meta">>
ChainBuildDeps == [p \in {"zlib", "hdf5", "_meta"} |->
                      IF p = "hdf5" THEN {"zlib"} ELSE {}]
ChainRunDeps   == [p \in {"zlib", "hdf5", "_meta"} |->
                      IF p = "_meta" THEN {"zlib", "hdf5"}
                      ELSE IF p = "hdf5" THEN {"zlib"} ELSE {}]

TwoOrder     == <<"hdf5", "_meta">>
TwoBuildDeps == [p \in {"hdf5", "_meta"} |-> {}]
TwoRunDeps   == [p \in {"hdf5", "_meta"} |-> IF p = "_meta" THEN {"hdf5"} ELSE {}]

MetaOnly == {"_meta"}
=============================================================================
