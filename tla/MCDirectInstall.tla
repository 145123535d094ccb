-------------------------- MODULE MCDirectInstall --------------------------
(***************************************************************************)
(* DirectInstall on a small stack: a generated package, a library and its  *)
(* user.  Each package has a file of its own; in version 2 the library     *)
(* drops one.                                                              *)
(***************************************************************************)
EXTENDS DirectInstall

ChainOrder == <<"environment", "zlib", "hdf5">>
ChainNames == {"environment", "zlib", "hdf5"}
ChainDeps == [p \in ChainNames |-> [v \in Versions |->
                 CASE p = "hdf5" -> {"zlib", "environment"}
                   [] p = "zlib" -> {"environment"}
                   [] OTHER      -> {}]]
ChainFiles == {"bin/activate", "include/zlib.h", "zlib.pc", "bin/h5cc"}
ChainPayload == [p \in ChainNames |-> [v \in Versions |->
                    CASE p = "environment" -> {"bin/activate"}
                      [] p = "zlib" -> IF v = 1 THEN {"include/zlib.h", "zlib.pc"} ELSE {"zlib.pc"}
                      [] OTHER      -> {"bin/h5cc"}]]
ChainPc == [p \in ChainNames |-> IF p = "zlib" THEN {"zlib.pc"} ELSE {}]
ChainSort == [p \in ChainNames |->
                 CASE p = "environment" -> 1 [] p = "hdf5" -> 2 [] OTHER -> 3]
OwnName == [p \in ChainNames |-> {p}]

GeneratedNames == {"environment"}
Plain      == {{}}
AllOptions == {{}, {"with-deps"}, {"dependents"}, {"with-deps", "dependents"}}
=============================================================================
