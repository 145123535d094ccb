------------------------------- MODULE Sources -------------------------------
(***************************************************************************)
(* build_common.download_source: the directory of source archives that     *)
(* both builders keep between builds (rpmbuild/SOURCES, work/sources).  An *)
(* archive is named after the last part of its URL and is taken from the   *)
(* directory when its first tar header can be read; otherwise curl writes  *)
(* <archive>.part, which is checked and then renamed.                      *)
(*                                                                         *)
(* The actions are steps of a builder; the module that composes them says  *)
(* when they are taken.                                                    *)
(***************************************************************************)

CONSTANT Archives        \* the file names

VARIABLES
    archive,             \* what is found under each name
    partial              \* the names that have a .part file beside them

sources == <<archive, partial>>

\* "invalid" is no tar archive (an error page); "cut" starts like one.
Contents == {"absent", "invalid", "cut", "whole"}

SourcesInit ==
    /\ archive = [a \in Archives |-> "absent"]
    /\ partial = {}

\* _validate_source_archive reads one header: a cut-short archive passes.
Accepted(a) == archive[a] \in {"cut", "whole"}

UseCached(a) == Accepted(a) /\ UNCHANGED sources

\* Mutation: curl writes under the final name.
BeginDownloadInPlace(a) ==
    /\ ~Accepted(a)
    /\ archive' = [archive EXCEPT ![a] = "cut"]
    /\ UNCHANGED partial

\* An unreadable file is discarded, and so is the .part of an earlier attempt.
BeginDownload(a) ==
    /\ ~Accepted(a)
    /\ archive' = [archive EXCEPT ![a] = "absent"]
    /\ partial' = partial \cup {a}

\* curl succeeds and the archive is readable: it gets its name.
FinishDownload(a) ==
    /\ archive' = [archive EXCEPT ![a] = "whole"]
    /\ partial' = partial \ {a}

\* curl fails for good, or what came is no archive: the exception is handled.
\* (A signal is not: the .part file stays.)
AbandonDownload(a) == partial' = partial \ {a} /\ UNCHANGED archive

\* A file that is no archive is found under the name of one (saved by hand from
\* a page that needs a login, damaged on a shared disk).
Spoil(a) ==
    /\ archive[a] # "absent"
    /\ archive' = [archive EXCEPT ![a] = "invalid"]
    /\ UNCHANGED partial

SourcesTypeOK ==
    /\ archive \in [Archives -> Contents]
    /\ partial \subseteq Archives
=============================================================================
