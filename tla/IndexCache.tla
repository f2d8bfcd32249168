------------------------------ MODULE IndexCache ------------------------------
(***************************************************************************)
(* The directory in the extension's global storage that keeps downloaded    *)
(* indexes by commit, and the artifacts that GitHub retains                  *)
(* (packages/vscode-extension/src/roslyn-index-provider.ts,                  *)
(* roslyn-index-artifact.ts and github-artifact.ts).                         *)
(*                                                                         *)
(* An artifact holds an index and the manifest that states its commit, size *)
(* and hash, so either file is named by the artifact it came from: a         *)
(* manifest matches an index when both came from the same one.  Archive     *)
(* formats and paging are left out.                                         *)
(***************************************************************************)
EXTENDS Integers, FiniteSets, SequencesExt

CONSTANTS
    Commits,
    History,    \* of a commit: itself and its ancestors, the nearest first
    Artifacts,  \* [commit, number]; a greater number was created later
    Absent,     \* no file, no document, no artifact
    Damaged     \* an index that is not what its manifest states

ASSUME IndexCacheAssumption ==
    /\ Artifacts \subseteq [commit : Commits, number : Nat]
    /\ History \in [Commits -> Seq(Commits) \ {<<>>}]
    /\ \A c \in Commits : History[c][1] = c
    /\ {Absent, Damaged} \cap Artifacts = {}

Files       == {"index", "manifest"}
EmptyCache  == [c \in Commits |-> [file \in Files |-> Absent]]

verifyRoslynIndex(index, manifest, commit) ==
    index # Absent /\ manifest # Absent /\ manifest.commit = commit /\ index = manifest

Retained(github, commit) == {artifact \in github : artifact.commit = commit}

\* The one created last.
findRoslynArtifact(github, commit) ==
    LET found == Retained(github, commit) IN
    IF found = {} THEN Absent
    ELSE CHOOSE artifact \in found :
            \A other \in found : other.number <= artifact.number

\* The artifact of the nearest ancestor that has one: the compare API tells how
\* far behind the workspace an ancestor is.
findLatestRoslynArtifact(github, workspaceCommit) ==
    LET history   == History[workspaceCommit]
        distances == {d \in DOMAIN history : Retained(github, history[d]) # {}}
    IN  IF distances = {} THEN Absent
        ELSE findRoslynArtifact(github, history[Min(distances)])
=============================================================================
