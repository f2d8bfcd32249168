---------------------------- MODULE RoslynIndexing ----------------------------
(***************************************************************************)
(* The Roslyn indexing tool (main, tools/index-roslyn/src/cli.ts): it        *)
(* replaces the index and the manifest of an earlier run, crawls the        *)
(* workspace with the symbol graph of Roslyn, describes the index that the   *)
(* crawl leaves, and on request exports it for the runtime, with a manifest *)
(* of its own (runtime-bundle.ts).                                          *)
(*                                                                         *)
(* Runs of the tool follow each other in one directory, for one commit and   *)
(* another; each may fail or be killed at any step.  Files are what is in    *)
(* them: an index is described by what its crawl has stored, and its hash    *)
(* is itself.  The crawl is RoslynSymbolGraph; what else it does, in Crawler *)
(* and LspClient, is a step here that succeeds or fails.                    *)
(***************************************************************************)
EXTENDS RoslynSymbolGraph

CONSTANTS Commits, MaxRuns, MaxCrashes

ASSUME RoslynIndexingAssumption == {MaxRuns, MaxCrashes} \subseteq Nat

VARIABLES
    head,    \* the commit that the workspace has checked out
    disk,    \* the files of the two directories
    run,     \* main
    left     \* what is left of the other bounds

vars == <<head, disk, run, left, length, server, client, graph, faults>>

NoFile == [form |-> "none"]

\* A manifest of which only the beginning was written.
Torn == [form |-> "torn"]

NoDisk == [index |-> NoFile, manifest |-> NoFile,
           runtimeIndex |-> NoFile, runtimeManifest |-> NoFile]

NoRun == [stage |-> "none", commit |-> NoFile, compact |-> FALSE, sha |-> NoFile,
          idle |-> FALSE, hung |-> FALSE]

Active == run.stage \notin {"none", "done", "failed"}

\* An index: the commit it is made from, and whether another was checked out in
\* the meantime; the documents in the graph, and those that it was told are
\* missing; whether the rest was crawled without a failure.
NewIndex == [form |-> "crawl", commit |-> head, moved |-> head # run.commit,
             graph |-> {}, missing |-> {}, rest |-> FALSE]

-----------------------------------------------------------------------------
\* The commit is read, and the SDK and the extension are looked for, before
\* anything is touched.
StartRun ==
    /\ ~ Active
    /\ left.runs > 0 /\ left' = [left EXCEPT !.runs = @ - 1]
    /\ \E compact \in BOOLEAN :
          run' = [NoRun EXCEPT !.stage = "removing", !.commit = head, !.compact = compact]
    /\ graph' = NoGraph
    /\ UNCHANGED <<head, disk, length, server, client, faults>>

\* Mutant: the manifest stays until it is written again.
RemoveIndexOnly ==
    /\ run.stage = "removing" /\ disk.index = NoFile
    /\ run' = [run EXCEPT !.stage = "opening"]
    /\ UNCHANGED <<head, disk, left, length, server, client, graph, faults>>

\* The files are removed one by one; the last is the manifest.
RemoveIndex ==
    /\ run.stage = "removing" /\ disk.index # NoFile
    /\ disk' = [disk EXCEPT !.index = NoFile]
    /\ UNCHANGED <<head, run, left, length, server, client, graph, faults>>

RemoveManifest ==
    /\ run.stage = "removing" /\ disk.index = NoFile
    /\ disk' = [disk EXCEPT !.manifest = NoFile]
    /\ run' = [run EXCEPT !.stage = "opening"]
    /\ UNCHANGED <<head, left, length, server, client, graph, faults>>

\* crawlWorkspace opens the database and starts the server.
OpenDatabase ==
    /\ run.stage = "opening"
    /\ disk' = [disk EXCEPT !.index = NewIndex]
    /\ run' = [run EXCEPT !.stage = "crawling"]
    /\ graph' = [NoGraph EXCEPT !.stage = "starting"]
    /\ server' = NewServer /\ client' = NewClient
    /\ UNCHANGED <<head, left, length, faults>>

\* A step of the crawl; the chunks are committed as they come, and withdrawn
\* when the provider fails.
CrawlStep(step) ==
    /\ run.stage = "crawling"
    /\ step
    /\ disk' = [disk EXCEPT !.index.graph = graph'.processed,
                            !.index.missing = graph'.missing]
    /\ UNCHANGED <<head, run, left>>

\* Mutant: failures are reported, and the index is published with them.
CrawlEndsRegardless ==
    /\ run.stage = "crawling" /\ graph.stage = "delivered"
    /\ disk' = [disk EXCEPT !.index.rest = ~ graph.failed]
    /\ run' = [run EXCEPT !.stage = "describing", !.idle = graph.idle,
                          !.hung = server.hangs]
    /\ graph' = [graph EXCEPT !.stage = "ended"]
    /\ server' = NewServer /\ client' = NewClient
    /\ UNCHANGED <<head, left, length, faults>>

\* The last chunk has come and the rest of the crawl has been done: the crawl
\* throws if any document has failed.
CrawlEnds ==
    /\ run.stage = "crawling" /\ graph.stage = "delivered"
    /\ ~ graph.failed
    /\ disk' = [disk EXCEPT !.index.rest = TRUE]
    /\ run' = [run EXCEPT !.stage = "describing", !.idle = graph.idle,
                          !.hung = server.hangs]
    /\ graph' = [graph EXCEPT !.stage = "ended"]
    /\ server' = NewServer /\ client' = NewClient
    /\ UNCHANGED <<head, left, length, faults>>

CrawlFails ==
    /\ run.stage = "crawling"
    /\ \/ graph.stage = "failed" /\ UNCHANGED faults
       \/ graph.stage = "delivered" /\ graph.failed /\ UNCHANGED faults
       \/ graph.stage \in {"starting", "delivered"} /\ Fault
    /\ run' = [run EXCEPT !.stage = "failed"]
    /\ graph' = IF graph.stage = "starting" THEN NoGraph
                ELSE [NoGraph EXCEPT !.stage = "failed"]
    /\ server' = NewServer /\ client' = NewClient
    /\ UNCHANGED <<head, disk, left, length>>

-----------------------------------------------------------------------------
\* Mutant: the commit is asked for when the manifest is written.
ManifestOfHead(sha) == [commit |-> head, sha |-> sha]

Manifest(sha) == [commit |-> run.commit, sha |-> sha]

HashIndex ==
    /\ run.stage = "describing"
    /\ run' = [run EXCEPT !.stage = "manifest", !.sha = disk.index]
    /\ UNCHANGED <<head, disk, left, length, server, client, graph, faults>>

WriteManifest ==
    /\ run.stage = "manifest"
    /\ disk' = [disk EXCEPT !.manifest = Manifest(run.sha)]
    /\ run' = [run EXCEPT !.stage = IF run.compact THEN "exporting" ELSE "done"]
    /\ UNCHANGED <<head, left, length, server, client, graph, faults>>

\* A temporary file is filled, checked, and renamed.
ExportRuntime ==
    /\ run.stage = "exporting"
    /\ disk' = [disk EXCEPT !.runtimeIndex = [disk.index EXCEPT !.form = "runtime"]]
    /\ run' = [run EXCEPT !.stage = "runtimeHash"]
    /\ UNCHANGED <<head, left, length, server, client, graph, faults>>

\* Mutant: the runtime manifest keeps the hash of the crawl's.
HashOfSource ==
    /\ run.stage = "runtimeHash"
    /\ run' = [run EXCEPT !.stage = "runtimeManifest"]
    /\ UNCHANGED <<head, disk, left, length, server, client, graph, faults>>

HashRuntime ==
    /\ run.stage = "runtimeHash"
    /\ run' = [run EXCEPT !.stage = "runtimeManifest", !.sha = disk.runtimeIndex]
    /\ UNCHANGED <<head, disk, left, length, server, client, graph, faults>>

WriteRuntimeManifest ==
    /\ run.stage = "runtimeManifest"
    /\ disk' = [disk EXCEPT !.runtimeManifest = Manifest(run.sha)]
    /\ run' = [run EXCEPT !.stage = "done"]
    /\ UNCHANGED <<head, left, length, server, client, graph, faults>>

\* A file cannot be read or written.
PublishFails ==
    /\ run.stage \in {"describing", "manifest", "exporting", "runtimeHash", "runtimeManifest"}
    /\ Fault
    /\ run' = [run EXCEPT !.stage = "failed"]
    /\ UNCHANGED <<head, disk, left, length, server, client, graph>>

\* The tool is killed; a manifest that is being written may be cut.
Crash ==
    /\ Active
    /\ left.crashes > 0 /\ left' = [left EXCEPT !.crashes = @ - 1]
    /\ disk' \in {disk}
          \cup (IF run.stage = "manifest" THEN {[disk EXCEPT !.manifest = Torn]} ELSE {})
          \cup (IF run.stage = "runtimeManifest"
                  THEN {[disk EXCEPT !.runtimeManifest = Torn]} ELSE {})
    /\ run' = NoRun
    /\ graph' = NoGraph /\ server' = NewServer /\ client' = NewClient
    /\ UNCHANGED <<head, length, faults>>

\* Another commit is checked out in the workspace, at any time.
Checkout ==
    /\ \E commit \in Commits \ {head} : head' = commit
    /\ left.checkouts > 0 /\ left' = [left EXCEPT !.checkouts = @ - 1]
    /\ disk' = IF run.stage = "crawling" THEN [disk EXCEPT !.index.moved = TRUE] ELSE disk
    /\ UNCHANGED <<run, length, server, client, graph, faults>>

-----------------------------------------------------------------------------
Init ==
    /\ head \in Commits
    /\ disk = NoDisk /\ run = NoRun
    /\ left = [runs |-> MaxRuns, crashes |-> MaxCrashes, checkouts |-> 1]
    /\ length \in Lengths
    /\ server = NewServer /\ client = NewClient /\ graph = NoGraph
    /\ faults = MaxFaults

ToolStep ==
    \/ RemoveIndex \/ RemoveManifest \/ OpenDatabase
    \/ CrawlEnds \/ CrawlFails
    \/ HashIndex \/ WriteManifest
    \/ ExportRuntime \/ HashRuntime \/ WriteRuntimeManifest

Next ==
    \/ StartRun \/ ToolStep
    \/ CrawlStep(ServerStep) \/ CrawlStep(Tick) \/ CrawlStep(PopulateStep)
    \/ CrawlStep(RequestFails)
    \/ PublishFails \/ Crash \/ Checkout

Spec == Init /\ [][Next]_vars

(***************************************************************************)
(* Fairness: what runs between two awaits runs, a timer fires, a request is *)
(* answered or times out, and time passes.  A server that works does not    *)
(* pause for ever without a report.                                        *)
(***************************************************************************)
Fairness ==
    /\ WF_vars(ToolStep)
    /\ WF_vars(CrawlStep(ServerStep))
    /\ WF_vars(CrawlStep(Tick))
    /\ WF_vars(CrawlStep(PopulateStep))

FairSpec == Spec /\ Fairness

-----------------------------------------------------------------------------
(***************************************************************************)
(* Properties                                                              *)
(***************************************************************************)
Described(manifest) == manifest \notin {NoFile, Torn}

Finished(index, commit) == index.rest /\ (~ index.moved => index.commit = commit)

\* A manifest that stands beside an index describes this index, and one that a
\* crawl without failures has made from the commit it names: no run that failed,
\* was killed, or was followed by another leaves a manifest to anything else.  An
\* exported index may be newer than its manifest, but has another hash then.
ManifestsDescribe ==
    /\ Described(disk.manifest) /\ disk.index # NoFile =>
          /\ disk.manifest.sha = disk.index
          /\ Finished(disk.index, disk.manifest.commit)
    /\ Described(disk.runtimeManifest)
       /\ disk.runtimeManifest.sha = disk.runtimeIndex =>
          Finished(disk.runtimeIndex, disk.runtimeManifest.commit)

\* What the run was asked for stands in the two directories.
Published ==
    /\ Described(disk.manifest) /\ disk.manifest.sha = disk.index
    /\ disk.manifest.commit = run.commit
    /\ run.compact =>
          /\ disk.runtimeIndex = [disk.index EXCEPT !.form = "runtime"]
          /\ disk.runtimeManifest = Manifest(disk.runtimeIndex)

SolutionCovered == run.idle /\ ~ run.hung => disk.index.missing \cap InSolution = {}

\* A run that succeeds has published what it was asked for, every document is in
\* the index or known to be missing, and none of the solution is missing when the
\* server was idle before, unless it hung.
SuccessCovers ==
    run.stage = "done" =>
        /\ Published
        /\ disk.index.graph = Docs \ disk.index.missing
        /\ SolutionCovered

\* The provider keeps what the crawl relies on: chunks within the limits, in
\* order, with every document once.
ImplementsProvider == Provider!Spec

\* A run ends, whatever the server reports, loads or fails to answer.
RunEnds == Active ~> ~ Active
=============================================================================
