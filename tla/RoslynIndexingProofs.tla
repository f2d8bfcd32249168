------------------------- MODULE RoslynIndexingProofs -------------------------
(***************************************************************************)
(* Theorems about RoslynIndexing, for any documents, projects, commits and   *)
(* limits, and any number of runs, crashes and failures.                     *)
(***************************************************************************)
EXTENDS RoslynIndexing, FoldProofs

(***************************************************************************)
(* Types                                                                    *)
(***************************************************************************)
Publishing == {"describing", "manifest", "exporting", "runtimeHash", "runtimeManifest"}
RunStages  == {"none", "done", "failed", "removing", "opening", "crawling"} \cup Publishing

Waits       == {"none", "starting", "load"}
GraphStages == Waits \cup {"prepare", "notification", "activate", "dispatch", "delay",
                           "delivered", "failed", "ended"}

Commit == Commits \cup {NoFile}

RunType ==
    run \in [stage : RunStages, commit : Commit, compact : BOOLEAN, sha : {run.sha},
             idle : BOOLEAN, hung : BOOLEAN]

DiskType ==
    disk \in [index : {disk.index}, manifest : {disk.manifest},
              runtimeIndex : {disk.runtimeIndex}, runtimeManifest : {disk.runtimeManifest}]

ServerType == server \in [loaded : SUBSET Projects, hangs : BOOLEAN]

ClientType ==
    client \in [active : SUBSET Tokens, quiet : Nat, waited : Nat, received : BOOLEAN]

GraphType ==
    graph \in [stage : GraphStages, idle : BOOLEAN, chunks : {graph.chunks},
               attempt : {graph.attempt}, initialized : {graph.initialized},
               first : {graph.first}, processed : {graph.processed},
               missing : {graph.missing}, failed : {graph.failed}]

TypeInv ==
    /\ head \in Commits
    /\ RunType /\ DiskType /\ ServerType /\ ClientType /\ GraphType

(***************************************************************************)
(* The load of the solution                                                 *)
(***************************************************************************)
\* A server that works has reported something since not long ago.
Reports == Working /\ client.active = {} => client.quiet <= LongestPause

\* Before the wait is over nothing has been asked; after it, a workspace that
\* was idle is a loaded one, and what is missing from it is outside the solution.
Loads ==
    /\ graph.stage \in Waits => ~ graph.idle /\ graph.missing = {}
    /\ graph.idle /\ graph.stage # "ended" => ~ Working
    /\ graph.idle /\ graph.stage # "ended" /\ ~ server.hangs =>
          graph.missing \cap InSolution = {}

(***************************************************************************)
(* The files                                                                *)
(***************************************************************************)
\* An index that is open for the crawl, and one that is finished.
Index(form) ==
    [form : {form}, commit : Commits, moved : BOOLEAN, graph : {disk.index.graph},
     missing : {disk.index.missing}, rest : BOOLEAN]

Crawled ==
    run.stage = "crawling" =>
        /\ disk.index \in Index("crawl")
        /\ ~ disk.index.moved => disk.index.commit = run.commit
        /\ disk.index.missing = graph.missing

\* No manifest stands beside an index that is not finished.
Withheld ==
    run.stage \in {"opening", "crawling", "describing", "manifest"} =>
        disk.manifest = NoFile

Describes ==
    /\ run.stage \in Publishing =>
          disk.index \in Index("crawl") /\ Finished(disk.index, run.commit)
    /\ run.stage = "manifest" => run.sha = disk.index
    /\ run.stage \in {"exporting", "runtimeHash", "runtimeManifest", "done"} =>
          disk.manifest = Manifest(disk.index)
    /\ run.stage \in {"runtimeHash", "runtimeManifest", "done"} /\ run.compact =>
          disk.runtimeIndex = [disk.index EXCEPT !.form = "runtime"]
    /\ run.stage = "runtimeManifest" => run.sha = disk.runtimeIndex
    /\ run.stage = "done" /\ run.compact =>
          disk.runtimeManifest = Manifest(disk.runtimeIndex)
    /\ run.stage \in {"exporting", "runtimeHash", "runtimeManifest"} => run.compact

Covers == run.stage \in Publishing \cup {"done"} => SolutionCovered

\* Whatever has become of the index, a manifest names one that was finished.
NamesFinished(manifest) ==
    Described(manifest) => Finished(manifest.sha, manifest.commit)

Manifests ==
    /\ NamesFinished(disk.manifest) /\ NamesFinished(disk.runtimeManifest)
    /\ Described(disk.manifest) /\ disk.index # NoFile => disk.manifest.sha = disk.index

IInv ==
    /\ TypeInv /\ Reports /\ Loads /\ Crawled /\ Withheld /\ Describes /\ Covers
    /\ Manifests

-----------------------------------------------------------------------------
(***************************************************************************)
(* The steps of the crawl                                                   *)
(***************************************************************************)
GraphStep == ServerStep \/ Tick \/ PopulateStep \/ RequestFails

LEMMA GraphTypes ==
  ASSUME TypeInv, GraphStep
  PROVE  ServerType' /\ ClientType' /\ GraphType'
  <1> USE DEF TypeInv, ServerType, ClientType, GraphType, GraphStages, Waits
  <1>1. CASE ProgressBegins
    <2>1. PICK token \in Tokens :
            client' = [client EXCEPT !.active = @ \cup {token}, !.quiet = 0]
      BY <1>1 DEF ProgressBegins
    <2>2. ClientType' BY <2>1
    <2> QED BY <1>1, <2>2 DEF ProgressBegins
  <1>2. CASE ProgressEnds
    <2>1. PICK token \in client.active :
            client' = [client EXCEPT !.active = @ \ {token}, !.quiet = 0]
      BY <1>2 DEF ProgressEnds
    <2>2. ClientType' BY <2>1
    <2> QED BY <1>2, <2>2 DEF ProgressEnds
  <1>3. CASE LoadProject
    BY <1>3 DEF LoadProject
  <1>4. CASE ProjectInitializationComplete
    BY <1>4 DEF ProjectInitializationComplete
  <1>5. CASE ServerHangs
    BY <1>5 DEF ServerHangs
  <1>6. CASE Tick
    <2> DEFINE quiet  == IF client.quiet < Settle THEN client.quiet + 1 ELSE client.quiet
               waited == IF graph.stage = "load" /\ client.waited < LoadTimeout
                           THEN client.waited + 1 ELSE client.waited
    <2>1. quiet \in Nat /\ waited \in Nat
      OBVIOUS
    <2>2. client' = [client EXCEPT !.quiet = quiet, !.waited = waited]
      BY <1>6 DEF Tick
    <2> HIDE DEF quiet, waited
    <2>3. ClientType' BY <2>1, <2>2
    <2> QED BY <1>6, <2>3 DEF Tick
  <1>7. CASE Initialized
    BY <1>7 DEF Initialized
  <1>8. CASE WaitForIdleEnds
    BY <1>8 DEF WaitForIdleEnds, Idle
  <1>9. CASE PopulateStarts
    <2>1. PICK prepared \in SUBSET Docs : \E documents \in Ordered(prepared) :
            LET chunks == chunkSymbolGraphDocuments(documents)
                given  == [graph EXCEPT !.chunks = chunks, !.failed = prepared # Docs]
            IN  graph' = IF prepared = {} THEN [given EXCEPT !.stage = "delivered"]
                         ELSE IF client.received
                           THEN [given EXCEPT !.stage = "activate", !.initialized = TRUE]
                         ELSE [given EXCEPT !.stage = "notification"]
      BY <1>9 DEF PopulateStarts
    <2>2. PICK chunks, failed :
            LET given == [graph EXCEPT !.chunks = chunks, !.failed = failed]
            IN  graph' = IF prepared = {} THEN [given EXCEPT !.stage = "delivered"]
                         ELSE IF client.received
                           THEN [given EXCEPT !.stage = "activate", !.initialized = TRUE]
                         ELSE [given EXCEPT !.stage = "notification"]
      <3>1. PICK documents \in Ordered(prepared) :
            LET chunks == chunkSymbolGraphDocuments(documents)
                given  == [graph EXCEPT !.chunks = chunks, !.failed = prepared # Docs]
            IN  graph' = IF prepared = {} THEN [given EXCEPT !.stage = "delivered"]
                         ELSE IF client.received
                           THEN [given EXCEPT !.stage = "activate", !.initialized = TRUE]
                         ELSE [given EXCEPT !.stage = "notification"]
        BY <2>1
      <3>2. PICK chunks, failed : chunks = chunkSymbolGraphDocuments(documents)
                                  /\ failed = (prepared # Docs)
        OBVIOUS
      <3> QED BY <3>1, <3>2
    <2>3. \/ graph' = [graph EXCEPT !.chunks = chunks, !.failed = failed,
                                    !.stage = "delivered"]
          \/ graph' = [graph EXCEPT !.chunks = chunks, !.failed = failed,
                                    !.stage = "activate", !.initialized = TRUE]
          \/ graph' = [graph EXCEPT !.chunks = chunks, !.failed = failed,
                                    !.stage = "notification"]
      BY <2>2 DEF GraphType
    <2>4. GraphType'
      <3>1. CASE graph' = [graph EXCEPT !.chunks = chunks, !.failed = failed,
                                        !.stage = "delivered"]
        BY <3>1
      <3>2. CASE graph' = [graph EXCEPT !.chunks = chunks, !.failed = failed,
                                        !.stage = "activate", !.initialized = TRUE]
        BY <3>2
      <3>3. CASE graph' = [graph EXCEPT !.chunks = chunks, !.failed = failed,
                                        !.stage = "notification"]
        BY <3>3
      <3> QED BY <2>3, <3>1, <3>2, <3>3
    <2> QED BY <1>9, <2>4 DEF PopulateStarts
  <1>10. CASE NotificationTimesOut
    BY <1>10 DEF NotificationTimesOut
  <1>11. CASE Activated
    BY <1>11 DEF Activated
  <1>12. CASE Dispatched
    <2>1. PICK result \in Responses(ToSet(Head(graph.chunks))) :
            \/ graph' = Withdrawn
            \/ graph' = [graph EXCEPT !.stage = "delay"]
            \/ graph' = [graph EXCEPT
                           !.processed = @ \cup result.processed,
                           !.missing = @ \cup result.missing,
                           !.failed = @ \/ result.failures # {},
                           !.chunks = Tail(@), !.first = FALSE, !.attempt = 1,
                           !.stage = IF Len(graph.chunks) = 1 THEN "delivered" ELSE @]
      BY <1>12 DEF Dispatched
    <2>2. CASE graph' = Withdrawn
      BY <1>12, <2>2 DEF Withdrawn, Dispatched
    <2>3. CASE graph' = [graph EXCEPT !.stage = "delay"]
      BY <1>12, <2>3 DEF Dispatched
    <2>4. CASE graph' = [graph EXCEPT
                           !.processed = @ \cup result.processed,
                           !.missing = @ \cup result.missing,
                           !.failed = @ \/ result.failures # {},
                           !.chunks = Tail(@), !.first = FALSE, !.attempt = 1,
                           !.stage = IF Len(graph.chunks) = 1 THEN "delivered" ELSE @]
      BY <1>12, <2>4 DEF Dispatched
    <2> QED BY <2>1, <2>2, <2>3, <2>4
  <1>13. CASE RetryProjectLoad
    BY <1>13 DEF RetryProjectLoad
  <1>14. CASE RequestFails
    BY <1>14 DEF RequestFails, Withdrawn
  <1> QED
    BY <1>1, <1>2, <1>3, <1>4, <1>5, <1>6, <1>7, <1>8, <1>9, <1>10, <1>11, <1>12,
       <1>13, <1>14 DEF GraphStep, ServerStep, PopulateStep

LEMMA ReportsStep ==
  ASSUME TypeInv, Reports, GraphStep
  PROVE  Reports'
  <1> USE RoslynSymbolGraphAssumption
      DEF TypeInv, ServerType, ClientType, Reports, Working
  <1>1. CASE ProgressBegins
    BY <1>1 DEF ProgressBegins
  <1>2. CASE ProgressEnds
    BY <1>2 DEF ProgressEnds
  <1>3. CASE LoadProject
    BY <1>3 DEF LoadProject
  <1>4. CASE ProjectInitializationComplete
    BY <1>4 DEF ProjectInitializationComplete
  <1>5. CASE ServerHangs
    BY <1>5 DEF ServerHangs
  <1>6. CASE Tick
    BY <1>6 DEF Tick
  <1>7. CASE WaitForIdleEnds
    BY <1>7 DEF WaitForIdleEnds
  <1>8. CASE UNCHANGED <<server, client>>
    BY <1>8
  <1> QED
    BY <1>1, <1>2, <1>3, <1>4, <1>5, <1>6, <1>7, <1>8
    DEF GraphStep, ServerStep, PopulateStep, Initialized, PopulateStarts,
        NotificationTimesOut, Activated, Dispatched, RetryProjectLoad, RequestFails

\* A workspace that has been idle is loaded, or its server hangs: a server that
\* works pauses for less than the time that waitForIdle waits.
LEMMA IdleIsLoaded ==
  ASSUME TypeInv, Reports, Idle
  PROVE  ~ Working
  BY RoslynSymbolGraphAssumption DEF TypeInv, ClientType, Reports, Idle

LEMMA DispatchEffect ==
  ASSUME GraphType, Dispatched
  PROVE  \E result \in Responses(ToSet(Head(graph.chunks))) :
             \/ graph' = Withdrawn
             \/ graph' = [graph EXCEPT !.stage = "delay"]
             \/ /\ graph'.missing = graph.missing \cup result.missing
                /\ graph'.stage \in {"dispatch", "delivered"}
                /\ graph'.idle = graph.idle
  <1>1. PICK result \in Responses(ToSet(Head(graph.chunks))) :
          graph' =
               IF result.solutionProjectCount > 0
                 THEN [graph EXCEPT
                         !.processed = @ \cup result.processed,
                         !.missing = @ \cup result.missing,
                         !.failed = @ \/ result.failures # {},
                         !.chunks = Tail(@), !.first = FALSE, !.attempt = 1,
                         !.stage = IF Len(graph.chunks) = 1 THEN "delivered" ELSE @]
               ELSE IF graph.attempt = attempts THEN Withdrawn
               ELSE [graph EXCEPT !.stage = "delay"]
    BY DEF Dispatched
  <1>2. graph.stage = "dispatch"
    BY DEF Dispatched
  <1>3. CASE result.solutionProjectCount > 0
    <2>1. PICK missing, stage :
            /\ missing = graph.missing \cup result.missing
            /\ stage = IF Len(graph.chunks) = 1 THEN "delivered" ELSE graph.stage
      OBVIOUS
    <2>2. graph'.missing = missing /\ graph'.stage = stage /\ graph'.idle = graph.idle
      BY <1>1, <1>3, <2>1 DEF GraphType
    <2>3. stage \in {"dispatch", "delivered"}
      BY <1>2, <2>1
    <2> QED BY <2>1, <2>2, <2>3
  <1>4. CASE ~ (result.solutionProjectCount > 0)
    BY <1>1, <1>4
  <1> QED BY <1>3, <1>4

LEMMA LoadsStep ==
  ASSUME TypeInv, Reports, Loads, GraphStep
  PROVE  Loads'
  <1> USE DEF TypeInv, ServerType, GraphType, Loads, Working, Waits
  <1>1. CASE ProgressBegins \/ ProgressEnds \/ Tick
    BY <1>1 DEF ProgressBegins, ProgressEnds, Tick
  <1>2. CASE LoadProject
    BY <1>2 DEF LoadProject
  <1>3. CASE ProjectInitializationComplete
    BY <1>3 DEF ProjectInitializationComplete
  <1>4. CASE ServerHangs
    BY <1>4 DEF ServerHangs
  <1>5. CASE Initialized
    BY <1>5 DEF Initialized, Starting
  <1>6. CASE WaitForIdleEnds
    BY <1>6, IdleIsLoaded DEF WaitForIdleEnds
  <1>7. CASE PopulateStarts
    BY <1>7 DEF PopulateStarts
  <1>8. CASE NotificationTimesOut \/ Activated \/ RetryProjectLoad
    BY <1>8 DEF NotificationTimesOut, Activated, RetryProjectLoad
  <1>9. CASE Dispatched
    <2>1. PICK result \in Responses(ToSet(Head(graph.chunks))) :
             \/ graph' = Withdrawn
             \/ graph' = [graph EXCEPT !.stage = "delay"]
             \/ /\ graph'.missing = graph.missing \cup result.missing
                /\ graph'.stage \in {"dispatch", "delivered"}
                /\ graph'.idle = graph.idle
      BY <1>9, DispatchEffect
    <2>2. \A d \in result.missing : ~ Loaded(d)
      BY DEF Responses
    <2>3. graph.stage = "dispatch" /\ UNCHANGED server
      BY <1>9 DEF Dispatched
    <2>4. CASE graph' = Withdrawn
      BY <2>3, <2>4 DEF Withdrawn
    <2>5. CASE graph' = [graph EXCEPT !.stage = "delay"]
      BY <2>3, <2>5
    <2>6. CASE /\ graph'.missing = graph.missing \cup result.missing
               /\ graph'.stage \in {"dispatch", "delivered"}
               /\ graph'.idle = graph.idle
      <3>1. graph.idle /\ ~ server.hangs => result.missing \cap InSolution = {}
        BY <2>2, <2>3, RoslynSymbolGraphAssumption DEF Loaded, InSolution
      <3> QED BY <2>3, <2>6, <3>1
    <2> QED BY <2>1, <2>4, <2>5, <2>6
  <1>10. CASE RequestFails
    BY <1>10 DEF RequestFails, Withdrawn
  <1> QED
    BY <1>1, <1>2, <1>3, <1>4, <1>5, <1>6, <1>7, <1>8, <1>9, <1>10
    DEF GraphStep, ServerStep, PopulateStep

-----------------------------------------------------------------------------
(***************************************************************************)
(* The steps of the tool                                                    *)
(***************************************************************************)
LEMMA Distinct ==
  /\ \A commit, sha : Described([commit |-> commit, sha |-> sha])
  /\ ~ Described(NoFile) /\ ~ Described(Torn)
  BY DEF Described, NoFile, Torn

CrawlSteps ==
    \/ CrawlStep(ServerStep) \/ CrawlStep(Tick) \/ CrawlStep(PopulateStep)
    \/ CrawlStep(RequestFails)

LEMMA CrawlStepEffect ==
  ASSUME TypeInv, Crawled, CrawlSteps
  PROVE  /\ GraphStep /\ run.stage = "crawling"
         /\ UNCHANGED <<head, run, left>>
         /\ DiskType'
         /\ disk'.manifest = disk.manifest
         /\ disk'.runtimeManifest = disk.runtimeManifest
         /\ disk'.index = [disk.index EXCEPT !.graph = graph'.processed,
                                            !.missing = graph'.missing]
  <1>1. /\ GraphStep /\ run.stage = "crawling" /\ UNCHANGED <<head, run, left>>
        /\ disk' = [disk EXCEPT !.index.graph = graph'.processed,
                               !.index.missing = graph'.missing]
    BY DEF CrawlSteps, CrawlStep, GraphStep
  <1>2. PICK processed, missing :
          processed = graph'.processed /\ missing = graph'.missing
    OBVIOUS
  <1>3. disk' = [disk EXCEPT !.index = [disk.index EXCEPT !.graph = processed,
                                                        !.missing = missing]]
    BY <1>1, <1>2 DEF TypeInv, DiskType, Crawled, Index
  <1> QED BY <1>1, <1>2, <1>3 DEF TypeInv, DiskType

LEMMA TypeStep ==
  ASSUME IInv, Next
  PROVE  TypeInv'
  <1> USE DEF IInv, TypeInv, RunType, DiskType, ServerType, ClientType, GraphType,
              RunStages, Publishing, GraphStages, Waits, Commit
  <1>1. CASE StartRun
    <2>1. RunType'
      <3>1. PICK compact \in BOOLEAN :
              run' = [NoRun EXCEPT !.stage = "removing", !.commit = head,
                                   !.compact = compact]
        BY <1>1 DEF StartRun
      <3>2. run' = [stage |-> "removing", commit |-> head, compact |-> compact,
                    sha |-> NoFile, idle |-> FALSE, hung |-> FALSE]
        BY ONLY <3>1 DEF NoRun
      <3> QED BY <3>2
    <2>2. GraphType'
      BY <1>1 DEF StartRun, NoGraph
    <2> QED BY <1>1, <2>1, <2>2 DEF StartRun
  <1>2. CASE RemoveIndex
    BY <1>2 DEF RemoveIndex
  <1>3. CASE RemoveManifest
    BY <1>3 DEF RemoveManifest
  <1>4. CASE OpenDatabase
    BY <1>4 DEF OpenDatabase, NewIndex, NoGraph, NewServer, NewClient
  <1>5. CASE CrawlEnds
    BY <1>5 DEF CrawlEnds, NewServer, NewClient
  <1>6. CASE CrawlFails
    BY <1>6 DEF CrawlFails, NoGraph, NewServer, NewClient
  <1>7. CASE HashIndex
    BY <1>7 DEF HashIndex
  <1>8. CASE WriteManifest
    BY <1>8 DEF WriteManifest
  <1>9. CASE ExportRuntime
    BY <1>9 DEF ExportRuntime
  <1>10. CASE HashRuntime
    BY <1>10 DEF HashRuntime
  <1>11. CASE WriteRuntimeManifest
    BY <1>11 DEF WriteRuntimeManifest
  <1>12. CASE PublishFails
    BY <1>12 DEF PublishFails
  <1>13. CASE Crash
    <2>1. DiskType'
      BY <1>13 DEF Crash
    <2>2. RunType'
      BY <1>13 DEF Crash, NoRun
    <2>3. GraphType'
      BY <1>13 DEF Crash, NoGraph
    <2> QED BY <1>13, <2>1, <2>2, <2>3 DEF Crash, NewServer, NewClient
  <1>14. CASE Checkout
    <2>1. DiskType'
      BY <1>14 DEF Checkout
    <2> QED BY <1>14, <2>1 DEF Checkout
  <1>15. CASE CrawlSteps
    <2>1. TypeInv /\ GraphStep /\ UNCHANGED <<head, run>> /\ DiskType'
      BY <1>15, CrawlStepEffect
    <2>2. ServerType' /\ ClientType' /\ GraphType'
      BY <2>1, GraphTypes
    <2> QED BY <2>1, <2>2
  <1> QED
    BY <1>1, <1>2, <1>3, <1>4, <1>5, <1>6, <1>7, <1>8, <1>9, <1>10, <1>11, <1>12, <1>13,
       <1>14, <1>15
    DEF Next, ToolStep, CrawlSteps

LEMMA LoadStep ==
  ASSUME IInv, Next
  PROVE  Reports' /\ Loads'
  <1> USE DEF IInv, TypeInv
  <1>1. CASE StartRun
    BY <1>1, RoslynSymbolGraphAssumption
    DEF StartRun, NoRun, NoGraph, Reports, Loads, Working, Waits,
        GraphType, ServerType, ClientType, RunType
  <1>2. CASE OpenDatabase
    BY <1>2, RoslynSymbolGraphAssumption
    DEF OpenDatabase, NewIndex, NoGraph, NewServer, NewClient, Reports, Loads, Working,
        Waits,
        GraphType, ServerType, ClientType, RunType
  <1>3. CASE CrawlEnds
    BY <1>3, RoslynSymbolGraphAssumption
    DEF CrawlEnds, NewServer, NewClient, Reports, Loads, Working, Waits,
        GraphType, ServerType, ClientType, RunType
  <1>4. CASE CrawlFails
    BY <1>4, RoslynSymbolGraphAssumption
    DEF CrawlFails, NoGraph, NewServer, NewClient, Reports, Loads, Working, Waits,
        GraphType, ServerType, ClientType, RunType
  <1>5. CASE Crash
    BY <1>5, RoslynSymbolGraphAssumption
    DEF Crash, NoRun, NoGraph, NewServer, NewClient, Reports, Loads, Working, Waits,
        GraphType, ServerType, ClientType, RunType
  <1>6. CASE UNCHANGED <<server, client, graph>>
    BY <1>6 DEF Reports, Loads, Working
  <1>7. CASE CrawlSteps
    BY <1>7, CrawlStepEffect, ReportsStep, LoadsStep
  <1> QED
    BY <1>1, <1>2, <1>3, <1>4, <1>5, <1>6, <1>7
    DEF Next, ToolStep, CrawlSteps, RemoveIndex, RemoveManifest, HashIndex,
        WriteManifest, ExportRuntime, HashRuntime, WriteRuntimeManifest, PublishFails,
        Checkout

LEMMA WithheldStep ==
  ASSUME IInv, Next
  PROVE  Withheld'
  <1> USE DEF IInv, TypeInv, RunType, DiskType, Publishing, Withheld
  <1>1. CASE StartRun
    BY <1>1 DEF StartRun, NoRun, NoGraph
  <1>2. CASE RemoveIndex
    BY <1>2 DEF RemoveIndex
  <1>3. CASE RemoveManifest
    BY <1>3 DEF RemoveManifest
  <1>4. CASE OpenDatabase
    BY <1>4 DEF OpenDatabase, NewIndex, NoGraph, NewServer, NewClient
  <1>5. CASE CrawlEnds
    BY <1>5 DEF CrawlEnds, NewServer, NewClient
  <1>6. CASE CrawlFails
    BY <1>6 DEF CrawlFails, NoGraph, NewServer, NewClient
  <1>7. CASE HashIndex
    BY <1>7 DEF HashIndex
  <1>8. CASE WriteManifest
    BY <1>8 DEF WriteManifest
  <1>9. CASE ExportRuntime
    BY <1>9 DEF ExportRuntime
  <1>10. CASE HashRuntime
    BY <1>10 DEF HashRuntime
  <1>11. CASE WriteRuntimeManifest
    BY <1>11 DEF WriteRuntimeManifest
  <1>12. CASE PublishFails
    BY <1>12 DEF PublishFails
  <1>13. CASE Crash
    BY <1>13 DEF Crash, NoRun, NoGraph, NewServer, NewClient
  <1>14. CASE Checkout
    BY <1>14 DEF Checkout
  <1>15. CASE CrawlSteps
    BY <1>15, CrawlStepEffect
  <1> QED
    BY <1>1, <1>2, <1>3, <1>4, <1>5, <1>6, <1>7, <1>8, <1>9, <1>10, <1>11, <1>12, <1>13,
       <1>14, <1>15
    DEF Next, ToolStep, CrawlSteps

LEMMA CrawledStep ==
  ASSUME IInv, Next
  PROVE  Crawled'
  <1> USE DEF IInv, TypeInv, RunType, DiskType, Crawled, Index
  <1>1. CASE StartRun
    BY <1>1 DEF StartRun, NoRun, NoGraph
  <1>2. CASE RemoveIndex
    BY <1>2 DEF RemoveIndex
  <1>3. CASE RemoveManifest
    BY <1>3 DEF RemoveManifest
  <1>4. CASE OpenDatabase
    BY <1>4 DEF OpenDatabase, NewIndex, NoGraph, NewServer, NewClient
  <1>5. CASE CrawlEnds
    BY <1>5 DEF CrawlEnds, NewServer, NewClient
  <1>6. CASE CrawlFails
    BY <1>6 DEF CrawlFails, NoGraph, NewServer, NewClient
  <1>7. CASE HashIndex
    BY <1>7 DEF HashIndex
  <1>8. CASE WriteManifest
    BY <1>8 DEF WriteManifest
  <1>9. CASE ExportRuntime
    BY <1>9 DEF ExportRuntime
  <1>10. CASE HashRuntime
    BY <1>10 DEF HashRuntime
  <1>11. CASE WriteRuntimeManifest
    BY <1>11 DEF WriteRuntimeManifest
  <1>12. CASE PublishFails
    BY <1>12 DEF PublishFails
  <1>13. CASE Crash
    BY <1>13 DEF Crash, NoRun, NoGraph, NewServer, NewClient
  <1>14. CASE Checkout
    BY <1>14 DEF Checkout
  <1>15. CASE CrawlSteps
    <2>1. PICK processed, missing :
            processed = graph'.processed /\ missing = graph'.missing
      OBVIOUS
    <2>2. /\ disk'.index = [disk.index EXCEPT !.graph = processed, !.missing = missing]
          /\ run.stage = "crawling" /\ UNCHANGED run
      BY <1>15, <2>1, CrawlStepEffect
    <2> QED BY <2>1, <2>2
  <1> QED
    BY <1>1, <1>2, <1>3, <1>4, <1>5, <1>6, <1>7, <1>8, <1>9, <1>10, <1>11, <1>12, <1>13,
       <1>14, <1>15
    DEF Next, ToolStep, CrawlSteps

LEMMA DescribesStep ==
  ASSUME IInv, Next
  PROVE  Describes'
  <1> USE DEF IInv, TypeInv, RunType, DiskType, Publishing, Describes, Crawled,
              Withheld, Index, Finished, Manifest
  <1>1. CASE StartRun
    BY <1>1 DEF StartRun, NoRun, NoGraph
  <1>2. CASE RemoveIndex
    BY <1>2 DEF RemoveIndex
  <1>3. CASE RemoveManifest
    BY <1>3 DEF RemoveManifest
  <1>4. CASE OpenDatabase
    BY <1>4 DEF OpenDatabase, NewIndex, NoGraph, NewServer, NewClient
  <1>5. CASE CrawlEnds
    BY <1>5 DEF CrawlEnds, NewServer, NewClient
  <1>6. CASE CrawlFails
    BY <1>6 DEF CrawlFails, NoGraph, NewServer, NewClient
  <1>7. CASE HashIndex
    BY <1>7 DEF HashIndex
  <1>8. CASE WriteManifest
    BY <1>8 DEF WriteManifest
  <1>9. CASE ExportRuntime
    BY <1>9 DEF ExportRuntime
  <1>10. CASE HashRuntime
    BY <1>10 DEF HashRuntime
  <1>11. CASE WriteRuntimeManifest
    BY <1>11 DEF WriteRuntimeManifest
  <1>12. CASE PublishFails
    BY <1>12 DEF PublishFails
  <1>13. CASE Crash
    BY <1>13 DEF Crash, NoRun, NoGraph, NewServer, NewClient
  <1>14. CASE Checkout
    BY <1>14 DEF Checkout
  <1>15. CASE CrawlSteps
    BY <1>15, CrawlStepEffect
  <1> QED
    BY <1>1, <1>2, <1>3, <1>4, <1>5, <1>6, <1>7, <1>8, <1>9, <1>10, <1>11, <1>12, <1>13,
       <1>14, <1>15
    DEF Next, ToolStep, CrawlSteps

LEMMA CoversStep ==
  ASSUME IInv, Next
  PROVE  Covers'
  <1> USE DEF IInv, TypeInv, RunType, DiskType, Publishing, Covers, SolutionCovered,
              Crawled, Loads, Describes, Index
  <1>1. CASE StartRun
    BY <1>1 DEF StartRun, NoRun, NoGraph
  <1>2. CASE RemoveIndex
    BY <1>2 DEF RemoveIndex
  <1>3. CASE RemoveManifest
    BY <1>3 DEF RemoveManifest
  <1>4. CASE OpenDatabase
    BY <1>4 DEF OpenDatabase, NewIndex, NoGraph, NewServer, NewClient
  <1>5. CASE CrawlEnds
    BY <1>5 DEF CrawlEnds, NewServer, NewClient
  <1>6. CASE CrawlFails
    BY <1>6 DEF CrawlFails, NoGraph, NewServer, NewClient
  <1>7. CASE HashIndex
    BY <1>7 DEF HashIndex
  <1>8. CASE WriteManifest
    BY <1>8 DEF WriteManifest
  <1>9. CASE ExportRuntime
    BY <1>9 DEF ExportRuntime
  <1>10. CASE HashRuntime
    BY <1>10 DEF HashRuntime
  <1>11. CASE WriteRuntimeManifest
    BY <1>11 DEF WriteRuntimeManifest
  <1>12. CASE PublishFails
    BY <1>12 DEF PublishFails
  <1>13. CASE Crash
    BY <1>13 DEF Crash, NoRun, NoGraph, NewServer, NewClient
  <1>14. CASE Checkout
    BY <1>14 DEF Checkout
  <1>15. CASE CrawlSteps
    BY <1>15, CrawlStepEffect
  <1> QED
    BY <1>1, <1>2, <1>3, <1>4, <1>5, <1>6, <1>7, <1>8, <1>9, <1>10, <1>11, <1>12, <1>13,
       <1>14, <1>15
    DEF Next, ToolStep, CrawlSteps

LEMMA ManifestsStep ==
  ASSUME IInv, Next
  PROVE  Manifests'
  <1> USE DEF IInv, TypeInv, RunType, DiskType, Publishing, Manifests, NamesFinished,
              Withheld, Describes, Index, Finished, Manifest
  <1>1. CASE StartRun
    BY <1>1, Distinct DEF StartRun, NoRun, NoGraph
  <1>2. CASE RemoveIndex
    BY <1>2, Distinct DEF RemoveIndex
  <1>3. CASE RemoveManifest
    BY <1>3, Distinct DEF RemoveManifest
  <1>4. CASE OpenDatabase
    BY <1>4, Distinct DEF OpenDatabase, NewIndex, NoGraph, NewServer, NewClient
  <1>5. CASE CrawlEnds
    BY <1>5, Distinct DEF CrawlEnds, NewServer, NewClient
  <1>6. CASE CrawlFails
    BY <1>6, Distinct DEF CrawlFails, NoGraph, NewServer, NewClient
  <1>7. CASE HashIndex
    BY <1>7, Distinct DEF HashIndex
  <1>8. CASE WriteManifest
    BY <1>8, Distinct DEF WriteManifest
  <1>9. CASE ExportRuntime
    BY <1>9, Distinct DEF ExportRuntime
  <1>10. CASE HashRuntime
    BY <1>10, Distinct DEF HashRuntime
  <1>11. CASE WriteRuntimeManifest
    BY <1>11, Distinct DEF WriteRuntimeManifest
  <1>12. CASE PublishFails
    BY <1>12, Distinct DEF PublishFails
  <1>13. CASE Crash
    BY <1>13, Distinct DEF Crash, NoRun, NoGraph, NewServer, NewClient
  <1>14. CASE Checkout
    BY <1>14, Distinct DEF Checkout
  <1>15. CASE CrawlSteps
    BY <1>15, CrawlStepEffect, Distinct
  <1> QED
    BY <1>1, <1>2, <1>3, <1>4, <1>5, <1>6, <1>7, <1>8, <1>9, <1>10, <1>11, <1>12, <1>13,
       <1>14, <1>15
    DEF Next, ToolStep, CrawlSteps

LEMMA Initially == Init => IInv
  BY RoslynSymbolGraphAssumption, Distinct
  DEF Init, IInv, TypeInv, RunType, DiskType, ServerType, ClientType, GraphType,
      RunStages, Publishing, GraphStages, Waits, Commit, Reports, Loads, Crawled,
      Withheld, Describes, Covers, Manifests, NamesFinished, NoRun, NoDisk, NewServer,
      NewClient, NoGraph, Working

LEMMA Stutters == ASSUME IInv, UNCHANGED vars PROVE IInv'
  BY DEF vars, IInv, TypeInv, RunType, DiskType, ServerType, ClientType, GraphType,
         Reports, Loads, Working, Crawled, Index, Withheld, Describes, Covers,
         SolutionCovered, Manifests, NamesFinished, Manifest, Finished

LEMMA Invariance == Spec => []IInv
  <1>1. IInv /\ Next => IInv'
    BY TypeStep, LoadStep, CrawledStep, WithheldStep, DescribesStep, CoversStep,
       ManifestsStep DEF IInv
  <1> QED BY Initially, <1>1, Stutters, PTL DEF Spec

-----------------------------------------------------------------------------
(***************************************************************************)
(* The chunks that the documents are sent in                                *)
(***************************************************************************)
Parts(chunks) == UNION {ToSet(chunks[i]) : i \in DOMAIN chunks}

Fits(bytesOf, chunk) ==
    /\ Cardinality(chunk) <= MaxDocuments
    /\ Sum(bytesOf, chunk) <= MaxBytes \/ Cardinality(chunk) = 1

Proper(bytesOf, chunk) ==
    chunk # <<>> /\ Cardinality(ToSet(chunk)) = Len(chunk) /\ Fits(bytesOf, ToSet(chunk))

Before(these, those) == \A d \in these, e \in those : d < e

InSequence(chunks) ==
    \A i, j \in DOMAIN chunks : i < j => Before(ToSet(chunks[i]), ToSet(chunks[j]))

\* The chunks of some documents, in order.
Divides(bytesOf, chunks, documents) ==
    /\ chunks \in Seq(Seq(Docs))
    /\ \A i \in DOMAIN chunks : Proper(bytesOf, chunks[i])
    /\ InSequence(chunks)
    /\ Parts(chunks) = documents

\* What has been made of the documents so far.
Acc == [chunks : Seq(Seq(Docs)), current : Seq(Docs), bytes : Nat]

Splits(bytesOf, acc, documents) ==
    /\ acc \in Acc
    /\ \E done \in SUBSET documents :
          /\ Divides(bytesOf, acc.chunks, done)
          /\ documents = done \cup ToSet(acc.current)
          /\ Before(done, ToSet(acc.current))
    /\ acc.bytes = Sum(bytesOf, ToSet(acc.current))
    /\ acc.current # <<>> => Proper(bytesOf, acc.current)
    /\ acc.current = <<>> => acc.chunks = <<>>

Lengthy == length \in [Docs -> Nat]

LEMMA ProviderLimits ==
  ASSUME NEW chunk
  PROVE  Provider!WithinLimits(chunk) <=> Fits(length, chunk)
  <1>1. Provider!Cardinality(chunk) = Cardinality(chunk)
    BY DEF Provider!Cardinality, Cardinality
  <1>2. Provider!Bytes(chunk) = Sum(length, chunk)
    BY DEF Provider!Bytes, Sum, Provider!MapThenSumSet, Provider!MapThenFoldSet, MapThenSumSet, MapThenFoldSet
  <1> QED BY <1>1, <1>2 DEF Provider!WithinLimits, Fits

LEMMA Elements ==
  ASSUME NEW S, NEW s \in Seq(S)
  PROVE  /\ ToSet(<<>>) = {} /\ ToSet(s) \in SUBSET S
         /\ (s # <<>> => ToSet(s) # {})
         /\ \A x \in S : ToSet(Append(s, x)) = ToSet(s) \cup {x}
  <1>1. Len(s) \in Nat /\ DOMAIN s = 1..Len(s)
    OBVIOUS
  <1>2. ToSet(<<>>) = {}
    BY DEF ToSet
  <1>3. ToSet(s) \in SUBSET S
    BY DEF ToSet
  <1>5. s # <<>> => ToSet(s) # {}
    <2> SUFFICES ASSUME s # <<>> PROVE s[1] \in ToSet(s)
      OBVIOUS
    <2> QED BY <1>1 DEF ToSet
  <1>6. ASSUME NEW x \in S PROVE ToSet(Append(s, x)) = ToSet(s) \cup {x}
    <2> DEFINE t == Append(s, x)
    <2>1. /\ DOMAIN t = 1..(Len(s) + 1) /\ t[Len(s) + 1] = x
          /\ \A i \in 1..Len(s) : t[i] = s[i]
      OBVIOUS
    <2>2. \A i \in 1..(Len(s) + 1) : i \in 1..Len(s) \/ i = Len(s) + 1
      BY <1>1
    <2>3. 1..Len(s) \subseteq 1..(Len(s) + 1) /\ Len(s) + 1 \in 1..(Len(s) + 1)
      BY <1>1
    <2> HIDE DEF t
    <2>4. ToSet(t) = ToSet(s) \cup {x}
      BY <1>1, <2>1, <2>2, <2>3 DEF ToSet
    <2> QED BY <2>4 DEF t
  <1> QED BY <1>2, <1>3, <1>5, <1>6

\* One more chunk behind the others.
LEMMA DividesMore ==
  ASSUME NEW chunks, NEW documents, Divides(length, chunks, documents),
         NEW chunk \in Seq(Docs), Proper(length, chunk), Before(documents, ToSet(chunk))
  PROVE  Divides(length, Append(chunks, chunk), documents \cup ToSet(chunk))
  <1> DEFINE more == Append(chunks, chunk)
             n == Len(chunks)
  <1>1. n \in Nat /\ DOMAIN chunks = 1..n
    BY DEF Divides
  <1>2. /\ more \in Seq(Seq(Docs)) /\ DOMAIN more = 1..(n + 1) /\ more[n + 1] = chunk
        /\ \A i \in 1..n : more[i] = chunks[i]
    BY DEF Divides
  <1> HIDE DEF more, n
  <1>3. \A i \in 1..(n + 1) : i \in 1..n \/ i = n + 1
    BY <1>1
  <1>4. 1..n \subseteq 1..(n + 1) /\ n + 1 \in 1..(n + 1)
    BY <1>1
  <1>5. \A i \in DOMAIN more : Proper(length, more[i])
    BY <1>1, <1>2, <1>3 DEF Divides
  <1>6. InSequence(more)
    <2> SUFFICES ASSUME NEW i \in DOMAIN more, NEW j \in DOMAIN more, i < j
                 PROVE  Before(ToSet(more[i]), ToSet(more[j]))
      BY DEF InSequence
    <2>1. i \in 1..n /\ (j \in 1..n \/ j = n + 1)
      BY <1>1, <1>2, <1>3
    <2>2. CASE j \in 1..n
      BY <1>1, <1>2, <2>1, <2>2 DEF Divides, InSequence
    <2>3. CASE j = n + 1
      <3>1. ToSet(more[i]) \subseteq documents
        BY <1>1, <1>2, <2>1 DEF Divides, Parts
      <3> QED BY <1>2, <2>3, <3>1 DEF Before
    <2> QED BY <2>1, <2>2, <2>3
  <1>7. Parts(more) = documents \cup ToSet(chunk)
    BY <1>1, <1>2, <1>3, <1>4 DEF Divides, Parts
  <1> QED BY <1>2, <1>5, <1>6, <1>7 DEF Divides, more

\* A document alone is within the limits.
LEMMA AloneIsProper ==
  ASSUME NEW d \in Docs
  PROVE  Proper(length, <<d>>) /\ ToSet(<<d>>) = {d} /\ <<d>> \in Seq(Docs)
  <1>1. <<d>> \in Seq(Docs) /\ <<d>> # <<>> /\ Len(<<d>>) = 1
    OBVIOUS
  <1>2. ToSet(<<d>>) = {d}
    BY DEF ToSet
  <1>3. Cardinality({d}) = 1
    BY FS_Singleton
  <1>4. 1 <= MaxDocuments
    BY RoslynSymbolGraphAssumption
  <1> QED BY <1>1, <1>2, <1>3, <1>4 DEF Proper, Fits

\* A document that comes after those that there are is put where it belongs.
LEMMA ChunkedStep ==
  ASSUME Lengthy, NEW acc, NEW documents \in SUBSET Docs, Splits(length, acc, documents),
         NEW d \in Docs, Before(documents, {d})
  PROVE  /\ Splits(length, Chunked(acc, d), documents \cup {d})
         /\ Chunked(acc, d).current # <<>>
  <1> DEFINE current == acc.current
             chunks == acc.chunks
             bytes == acc.bytes
             longer == Append(current, d)
  <1>0. /\ IsFiniteSet(Docs) /\ Docs \subseteq Nat
        /\ MaxDocuments \in Nat \ {0} /\ MaxBytes \in Nat \ {0}
    BY RoslynSymbolGraphAssumption
  <1>1. /\ chunks \in Seq(Seq(Docs)) /\ current \in Seq(Docs) /\ bytes \in Nat
        /\ acc = [chunks |-> chunks, current |-> current, bytes |-> bytes]
    BY DEF Splits, Acc
  <1>2. PICK done \in SUBSET documents :
          /\ Divides(length, chunks, done)
          /\ documents = done \cup ToSet(current)
          /\ Before(done, ToSet(current))
    BY DEF Splits
  <1>3. /\ bytes = Sum(length, ToSet(current))
        /\ current # <<>> => Proper(length, current)
        /\ current = <<>> => chunks = <<>>
    BY DEF Splits
  <1>4. length[d] \in Nat
    BY DEF Lengthy
  <1>5. /\ Sum(length, {}) = 0
        /\ \A T \in SUBSET Docs : Sum(length, T) \in Nat
        /\ \A T \in SUBSET Docs, x \in Docs :
              x \notin T => Sum(length, T \cup {x}) = Sum(length, T) + length[x]
    BY <1>0, SumOfMore DEF Lengthy
  <1>6. Sum(length, {d}) = length[d]
    <2>1. {} \in SUBSET Docs /\ d \notin {} /\ {} \cup {d} = {d}
      OBVIOUS
    <2>2. Sum(length, {} \cup {d}) = Sum(length, {}) + length[d]
      BY <1>5, <2>1
    <2> QED BY <1>4, <1>5, <2>1, <2>2
  <1>7. /\ ToSet(current) \in SUBSET Docs /\ longer \in Seq(Docs) /\ longer # <<>>
        /\ ToSet(longer) = ToSet(current) \cup {d} /\ Len(longer) = Len(current) + 1
        /\ Len(current) \in Nat
    <2>1. current \in Seq(Docs)
      BY <1>1
    <2> HIDE DEF current
    <2>2. longer \in Seq(Docs) /\ longer # <<>> /\ Len(longer) = Len(current) + 1
          /\ Len(current) \in Nat
      BY <2>1
    <2>3. ToSet(current) \in SUBSET Docs /\ ToSet(Append(current, d)) = ToSet(current) \cup {d}
      BY <2>1, Elements
    <2> QED BY <2>2, <2>3
  <1>8. d \notin documents
    <2>1. d \in Nat /\ ~ (d < d)
      BY <1>0
    <2> QED BY <2>1 DEF Before
  <1>9. d \notin ToSet(current) /\ Before(done, {d}) /\ Before(ToSet(current), {d})
    BY <1>2, <1>8 DEF Before
  <1> DEFINE full == current # <<>> /\ (Len(current) = MaxDocuments
                                          \/ bytes + length[d] > MaxBytes)
  <1>10. CASE full
    <2> DEFINE pushed == Append(chunks, current)
    <2>1. Chunked(acc, d) = [chunks |-> pushed, current |-> <<d>>, bytes |-> length[d]]
      <3>1. Pushed(acc) = [chunks |-> pushed, current |-> <<>>, bytes |-> 0]
        BY DEF Pushed
      <3>2. Added(Pushed(acc), d) = [chunks |-> pushed, current |-> Append(<<>>, d),
                                     bytes |-> 0 + length[d]]
        BY <3>1 DEF Added
      <3>3. Append(<<>>, d) = <<d>> /\ 0 + length[d] = length[d]
        BY <1>4
      <3> QED BY <1>10, <3>2, <3>3 DEF Chunked
    <2>2. Divides(length, pushed, documents)
      BY <1>1, <1>2, <1>3, <1>10, DividesMore
    <2>3. pushed \in Seq(Seq(Docs))
      BY <2>2 DEF Divides
    <2> HIDE DEF pushed
    <2>4. /\ Proper(length, <<d>>) /\ ToSet(<<d>>) = {d} /\ <<d>> \in Seq(Docs) /\ <<d>> # <<>>
      BY AloneIsProper
    <2>5. PICK next : next = Chunked(acc, d)
      OBVIOUS
    <2>6. /\ next \in Acc /\ next.chunks = pushed /\ next.current = <<d>>
          /\ next.bytes = length[d]
      BY <1>4, <2>1, <2>3, <2>4, <2>5 DEF Acc
    <2>7. \E given \in SUBSET (documents \cup {d}) :
             /\ Divides(length, next.chunks, given)
             /\ documents \cup {d} = given \cup ToSet(next.current)
             /\ Before(given, ToSet(next.current))
      BY <2>2, <2>4, <2>6
    <2>8. Splits(length, next, documents \cup {d}) /\ next.current # <<>>
      BY <1>6, <2>4, <2>6, <2>7 DEF Splits
    <2> QED BY <2>5, <2>8
  <1>11. CASE ~ full
    <2>1. Chunked(acc, d) = [chunks |-> chunks, current |-> longer,
                             bytes |-> bytes + length[d]]
      <3>1. Added(acc, d) = [chunks |-> chunks, current |-> longer,
                             bytes |-> bytes + length[d]]
        BY <1>1 DEF Added
      <3> QED BY <1>11, <3>1 DEF Chunked
    <2>2. Sum(length, ToSet(longer)) = bytes + length[d]
      BY <1>3, <1>5, <1>7, <1>9
    <2>3. Proper(length, longer)
      <3>1. CASE current = <<>>
        <4>1. longer = <<d>>
          BY <3>1
        <4> QED BY <4>1, AloneIsProper
      <3>2. CASE current # <<>>
        <4>1. Len(current) # MaxDocuments /\ ~ (bytes + length[d] > MaxBytes)
          BY <1>11, <3>2
        <4>2. Cardinality(ToSet(current)) = Len(current) /\ Len(current) <= MaxDocuments
          BY <1>3, <3>2 DEF Proper, Fits
        <4>3. Cardinality(ToSet(longer)) = Len(current) + 1
          <5>1. IsFiniteSet(ToSet(current))
            BY <1>0, <1>7, FS_Subset
          <5>2. Cardinality(ToSet(current) \cup {d}) = Cardinality(ToSet(current)) + 1
            BY <1>9, <5>1, FS_AddElement
          <5> QED BY <1>7, <4>2, <5>2
        <4>4. Len(current) + 1 <= MaxDocuments
          BY <1>0, <1>7, <4>1, <4>2
        <4>5. bytes + length[d] <= MaxBytes
          BY <1>0, <1>1, <1>4, <4>1
        <4> QED BY <1>7, <2>2, <4>3, <4>4, <4>5 DEF Proper, Fits
      <3> QED BY <3>1, <3>2
    <2>5. PICK next : next = Chunked(acc, d)
      OBVIOUS
    <2> HIDE DEF longer, current, chunks, bytes
    <2>6. /\ next \in Acc /\ next.chunks = chunks /\ next.current = longer
          /\ next.bytes = bytes + length[d]
      BY <1>1, <1>4, <1>7, <2>1, <2>5 DEF Acc
    <2>7. /\ done \in SUBSET (documents \cup {d})
          /\ documents \cup {d} = done \cup ToSet(longer)
          /\ Before(done, ToSet(longer))
      BY <1>2, <1>7, <1>9 DEF Before
    <2>8. Splits(length, next, documents \cup {d}) /\ next.current # <<>>
      BY <1>2, <1>7, <2>2, <2>3, <2>6, <2>7 DEF Splits
    <2> QED BY <2>5, <2>8
  <1> QED BY <1>10, <1>11

LEMMA NothingSplits == ASSUME Lengthy PROVE Splits(length, NoChunk, {})
  <1>1. NoChunk \in Acc /\ NoChunk.chunks = <<>> /\ NoChunk.current = <<>> /\ NoChunk.bytes = 0
    BY DEF NoChunk, Acc
  <1>2. ToSet(<<>>) = {}
    BY DEF ToSet
  <1>3. Divides(length, <<>>, {})
    BY DEF Divides, InSequence, Parts
  <1>4. Sum(length, {}) = 0
    BY SumOfMore, RoslynSymbolGraphAssumption DEF Lengthy
  <1>5. /\ {} \in SUBSET {} /\ {} = {} \cup ToSet(<<>>) /\ Before({}, ToSet(<<>>))
    BY <1>2 DEF Before
  <1> QED BY <1>1, <1>2, <1>3, <1>4, <1>5 DEF Splits

LEMMA ChunkedTypes ==
  ASSUME Lengthy, NEW acc \in Acc, NEW d \in Docs
  PROVE  Chunked(acc, d) \in Acc
  <1>1. /\ acc.chunks \in Seq(Seq(Docs)) /\ acc.current \in Seq(Docs) /\ acc.bytes \in Nat
        /\ length[d] \in Nat
    BY DEF Acc, Lengthy
  <1>2. Added(acc, d) \in Acc
    BY <1>1 DEF Added, Acc
  <1>3. Pushed(acc) \in Acc
    BY <1>1 DEF Pushed, Acc
  <1>4. Added(Pushed(acc), d) \in Acc
    <2>1. PICK pushed \in Acc : pushed = Pushed(acc)
      BY <1>3
    <2>2. /\ pushed.chunks \in Seq(Seq(Docs)) /\ pushed.current \in Seq(Docs)
          /\ pushed.bytes \in Nat
      BY DEF Acc
    <2>3. Added(pushed, d) \in Acc
      BY <1>1, <2>2 DEF Added, Acc
    <2> QED BY <2>1, <2>3
  <1> QED BY <1>2, <1>4 DEF Chunked

\* Step by step, along the documents.
LEMMA ChunkedPath ==
  ASSUME Lengthy, NEW s \in Seq(Docs)
  PROVE  \E path :
            /\ path[0] = NoChunk /\ path[Len(s)] = FoldLeft(Chunked, NoChunk, s)
            /\ \A k \in 1..Len(s) : path[k] = Chunked(path[k - 1], s[k])
            /\ \A k \in 0..Len(s) : path[k] \in Acc
  <1> DEFINE n == Len(s)
             step == [p \in (1..n) \X Acc |-> Chunked(p[2], s[p[1]])]
             g == CHOOSE h : h = [t \in SUBSET DOMAIN s |-> IF t = {} THEN NoChunk
                                  ELSE Chunked(h[t \ {Max(t)}], s[Max(t)])]
  <1>1. n \in Nat /\ DOMAIN s = 1..n /\ \A k \in 1..n : s[k] \in Docs
    OBVIOUS
  <1>2. FoldLeft(Chunked, NoChunk, s) = g[DOMAIN s]
    BY DEF FoldLeft, MapThenFoldSet
  <1>3. step \in [(1..n) \X Acc -> Acc]
    BY <1>1, ChunkedTypes
  <1>4. \A k \in 1..n, acc \in Acc : step[<<k, acc>>] = Chunked(acc, s[k])
    OBVIOUS
  <1>5. NoChunk \in Acc
    BY DEF NoChunk, Acc
  <1>6. \A t \in SUBSET (1..n) : t # {} => Max(t) \in 1..n
    BY <1>1, UpTo
  <1> HIDE DEF n, step
  <1>7. PICK h \in [SUBSET (1..n) -> Acc] :
          FoldsSequence(n, NoChunk, step, h)
    BY <1>1, <1>3, <1>5, SequenceFoldExists
  <1>8. h = [t \in SUBSET (1..n) |-> IF t = {} THEN NoChunk
                                     ELSE Chunked(h[t \ {Max(t)}], s[Max(t)])]
    <2>1. ASSUME NEW t \in SUBSET (1..n), t # {}
          PROVE  step[<<Max(t), h[t \ {Max(t)}]>>] = Chunked(h[t \ {Max(t)}], s[Max(t)])
      <3>1. Max(t) \in 1..n /\ h[t \ {Max(t)}] \in Acc
        BY <1>6, <2>1
      <3> QED BY <1>4, <3>1
    <2> QED BY <1>7, <2>1 DEF FoldsSequence
  <1>9. g = [t \in SUBSET (1..n) |-> IF t = {} THEN NoChunk
                                     ELSE Chunked(g[t \ {Max(t)}], s[Max(t)])]
    BY <1>1, <1>8
  <1> HIDE DEF g
  <1>10. g = h
    <2> DEFINE last == [t \in SUBSET (1..n) |-> Max(t)]
               same == {t \in SUBSET (1..n) : g[t] = h[t]}
    <2>1. \A t \in SUBSET (1..n) : t # {} => last[t] = Max(t) /\ last[t] \in t
      BY <1>1, UpTo
    <2>2. {} \in same
      BY <1>8, <1>9
    <2>3. ASSUME NEW t \in SUBSET (1..n), t # {} /\ t \ {last[t]} \in same PROVE t \in same
      <3>1. g[t \ {Max(t)}] = h[t \ {Max(t)}]
        BY <2>1, <2>3
      <3>2. /\ g[t] = Chunked(g[t \ {Max(t)}], s[Max(t)])
            /\ h[t] = Chunked(h[t \ {Max(t)}], s[Max(t)])
        BY <1>8, <1>9, <2>3
      <3> QED BY <3>1, <3>2
    <2> HIDE DEF same, last
    <2>4. PICK all, choose, good : all = 1..n /\ choose = last /\ good = same
      OBVIOUS
    <2>5. IsFiniteSet(all) /\ {} \in good
      BY <1>1, <2>2, <2>4, UpTo
    <2>6. Inductive(all, choose, good)
      BY <2>3, <2>4, <2>5 DEF Inductive
    <2>7. Chooses(all, choose)
      BY <2>1, <2>4 DEF Chooses
    <2>9. SUBSET all \subseteq good
      BY <2>5, <2>6, <2>7, SubsetInduction
    <2>8. \A t \in SUBSET (1..n) : g[t] = h[t]
      BY <2>4, <2>9 DEF same
    <2> QED BY <1>8, <1>9, <2>8
  <1>11. PICK path \in [0..n -> Acc] :
           /\ path[0] = NoChunk /\ path[n] = h[1..n]
           /\ \A k \in 1..n : path[k] = step[<<k, path[k - 1]>>]
    <2>1. n \in Nat
      BY <1>1
    <2>2. PICK A, base, next : A = Acc /\ base = NoChunk /\ next = step
      OBVIOUS
    <2>3. FoldsSequence(n, base, next, h)
      BY <1>7, <2>2
    <2>5. base \in A
      BY <1>5, <2>2
    <2>6. next \in [(1..n) \X A -> A]
      BY <1>3, <2>2
    <2>4. Arrives(n, A, base, next, h[1..n])
      BY ONLY <2>1, <2>3, <2>5, <2>6, FoldPath
    <2> QED BY <2>2, <2>4 DEF Walks, Arrives
  <1>12. \A k \in 0..n : path[k] \in Acc
    OBVIOUS
  <1>13. \A k \in 1..n : k - 1 \in 0..n
    BY <1>1
  <1>14. \A k \in 1..n : path[k] = Chunked(path[k - 1], s[k])
    BY <1>4, <1>11, <1>12, <1>13
  <1>15. path[n] = FoldLeft(Chunked, NoChunk, s)
    BY <1>1, <1>2, <1>10, <1>11
  <1> QED BY <1>11, <1>12, <1>14, <1>15 DEF n

\* Every document comes in one chunk, in order, and no chunk is above the limits.
LEMMA ChunksDivide ==
  ASSUME Lengthy, NEW documents \in SUBSET Docs, NEW s \in Ordered(documents)
  PROVE  Divides(length, chunkSymbolGraphDocuments(s), documents)
  <1> DEFINE n == Cardinality(documents)
             Given(k) == {s[i] : i \in 1..k}
  <1>1. IsFiniteSet(documents) /\ n \in Nat
    BY RoslynSymbolGraphAssumption, FS_Subset, FS_CardinalityType
  <1>2. /\ s \in [1..n -> documents]
        /\ \A i, j \in 1..n : i < j => s[i] < s[j]
    BY DEF Ordered
  <1> HIDE DEF n
  <1>3. s \in Seq(Docs) /\ Len(s) = n /\ \A k \in 1..n : s[k] \in Docs
    BY <1>1, <1>2
  <1>4. Given(n) = documents
    <2>1. s \in Injection(1..n, documents)
      <3>1. ASSUME NEW i \in 1..n, NEW j \in 1..n, s[i] = s[j] PROVE i = j
        <4>1. ~ (s[i] < s[j]) /\ ~ (s[j] < s[i])
          <5>1. s[i] \in Nat /\ s[j] \in Nat
            BY <1>3, RoslynSymbolGraphAssumption
          <5> QED BY <3>1, <5>1
        <4>2. i \in Nat /\ j \in Nat
          OBVIOUS
        <4> QED BY <1>2, <4>1, <4>2
      <3> QED BY <1>2, <3>1 DEF Injection, IsInjective
    <2>2. Cardinality(1..n) = n
      BY <1>1, FS_Interval
    <2>3. s \in Surjection(1..n, documents)
      BY <1>1, <2>1, <2>2, FS_Injection DEF n
    <2> QED BY <1>2, <2>3 DEF Surjection
  <1>5. PICK path :
          /\ path[0] = NoChunk /\ path[n] = FoldLeft(Chunked, NoChunk, s)
          /\ \A k \in 1..n : path[k] = Chunked(path[k - 1], s[k])
          /\ \A k \in 0..n : path[k] \in Acc
    BY <1>3, ChunkedPath
  <1>6. \A k \in 0..n : Given(k) \in SUBSET Docs
    BY <1>1, <1>3
  <1>7. ASSUME NEW k \in 0..(n - 1), Splits(length, path[k], Given(k))
        PROVE  Splits(length, path[k + 1], Given(k + 1)) /\ path[k + 1].current # <<>>
    <2>1. k + 1 \in 1..n /\ (k + 1) - 1 = k /\ k \in 0..n /\ k \in Nat
      BY <1>1
    <2>2. Given(k + 1) = Given(k) \cup {s[k + 1]}
      <3>1. \A i \in 1..(k + 1) : i \in 1..k \/ i = k + 1
        BY <2>1
      <3>2. 1..k \subseteq 1..(k + 1) /\ k + 1 \in 1..(k + 1)
        BY <2>1
      <3> QED BY <3>1, <3>2
    <2>3. Before(Given(k), {s[k + 1]})
      <3>1. \A i \in 1..k : i \in 1..n /\ i < k + 1
        BY <1>1, <2>1
      <3> QED BY <1>2, <2>1, <3>1 DEF Before
    <2>4. path[k + 1] = Chunked(path[k], s[k + 1])
      BY <1>5, <2>1
    <2>5. Given(k) \in SUBSET Docs /\ s[k + 1] \in Docs
      BY <1>3, <1>6, <2>1
    <2> HIDE DEF Given
    <2> QED BY <1>7, <2>2, <2>3, <2>4, <2>5, ChunkedStep
  <1>8. Splits(length, path[0], Given(0))
    <2>1. Given(0) = {}
      BY UpTo
    <2> HIDE DEF Given
    <2> QED BY <1>5, <2>1, NothingSplits
  <1> DEFINE good == {k \in 0..n : Splits(length, path[k], Given(k))}
  <1>9. 0..n \subseteq good
    <2>1. 0 \in good /\ \A k \in 0..(n - 1) : k \in good => k + 1 \in good
      <3>1. 0 \in 0..n /\ \A k \in 0..(n - 1) : k + 1 \in 0..n
        BY <1>1
      <3> HIDE DEF Given
      <3> QED BY <1>7, <1>8, <3>1
    <2> HIDE DEF good
    <2> QED BY <1>1, <2>1, CountUp
  <1>10. PICK all \in Acc : all = path[n] /\ Splits(length, all, documents)
    <2>1. n \in 0..n
      BY <1>1
    <2>2. Splits(length, path[n], Given(n)) /\ path[n] \in Acc
      BY <1>5, <1>9, <2>1
    <2> HIDE DEF Given
    <2> QED BY <1>4, <2>2
  <1>11. chunkSymbolGraphDocuments(s)
           = IF all.current = <<>> THEN all.chunks ELSE Append(all.chunks, all.current)
    <2>1. FoldLeft(Chunked, NoChunk, s) = all
      BY <1>5, <1>10
    <2> QED BY <2>1 DEF chunkSymbolGraphDocuments
  <1>12. PICK done \in SUBSET documents :
          /\ Divides(length, all.chunks, done)
          /\ documents = done \cup ToSet(all.current)
          /\ Before(done, ToSet(all.current))
    BY <1>10 DEF Splits
  <1>13. CASE all.current = <<>>
    <2>1. ToSet(<<>>) = {}
      BY DEF ToSet
    <2> QED BY <1>11, <1>12, <1>13, <2>1
  <1>14. CASE all.current # <<>>
    <2>1. all.current \in Seq(Docs) /\ Proper(length, all.current)
      BY <1>10, <1>14 DEF Splits, Acc
    <2> QED BY <1>11, <1>12, <1>14, <2>1, DividesMore
  <1> QED BY <1>13, <1>14

LEMMA FirstChunk ==
  ASSUME NEW bytesOf, NEW chunks, NEW documents, Divides(bytesOf, chunks, documents),
         chunks # <<>>
  PROVE  LET chunk == ToSet(Head(chunks))
         IN  /\ Fits(bytesOf, chunk) /\ chunk # {} /\ chunk \subseteq documents
             /\ Divides(bytesOf, Tail(chunks), documents \ chunk)
             /\ Before(chunk, documents \ chunk)
             /\ Len(chunks) = 1 <=> Tail(chunks) = <<>>
             /\ documents \subseteq Docs
  <1> DEFINE first == chunks[1]
             rest == Tail(chunks)
             chunk == ToSet(first)
             n == Len(chunks)
  <1>1. /\ n \in Nat \ {0} /\ DOMAIN chunks = 1..n /\ Head(chunks) = first
        /\ \A i \in 1..n : chunks[i] \in Seq(Docs)
    BY DEF Divides
  <1>2. /\ rest \in Seq(Seq(Docs)) /\ Len(rest) = n - 1 /\ DOMAIN rest = 1..(n - 1)
        /\ \A i \in 1..(n - 1) : rest[i] = chunks[i + 1]
        /\ n = 1 <=> rest = <<>>
    <2>1. PICK S : S = Seq(Docs)
      OBVIOUS
    <2>2. chunks \in Seq(S)
      BY <2>1 DEF Divides
    <2>3. rest \in Seq(S) /\ Len(rest) = n - 1 /\ DOMAIN rest = 1..(n - 1)
      BY <2>2
    <2>4. \A i \in 1..(n - 1) : rest[i] = chunks[i + 1]
      BY <2>2
    <2>5. Len(rest) = 0 <=> rest = <<>>
      BY <2>3
    <2>6. n \in Nat \ {0}
      BY <1>1
    <2> HIDE DEF n, rest
    <2> QED BY <2>1, <2>3, <2>4, <2>5, <2>6
  <1>3. \A i \in 1..(n - 1) : i + 1 \in 1..n /\ 1 < i + 1
    BY <1>1
  <1>4. \A i \in 1..n : i = 1 \/ i - 1 \in 1..(n - 1)
    BY <1>1
  <1>5. 1 \in 1..n
    BY <1>1
  <1> HIDE DEF n, rest, first
  <1>6. Proper(bytesOf, first)
    BY <1>1, <1>5 DEF Divides, first
  <1>7. first \in Seq(Docs) /\ chunk # {}
    <2>1. first \in Seq(Docs) /\ first # <<>>
      BY <1>1, <1>5, <1>6 DEF first, Proper
    <2> QED BY <2>1, Elements
  <1>8. Parts(chunks) = chunk \cup Parts(rest)
    <2>1. \A i \in 1..n : i # 1 => rest[i - 1] = chunks[i]
      BY <1>1, <1>2, <1>4
    <2>2. ASSUME NEW d PROVE d \in Parts(chunks) <=> d \in chunk \/ d \in Parts(rest)
      <3>1. d \in Parts(chunks) <=> \E i \in 1..n : d \in ToSet(chunks[i])
        BY <1>1 DEF Parts
      <3>2. d \in Parts(rest) <=> \E i \in 1..(n - 1) : d \in ToSet(rest[i])
        BY <1>2 DEF Parts
      <3>3. d \in chunk <=> d \in ToSet(chunks[1])
        BY DEF first
      <3> QED BY <1>2, <1>3, <1>4, <1>5, <2>1, <3>1, <3>2, <3>3
    <2> QED BY <2>2
  <1>9. Before(chunk, Parts(rest))
    <2> SUFFICES ASSUME NEW i \in 1..(n - 1) PROVE Before(chunk, ToSet(rest[i]))
      BY <1>2 DEF Before, Parts
    <2>1. Before(ToSet(chunks[1]), ToSet(chunks[i + 1]))
      BY <1>1, <1>3, <1>5 DEF Divides, InSequence
    <2> QED BY <1>2, <2>1 DEF first
  <1>10. documents \subseteq Docs
    <2>1. \A i \in 1..n : ToSet(chunks[i]) \subseteq Docs
      BY <1>1, Elements
    <2> QED BY <1>1, <2>1 DEF Divides, Parts
  <1>11. chunk \cap Parts(rest) = {}
    <2>1. \A d \in Docs : ~ (d < d)
      BY RoslynSymbolGraphAssumption
    <2>2. chunk \subseteq Docs
      BY <1>8, <1>10 DEF Divides
    <2> QED BY <1>9, <2>1, <2>2 DEF Before
  <1>12. Parts(rest) = documents \ chunk
    BY <1>8, <1>11 DEF Divides
  <1>13. Divides(bytesOf, rest, documents \ chunk)
    <2>1. \A i \in 1..(n - 1) : Proper(bytesOf, rest[i])
      BY <1>1, <1>2, <1>3 DEF Divides
    <2>2. InSequence(rest)
      <3> SUFFICES ASSUME NEW i \in 1..(n - 1), NEW j \in 1..(n - 1), i < j
                   PROVE  Before(ToSet(rest[i]), ToSet(rest[j]))
        BY <1>2 DEF InSequence
      <3>1. i + 1 \in 1..n /\ j + 1 \in 1..n /\ i + 1 < j + 1
        BY <1>3
      <3>2. Before(ToSet(chunks[i + 1]), ToSet(chunks[j + 1]))
        BY <1>1, <3>1 DEF Divides, InSequence
      <3> QED BY <1>2, <3>2
    <2> QED BY <1>2, <1>12, <2>1, <2>2 DEF Divides
  <1>14. chunk \subseteq documents
    BY <1>8 DEF Divides
  <1> QED
    BY <1>1, <1>2, <1>6, <1>7, <1>9, <1>10, <1>12, <1>13, <1>14 DEF Proper, n, rest

-----------------------------------------------------------------------------
(***************************************************************************)
(* What is left of the documents, and what has become of the others         *)
(***************************************************************************)
Asking == {"notification", "activate", "dispatch", "delay"}

Left == UNION {ToSet(graph.chunks[i]) : i \in DOMAIN graph.chunks}

Chunks ==
    /\ Lengthy
    /\ Divides(length, graph.chunks, Left)
    /\ graph.stage \in Asking <=> graph.chunks # <<>>

\* A document that was given is to be sent, has been processed or is known to be
\* missing; unless the crawl knows that something has failed, each was given.
Accounts ==
    /\ graph.stage \in Waits \cup {"prepare"} => graph.processed = {} /\ graph.missing = {}
    /\ graph.stage \in Asking \cup {"delivered"} /\ ~ graph.failed =>
         /\ Left = Docs \ (graph.processed \cup graph.missing)
         /\ graph.processed \subseteq Docs \ graph.missing /\ graph.missing \subseteq Docs

LEMMA LeftIsParts == Left = Parts(graph.chunks) /\ (graph.chunks = <<>> => Left = {})
  BY DEF Left, Parts

\* Nothing is left of no chunks.
LEMMA NoChunks == ASSUME NEW bytesOf PROVE Divides(bytesOf, <<>>, {})
  BY DEF Divides, InSequence, Parts

LEMMA PopulateEffect ==
  ASSUME GraphType, Lengthy, PopulateStarts
  PROVE  \E prepared \in SUBSET Docs, chunks \in Seq(Seq(Docs)) :
            /\ Divides(length, chunks, prepared)
            /\ chunks = <<>> <=> prepared = {}
            /\ graph'.chunks = chunks /\ graph'.failed = (prepared # Docs)
            /\ graph'.processed = graph.processed /\ graph'.missing = graph.missing
            /\ prepared = {} => graph'.stage = "delivered"
            /\ prepared # {} => graph'.stage \in {"activate", "notification"}
  <1>1. PICK prepared \in SUBSET Docs : \E documents \in Ordered(prepared) :
            LET chunks == chunkSymbolGraphDocuments(documents)
                given  == [graph EXCEPT !.chunks = chunks, !.failed = prepared # Docs]
            IN  graph' = IF prepared = {} THEN [given EXCEPT !.stage = "delivered"]
                         ELSE IF client.received
                           THEN [given EXCEPT !.stage = "activate", !.initialized = TRUE]
                         ELSE [given EXCEPT !.stage = "notification"]
    BY DEF PopulateStarts
  <1>7. PICK documents \in Ordered(prepared) :
            LET chunks == chunkSymbolGraphDocuments(documents)
                given  == [graph EXCEPT !.chunks = chunks, !.failed = prepared # Docs]
            IN  graph' = IF prepared = {} THEN [given EXCEPT !.stage = "delivered"]
                         ELSE IF client.received
                           THEN [given EXCEPT !.stage = "activate", !.initialized = TRUE]
                         ELSE [given EXCEPT !.stage = "notification"]
    BY <1>1
  <1>2. PICK chunks, failed : chunks = chunkSymbolGraphDocuments(documents)
                              /\ failed = (prepared # Docs)
    OBVIOUS
  <1>3. Divides(length, chunks, prepared)
    BY <1>2, ChunksDivide
  <1>4. chunks = <<>> <=> prepared = {}
    <2>1. chunks = <<>> => prepared = {}
      BY <1>3 DEF Divides, Parts
    <2>2. chunks # <<>> => prepared # {}
      BY <1>3, FirstChunk
    <2> QED BY <2>1, <2>2
  <1>5. /\ prepared = {} => graph' = [graph EXCEPT !.chunks = chunks, !.failed = failed,
                                                  !.stage = "delivered"]
        /\ prepared # {} => \/ graph' = [graph EXCEPT !.chunks = chunks, !.failed = failed,
                                            !.stage = "activate", !.initialized = TRUE]
                            \/ graph' = [graph EXCEPT !.chunks = chunks, !.failed = failed,
                                            !.stage = "notification"]
    BY <1>7, <1>2 DEF GraphType
  <1>6. /\ graph'.chunks = chunks /\ graph'.failed = failed
        /\ graph'.processed = graph.processed /\ graph'.missing = graph.missing
        /\ prepared = {} => graph'.stage = "delivered"
        /\ prepared # {} => graph'.stage \in {"activate", "notification"}
    BY <1>5 DEF GraphType
  <1> QED BY <1>2, <1>3, <1>4, <1>6 DEF Divides

-----------------------------------------------------------------------------
(***************************************************************************)
(* The steps of the provider that is promised                               *)
(***************************************************************************)
Promise == [Provider!Next]_(Provider!vars)

LEMMA NothingPromised ==
  ASSUME UNCHANGED length, Left' = Left, Outcome' = Outcome
  PROVE  Promise
  BY DEF Promise, Provider!vars, Left

LEMMA PromiseAsked ==
  ASSUME UNCHANGED length, Outcome # "running", Outcome' = "running", Left' \in SUBSET Docs
  PROVE  Promise
  BY DEF Promise, Provider!Next, Provider!Asked, Left

LEMMA PromiseChunk ==
  ASSUME UNCHANGED length, Outcome = "running", Outcome' = "running",
         NEW chunk \in SUBSET Left, chunk # {}, Fits(length, chunk),
         Before(chunk, Left \ chunk), Left' = Left \ chunk
  PROVE  Promise
  <1>1. Provider!WithinLimits(chunk)
    BY ProviderLimits
  <1>2. Provider!InOrder(chunk)
    BY DEF Provider!InOrder, Before, Left
  <1>3. chunk \in (SUBSET Left) \ {{}}
    OBVIOUS
  <1>4. Provider!Chunk
    BY <1>1, <1>2, <1>3 DEF Provider!Chunk, Left
  <1> QED BY <1>4 DEF Promise, Provider!Next

LEMMA PromiseEnds ==
  ASSUME UNCHANGED length, Outcome = "running", Outcome' = "ended", Left = {}, Left' = {}
  PROVE  Promise
  BY DEF Promise, Provider!Next, Provider!Ends, Left

LEMMA PromiseFails ==
  ASSUME UNCHANGED length, Outcome = "running", Outcome' = "failed", Left' = {}
  PROVE  Promise
  BY DEF Promise, Provider!Next, Provider!Fails, Left

LEMMA PromiseForgotten ==
  ASSUME UNCHANGED length, Outcome' = "none", Left' = {}
  PROVE  Promise
  BY DEF Promise, Provider!Next, Provider!Forgotten, Left

LEMMA OutcomeOfStages ==
  /\ graph.stage \in Asking \cup {"delivered"} => Outcome = "running"
  /\ graph.stage \in Waits \cup {"prepare"} => Outcome = "none"
  /\ graph.stage = "ended" => Outcome = "ended"
  /\ graph.stage = "failed" => Outcome = "failed"
  BY DEF Outcome, Asking, Waits

LEMMA OutcomeOfNextStages ==
  /\ graph'.stage \in Asking \cup {"delivered"} => Outcome' = "running"
  /\ graph'.stage \in Waits \cup {"prepare"} => Outcome' = "none"
  /\ graph'.stage = "ended" => Outcome' = "ended"
  /\ graph'.stage = "failed" => Outcome' = "failed"
  BY DEF Outcome, Asking, Waits

\* What a step makes of the chunks, the documents and the promise.
Moved == Chunks' /\ Accounts' /\ Promise

\* The stage may change among those in which the same is known.
LEMMA StageMoves ==
  ASSUME Chunks, Accounts, UNCHANGED length,
         graph'.chunks = graph.chunks, graph'.processed = graph.processed,
         graph'.missing = graph.missing, graph'.failed = graph.failed,
         \/ graph.stage \in Asking /\ graph'.stage \in Asking
         \/ graph.stage \in Waits /\ graph'.stage \in Waits \cup {"prepare"}
         \/ graph'.stage = graph.stage
  PROVE  Moved
  <1>1. Left' = Left
    BY DEF Left
  <1>2. Outcome' = Outcome
    BY OutcomeOfStages, OutcomeOfNextStages DEF Outcome
  <1>3. Chunks'
    BY <1>1 DEF Chunks, Lengthy, Asking, Waits
  <1>4. Accounts'
    BY <1>1 DEF Accounts, Asking, Waits
  <1> QED BY <1>1, <1>2, <1>3, <1>4, NothingPromised DEF Moved

LEMMA PopulateMoves ==
  ASSUME GraphType, Chunks, Accounts, PopulateStarts
  PROVE  Moved
  <1>1. graph.stage = "prepare" /\ UNCHANGED length
    BY DEF PopulateStarts
  <1>2. PICK prepared \in SUBSET Docs, chunks \in Seq(Seq(Docs)) :
            /\ Divides(length, chunks, prepared)
            /\ chunks = <<>> <=> prepared = {}
            /\ graph'.chunks = chunks /\ graph'.failed = (prepared # Docs)
            /\ graph'.processed = graph.processed /\ graph'.missing = graph.missing
            /\ prepared = {} => graph'.stage = "delivered"
            /\ prepared # {} => graph'.stage \in {"activate", "notification"}
    BY PopulateEffect DEF Chunks
  <1>3. Left' = prepared
    BY <1>2 DEF Divides, Parts, Left
  <1>4. graph.processed = {} /\ graph.missing = {}
    BY <1>1 DEF Accounts
  <1>5. Chunks'
    BY <1>1, <1>2, <1>3 DEF Chunks, Lengthy, Asking
  <1>6. Accounts'
    BY <1>2, <1>3, <1>4 DEF Accounts, Asking, Waits
  <1>7. Promise
    BY <1>1, <1>2, <1>3, OutcomeOfStages, OutcomeOfNextStages, PromiseAsked DEF Asking
  <1> QED BY <1>5, <1>6, <1>7 DEF Moved

LEMMA WithdrawnMoves ==
  ASSUME GraphType, Chunks, UNCHANGED length, graph.stage \in Asking, graph' = Withdrawn
  PROVE  Moved
  <1>1. graph'.stage = "failed" /\ graph'.chunks = <<>>
    BY DEF GraphType, Withdrawn
  <1>2. Left' = {}
    BY <1>1 DEF Left
  <1>3. Chunks'
    BY <1>1, <1>2, NoChunks DEF Chunks, Lengthy, Asking
  <1>4. Accounts'
    BY <1>1 DEF Accounts, Asking, Waits
  <1>5. Promise
    BY <1>1, <1>2, OutcomeOfStages, OutcomeOfNextStages, PromiseFails
  <1> QED BY <1>3, <1>4, <1>5 DEF Moved

LEMMA AnswerMoves ==
  ASSUME GraphType, Chunks, Accounts, Dispatched,
         NEW result \in Responses(ToSet(Head(graph.chunks))),
         graph'.chunks = Tail(graph.chunks),
         graph'.processed = graph.processed \cup result.processed,
         graph'.missing = graph.missing \cup result.missing,
         graph'.failed = (graph.failed \/ result.failures # {}),
         graph'.stage = IF Len(graph.chunks) = 1 THEN "delivered" ELSE "dispatch"
  PROVE  Moved
  <1> DEFINE chunk == ToSet(Head(graph.chunks))
  <1>1. graph.stage = "dispatch" /\ UNCHANGED length
    BY DEF Dispatched
  <1>2. /\ Fits(length, chunk) /\ chunk # {} /\ chunk \subseteq Left
        /\ Divides(length, Tail(graph.chunks), Left \ chunk)
        /\ Before(chunk, Left \ chunk)
        /\ Len(graph.chunks) = 1 <=> Tail(graph.chunks) = <<>>
        /\ Left \subseteq Docs
    BY <1>1, FirstChunk DEF Chunks, Asking
  <1>3. Left' = Left \ chunk
    BY <1>2 DEF Divides, Parts, Left
  <1>4. /\ result.missing = {d \in chunk : ~ Loaded(d)}
        /\ result.processed = {d \in chunk : Loaded(d)} \ result.failures
    BY DEF Responses
  <1> HIDE DEF chunk
  <1>5. Chunks'
    BY <1>1, <1>2, <1>3 DEF Chunks, Lengthy, Asking
  <1>6. Accounts'
    <2>1. ~ graph'.failed => ~ graph.failed /\ result.failures = {}
      OBVIOUS
    <2>2. ~ graph.failed => /\ Left = Docs \ (graph.processed \cup graph.missing)
                            /\ graph.processed \subseteq Docs \ graph.missing
                            /\ graph.missing \subseteq Docs
      BY <1>1 DEF Accounts, Asking
    <2>3. ~ graph'.failed => /\ Left' = Docs \ (graph'.processed \cup graph'.missing)
                             /\ graph'.processed \subseteq Docs \ graph'.missing
                             /\ graph'.missing \subseteq Docs
      BY <1>2, <1>3, <1>4, <2>1, <2>2
    <2>4. graph'.stage \notin Waits \cup {"prepare"}
      BY DEF Waits
    <2> QED BY <2>3, <2>4 DEF Accounts
  <1>7. Promise
    <2>1. Outcome = "running" /\ Outcome' = "running"
      BY <1>1, OutcomeOfStages, OutcomeOfNextStages DEF Asking
    <2> QED BY <1>1, <1>2, <1>3, <2>1, PromiseChunk
  <1> QED BY <1>5, <1>6, <1>7 DEF Moved

LEMMA DispatchMoves ==
  ASSUME GraphType, Chunks, Accounts, Dispatched
  PROVE  Moved
  <1>1. graph.stage = "dispatch" /\ UNCHANGED length
    BY DEF Dispatched
  <1>2. PICK result \in Responses(ToSet(Head(graph.chunks))) :
          graph' =
               IF result.solutionProjectCount > 0
                 THEN [graph EXCEPT
                         !.processed = @ \cup result.processed,
                         !.missing = @ \cup result.missing,
                         !.failed = @ \/ result.failures # {},
                         !.chunks = Tail(@), !.first = FALSE, !.attempt = 1,
                         !.stage = IF Len(graph.chunks) = 1 THEN "delivered" ELSE @]
               ELSE IF graph.attempt = attempts THEN Withdrawn
               ELSE [graph EXCEPT !.stage = "delay"]
    BY DEF Dispatched
  <1>3. CASE graph' = Withdrawn
    BY <1>1, <1>3, WithdrawnMoves DEF Asking
  <1>4. CASE graph' = [graph EXCEPT !.stage = "delay"]
    <2>1. /\ graph'.stage = "delay" /\ graph'.chunks = graph.chunks
          /\ graph'.processed = graph.processed /\ graph'.missing = graph.missing
          /\ graph'.failed = graph.failed
      BY <1>4 DEF GraphType
    <2> QED BY <1>1, <2>1, StageMoves DEF Asking
  <1>5. CASE result.solutionProjectCount > 0
    <2>1. PICK processed, missing, failed, chunks, stage :
            /\ processed = graph.processed \cup result.processed
            /\ missing = graph.missing \cup result.missing
            /\ failed = (graph.failed \/ result.failures # {})
            /\ chunks = Tail(graph.chunks)
            /\ stage = IF Len(graph.chunks) = 1 THEN "delivered" ELSE graph.stage
      OBVIOUS
    <2>2. graph' = [graph EXCEPT !.processed = processed, !.missing = missing,
                                 !.failed = failed, !.chunks = chunks, !.first = FALSE,
                                 !.attempt = 1, !.stage = stage]
      BY <1>2, <1>5, <2>1 DEF GraphType
    <2>3. /\ graph'.processed = processed /\ graph'.missing = missing
          /\ graph'.failed = failed /\ graph'.chunks = chunks /\ graph'.stage = stage
      BY <2>2 DEF GraphType
    <2> QED BY <1>1, <2>1, <2>3, AnswerMoves
  <1> QED BY <1>2, <1>3, <1>4, <1>5

LEMMA GraphMoves ==
  ASSUME GraphType, Chunks, Accounts, GraphStep
  PROVE  Moved
  <1>1. CASE graph' = graph /\ UNCHANGED length
    BY <1>1, StageMoves
  <1>2. CASE ProjectInitializationComplete
    <2>1. CASE graph.stage = "notification"
      <3>1. /\ graph'.stage = "activate" /\ graph'.chunks = graph.chunks
            /\ graph'.processed = graph.processed /\ graph'.missing = graph.missing
            /\ graph'.failed = graph.failed /\ UNCHANGED length
        BY <1>2, <2>1 DEF ProjectInitializationComplete, GraphType
      <3> QED BY <2>1, <3>1, StageMoves DEF Asking
    <2>2. CASE graph.stage # "notification"
      BY <1>2, <2>2, <1>1 DEF ProjectInitializationComplete
    <2> QED BY <2>1, <2>2
  <1>3. CASE Initialized \/ WaitForIdleEnds
    <2>1. /\ graph'.chunks = graph.chunks
          /\ graph'.processed = graph.processed /\ graph'.missing = graph.missing
          /\ graph'.failed = graph.failed /\ UNCHANGED length
          /\ graph.stage \in Waits /\ graph'.stage \in Waits \cup {"prepare"}
      <3>1. CASE Initialized
        BY <3>1 DEF Initialized, Starting, GraphType, Waits
      <3>2. CASE WaitForIdleEnds
        BY <3>2 DEF WaitForIdleEnds, GraphType, Waits
      <3> QED BY <1>3, <3>1, <3>2
    <2> QED BY <2>1, StageMoves
  <1>4. CASE PopulateStarts
    BY <1>4, PopulateMoves
  <1>5. CASE NotificationTimesOut \/ Activated \/ RetryProjectLoad
    <2>1. /\ graph'.chunks = graph.chunks
          /\ graph'.processed = graph.processed /\ graph'.missing = graph.missing
          /\ graph'.failed = graph.failed /\ UNCHANGED length
          /\ graph.stage \in Asking /\ graph'.stage \in Asking
      <3>1. CASE NotificationTimesOut
        BY <3>1 DEF NotificationTimesOut, GraphType, Asking
      <3>2. CASE Activated
        BY <3>2 DEF Activated, GraphType, Asking
      <3>3. CASE RetryProjectLoad
        BY <3>3 DEF RetryProjectLoad, GraphType, Asking
      <3> QED BY <1>5, <3>1, <3>2, <3>3
    <2> QED BY <2>1, StageMoves
  <1>6. CASE Dispatched
    BY <1>6, DispatchMoves
  <1>7. CASE RequestFails
    <2>1. graph.stage \in Asking /\ UNCHANGED length /\ graph' = Withdrawn
      BY <1>7 DEF RequestFails, Asking
    <2> QED BY <2>1, WithdrawnMoves
  <1>8. CASE ProgressBegins \/ ProgressEnds \/ LoadProject \/ ServerHangs \/ Tick
    BY <1>1, <1>8 DEF ProgressBegins, ProgressEnds, LoadProject, ServerHangs, Tick
  <1> QED
    BY <1>2, <1>3, <1>4, <1>5, <1>6, <1>7, <1>8 DEF GraphStep, ServerStep, PopulateStep

\* A graph that is begun anew, or is no more, is forgotten.
LEMMA NoGraphMoves ==
  ASSUME Chunks, UNCHANGED length,
         graph' = NoGraph \/ graph' = [NoGraph EXCEPT !.stage = "starting"]
  PROVE  Moved
  <1>1. /\ graph'.stage \in Waits /\ graph'.chunks = <<>>
        /\ graph'.processed = {} /\ graph'.missing = {}
    BY DEF NoGraph, Waits
  <1>2. Left' = {}
    BY <1>1 DEF Left
  <1>3. Chunks'
    BY <1>1, <1>2, NoChunks DEF Chunks, Lengthy, Asking, Waits
  <1>4. Accounts'
    BY <1>1 DEF Accounts, Asking, Waits
  <1>5. Promise
    BY <1>1, <1>2, OutcomeOfNextStages, PromiseForgotten
  <1> QED BY <1>3, <1>4, <1>5 DEF Moved

LEMMA GraphEnds ==
  ASSUME GraphType, Chunks, Accounts, UNCHANGED length, graph.stage = "delivered",
         graph' = [graph EXCEPT !.stage = "ended"]
  PROVE  /\ Moved
         /\ ~ graph.failed => graph.processed = Docs \ graph.missing
  <1>1. /\ graph'.stage = "ended" /\ graph'.chunks = graph.chunks /\ graph.chunks = <<>>
    BY DEF GraphType, Chunks, Asking
  <1>2. Left' = {} /\ Left = {}
    BY <1>1 DEF Left
  <1>3. Chunks'
    BY <1>1, <1>2 DEF Chunks, Lengthy, Asking
  <1>4. Accounts'
    BY <1>1 DEF Accounts, Asking, Waits
  <1>5. Promise
    BY <1>1, <1>2, OutcomeOfStages, OutcomeOfNextStages, PromiseEnds
  <1>6. ~ graph.failed => graph.processed = Docs \ graph.missing
    BY <1>2 DEF Accounts
  <1> QED BY <1>3, <1>4, <1>5, <1>6 DEF Moved

LEMMA GraphFails ==
  ASSUME GraphType, Chunks, UNCHANGED length,
         \/ graph.stage \in {"failed", "delivered"}
              /\ graph' = [NoGraph EXCEPT !.stage = "failed"]
         \/ graph.stage = "starting" /\ graph' = NoGraph
  PROVE  Moved
  <1>1. CASE graph' = NoGraph
    BY <1>1, NoGraphMoves
  <1>2. CASE graph.stage \in {"failed", "delivered"}
               /\ graph' = [NoGraph EXCEPT !.stage = "failed"]
    <2>1. graph'.stage = "failed" /\ graph'.chunks = <<>>
      BY <1>2 DEF NoGraph
    <2>2. Left' = {} /\ Left = {}
      BY <1>2, <2>1 DEF Left, Chunks, Asking
    <2>3. Chunks'
      BY <2>1, <2>2, NoChunks DEF Chunks, Lengthy, Asking
    <2>4. Accounts'
      BY <2>1 DEF Accounts, Asking, Waits
    <2>5. Promise
      <3>1. CASE graph.stage = "failed"
        BY <2>1, <2>2, <3>1, OutcomeOfStages, OutcomeOfNextStages, NothingPromised
      <3>2. CASE graph.stage = "delivered"
        BY <2>1, <2>2, <3>2, OutcomeOfStages, OutcomeOfNextStages, PromiseFails
      <3> QED BY <1>2, <3>1, <3>2
    <2> QED BY <2>3, <2>4, <2>5 DEF Moved
  <1> QED BY <1>1, <1>2

LEMMA MovedStep ==
  ASSUME IInv, Chunks, Accounts, [Next]_vars
  PROVE  Moved
  <1> USE DEF IInv, TypeInv
  <1>1. CASE StartRun \/ OpenDatabase \/ Crash
    BY <1>1, NoGraphMoves DEF StartRun, OpenDatabase, Crash
  <1>2. CASE CrawlEnds
    BY <1>2, GraphEnds DEF CrawlEnds
  <1>3. CASE CrawlFails
    BY <1>3, GraphFails DEF CrawlFails
  <1>4. CASE CrawlSteps
    BY <1>4, CrawlStepEffect, GraphMoves
  <1>5. CASE UNCHANGED <<length, graph>>
    BY <1>5, StageMoves
  <1> QED
    BY <1>1, <1>2, <1>3, <1>4, <1>5
    DEF Next, vars, ToolStep, CrawlSteps, RemoveIndex, RemoveManifest, HashIndex,
        WriteManifest, ExportRuntime, HashRuntime, WriteRuntimeManifest, PublishFails,
        Checkout

\* The index holds what the graph has, and when the crawl has ended every document
\* that is not known to be missing.
Accounted ==
    /\ run.stage = "crawling" => disk.index.graph = graph.processed
    /\ run.stage \in Publishing \cup {"done"} =>
          disk.index.graph = Docs \ disk.index.missing

LEMMA AccountedStep ==
  ASSUME IInv, Chunks, Accounts, Accounted, Next
  PROVE  Accounted'
  <1> USE DEF IInv, TypeInv, RunType, DiskType, Publishing, Accounted, Crawled, Describes,
              Index
  <1>1. CASE StartRun
    BY <1>1 DEF StartRun, NoRun, NoGraph
  <1>2. CASE RemoveIndex
    BY <1>2 DEF RemoveIndex
  <1>3. CASE RemoveManifest
    BY <1>3 DEF RemoveManifest
  <1>4. CASE OpenDatabase
    BY <1>4 DEF OpenDatabase, NewIndex, NoGraph
  <1>5. CASE CrawlEnds
    <2>1. graph.processed = Docs \ graph.missing
      BY <1>5, GraphEnds DEF CrawlEnds
    <2> QED BY <1>5, <2>1 DEF CrawlEnds
  <1>6. CASE CrawlFails
    BY <1>6 DEF CrawlFails
  <1>7. CASE HashIndex
    BY <1>7 DEF HashIndex
  <1>8. CASE WriteManifest
    BY <1>8 DEF WriteManifest
  <1>9. CASE ExportRuntime
    BY <1>9 DEF ExportRuntime
  <1>10. CASE HashRuntime
    BY <1>10 DEF HashRuntime
  <1>11. CASE WriteRuntimeManifest
    BY <1>11 DEF WriteRuntimeManifest
  <1>12. CASE PublishFails
    BY <1>12 DEF PublishFails
  <1>13. CASE Crash
    BY <1>13 DEF Crash, NoRun
  <1>14. CASE Checkout
    BY <1>14 DEF Checkout
  <1>15. CASE CrawlSteps
    <2>1. PICK processed, missing :
            processed = graph'.processed /\ missing = graph'.missing
      OBVIOUS
    <2>2. /\ disk'.index = [disk.index EXCEPT !.graph = processed, !.missing = missing]
          /\ run.stage = "crawling" /\ UNCHANGED run
      BY <1>15, <2>1, CrawlStepEffect
    <2> QED BY <2>1, <2>2
  <1> QED
    BY <1>1, <1>2, <1>3, <1>4, <1>5, <1>6, <1>7, <1>8, <1>9, <1>10, <1>11, <1>12, <1>13,
       <1>14, <1>15
    DEF Next, ToolStep, CrawlSteps

-----------------------------------------------------------------------------
(***************************************************************************)
(* The whole invariant                                                      *)
(***************************************************************************)
FullInv == IInv /\ Chunks /\ Accounts /\ Accounted

LEMMA FullInitially == Init => FullInv
  <1> SUFFICES ASSUME Init PROVE FullInv
    OBVIOUS
  <1>1. Lengthy /\ graph = NoGraph
    BY RoslynSymbolGraphAssumption DEF Init, Lengthy
  <1>2. Left = {} /\ graph.chunks = <<>> /\ graph.stage = "none"
    BY <1>1 DEF Left, NoGraph
  <1>3. Chunks
    BY <1>1, <1>2, NoChunks DEF Chunks, Asking
  <1>4. Accounts
    BY <1>1 DEF Accounts, NoGraph, Asking
  <1>5. Accounted
    BY DEF Init, Accounted, NoRun, Publishing
  <1> QED BY <1>3, <1>4, <1>5, Initially DEF FullInv

LEMMA FullStep == ASSUME FullInv, [Next]_vars PROVE FullInv' /\ Promise
  <1>1. IInv'
    BY TypeStep, LoadStep, CrawledStep, WithheldStep, DescribesStep, CoversStep,
       ManifestsStep, Stutters DEF FullInv, IInv
  <1>2. Moved
    BY MovedStep DEF FullInv
  <1>3. Accounted'
    <2>1. CASE Next
      BY <2>1, AccountedStep DEF FullInv
    <2>2. CASE UNCHANGED vars
      BY <2>2 DEF FullInv, Accounted, vars
    <2> QED BY <2>1, <2>2
  <1> QED BY <1>1, <1>2, <1>3 DEF FullInv, Moved

LEMMA FullInvariance == Spec => []FullInv
  <1>1. FullInv /\ [Next]_vars => FullInv'
    BY FullStep
  <1> QED BY FullInitially, <1>1, PTL DEF Spec

\* No run that failed, was killed, or was followed by another leaves a manifest to
\* any other index than the finished one it was made for (main and
\* exportRuntimeBundle).
THEOREM ManifestsDescribeTheirIndex == Spec => []ManifestsDescribe
  <1>1. IInv => ManifestsDescribe
    BY DEF IInv, Manifests, NamesFinished, ManifestsDescribe
  <1> QED BY <1>1, Invariance, PTL

LEMMA DonePublished == ASSUME IInv, run.stage = "done" PROVE Published
  <1>1. /\ disk.manifest = Manifest(disk.index)
        /\ run.compact => /\ disk.runtimeIndex = [disk.index EXCEPT !.form = "runtime"]
                          /\ disk.runtimeManifest = Manifest(disk.runtimeIndex)
    BY DEF IInv, Describes
  <1> QED BY <1>1, Distinct DEF Published, Manifest

\* A run that succeeds has left what it was asked for, for the commit it began
\* with, and nothing that came of an earlier run (main and exportRuntimeBundle).
THEOREM SuccessPublishes == Spec => [](run.stage = "done" => Published)
  <1>1. IInv => (run.stage = "done" => Published)
    BY DonePublished
  <1> QED BY <1>1, Invariance, PTL

\* Where the wait for an idle workspace did not run out, and the server did not
\* hang, a run that succeeds has missed no document of the solution: what was
\* loaded while the answers were collected is the whole of it (waitForIdle).
THEOREM IdleMissesNothing == Spec => [](run.stage = "done" => SolutionCovered)
  <1>1. IInv => (run.stage = "done" => SolutionCovered)
    BY DEF IInv, Covers
  <1> QED BY <1>1, Invariance, PTL

\* A run that succeeds has published what it was asked for, with every document in
\* the index or known to be missing, and, where the workspace was idle and did not
\* hang, none of the solution missing: the chunks leave no document out, and each
\* answer accounts for the whole of its chunk (chunkSymbolGraphDocuments, the loop
\* of populateSymbolGraph, and the crawl's refusal of a run with failures).
THEOREM SuccessIsCovered == Spec => []SuccessCovers
  <1>1. FullInv => SuccessCovers
    <2> SUFFICES ASSUME FullInv, run.stage = "done" PROVE SuccessCovers
      BY DEF SuccessCovers
    <2>1. Published
      BY DonePublished DEF FullInv
    <2>2. disk.index.graph = Docs \ disk.index.missing
      BY DEF FullInv, Accounted
    <2>3. SolutionCovered
      BY DEF FullInv, IInv, Covers
    <2> QED BY <2>1, <2>2, <2>3 DEF SuccessCovers
  <1> QED BY <1>1, FullInvariance, PTL

\* The provider keeps what the crawl relies on (SymbolGraphProvider): every step
\* of a run is a step of the provider that is promised, or none of its concern.
\* Documents come in order, once, in chunks within the limits, and the provider
\* ends only when none is left.
THEOREM RefinesProvider == Spec => ImplementsProvider
  <1>1. Init => Provider!Init
    <2> SUFFICES ASSUME Init PROVE Provider!Init
      OBVIOUS
    <2>1. length \in [Docs -> Nat] /\ graph = NoGraph
      BY RoslynSymbolGraphAssumption DEF Init
    <2>2. graph.stage = "none" /\ graph.chunks = <<>>
      BY <2>1 DEF NoGraph
    <2>3. Left = {}
      BY <2>2 DEF Left
    <2>4. Outcome = "none"
      BY <2>2, OutcomeOfStages DEF Waits
    <2> QED BY <2>1, <2>3, <2>4 DEF Provider!Init, Left
  <1>2. FullInv /\ [Next]_vars => [Provider!Next]_(Provider!vars)
    BY FullStep DEF Promise
  <1> QED BY <1>1, <1>2, FullInvariance, PTL DEF Spec, Provider!Spec, ImplementsProvider
=============================================================================
