-------------------------- MODULE RoslynSymbolGraph --------------------------
(***************************************************************************)
(* The symbol graph that Roslyn fills: the wait for an idle workspace       *)
(* (waitForIdle, packages/lsp-crawler/src/client.ts), the requests of the    *)
(* provider (tools/index-roslyn/src/roslyn-symbol-graph.ts) and the handler  *)
(* that answers them inside the language server                             *)
(* (tools/roslyn-index-extension/SymbolGraphHandler.cs).                    *)
(*                                                                         *)
(* The server loads the projects of a solution in its own time, in bursts   *)
(* that it reports as progress.  The handler answers from the snapshot of    *)
(* that moment: a document of a project not yet loaded is a missing one.     *)
(* Documents are numbered in the order of their paths, in which the crawl    *)
(* gives them to the provider.                                              *)
(***************************************************************************)
EXTENDS Integers, SequencesExt, FiniteSetsExt

CONSTANTS
    Docs,          \* documents of C# and VB: numbers
    Lengths,       \* possible functions from Docs to their bytes
    Projects,
    ProjectsOf,    \* Docs -> the projects that compile it, none outside the solution
    Tokens,        \* progress tokens
    Settle,        \* settleMilliseconds, in ticks
    LoadTimeout,   \* workspaceLoadTimeoutMilliseconds, in ticks
    LongestPause,  \* of a server that works: between the bursts of its progress
    MaxDocuments,  \* maximumDocumentsPerChunk
    MaxBytes,      \* maximumSourceBytesPerChunk
    LoadAttempts,  \* projectLoadAttempts
    MaxFaults      \* bound on what fails

ASSUME RoslynSymbolGraphAssumption ==
    /\ Docs \subseteq Nat /\ IsFiniteSet(Docs) /\ Lengths \subseteq [Docs -> Nat]
    /\ ProjectsOf \in [Docs -> SUBSET Projects]
    /\ {Settle, LoadTimeout, LongestPause, MaxFaults} \subseteq Nat
    /\ LongestPause < Settle
    /\ {MaxDocuments, MaxBytes, LoadAttempts} \subseteq Nat \ {0}

VARIABLES
    length,   \* the bytes of each document
    server,   \* Roslyn: the projects in its snapshot, and whether it hangs
    client,   \* the fields of LspProcessClient that its notifications change
    graph,    \* populateSymbolGraph: the crawl's and the provider's
    faults    \* what is left of the bound

InSolution == {d \in Docs : ProjectsOf[d] # {}}

NewServer == [loaded |-> {}, hangs |-> FALSE]

\* quiet: since #lastProgressAt.  waited: since waitForIdle was called.
NewClient == [active |-> {}, quiet |-> 0, waited |-> 0, received |-> FALSE]

NoGraph == [stage |-> "none", idle |-> FALSE, chunks |-> <<>>, attempt |-> 0,
            initialized |-> FALSE, first |-> TRUE,
            processed |-> {}, missing |-> {}, failed |-> FALSE]

Faults(number) == faults >= number /\ faults' = faults - number
Fault == Faults(1)

-----------------------------------------------------------------------------
(***************************************************************************)
(* Roslyn (external), and the notifications as they are handled             *)
(***************************************************************************)
Working == server.loaded # Projects /\ ~ server.hangs

Starting == graph.stage = "starting"
Up       == graph.stage \notin {"none", "ended", "failed"}

\* begin and end of a token, and reports in between.
ProgressBegins ==
    /\ Up
    /\ \E token \in Tokens \ client.active :
          client' = [client EXCEPT !.active = @ \cup {token}, !.quiet = 0]
    /\ UNCHANGED <<length, server, graph, faults>>

\* Mutant: only what begins is taken for activity.
ProgressEndsUnnoticed ==
    /\ Up
    /\ \E token \in client.active :
          client' = [client EXCEPT !.active = @ \ {token}]
    /\ UNCHANGED <<length, server, graph, faults>>

ProgressEnds ==
    /\ Up
    /\ \E token \in client.active :
          client' = [client EXCEPT !.active = @ \ {token}, !.quiet = 0]
    /\ UNCHANGED <<length, server, graph, faults>>

LoadProject ==
    /\ Up /\ client.active # {} /\ ~ server.hangs
    /\ \E project \in Projects \ server.loaded :
          server' = [server EXCEPT !.loaded = @ \cup {project}]
    /\ UNCHANGED <<length, client, graph, faults>>

\* workspace/projectInitializationComplete, whether the projects could be loaded
\* or not; a wait for it ends with it.
ProjectInitializationComplete ==
    /\ Up /\ client.active = {} /\ ~ client.received
    /\ server.loaded = Projects \/ server.hangs
    /\ client' = [client EXCEPT !.received = TRUE]
    /\ graph' = IF graph.stage = "notification"
                  THEN [graph EXCEPT !.stage = "activate", !.initialized = TRUE]
                ELSE graph
    /\ UNCHANGED <<length, server, faults>>

\* No project is loaded any more.
ServerHangs ==
    /\ Up /\ Working /\ Fault
    /\ server' = [server EXCEPT !.hangs = TRUE]
    /\ UNCHANGED <<length, client, graph>>

-----------------------------------------------------------------------------
(***************************************************************************)
(* waitForIdle                                                             *)
(***************************************************************************)
\* Time counts until the wait is over, and is no longer kept then.
Tick ==
    /\ graph.stage \in {"starting", "load"}
    /\ Working /\ client.active = {} => client.quiet < LongestPause
    /\ client' = [client EXCEPT
                    !.quiet = IF @ < Settle THEN @ + 1 ELSE @,
                    !.waited = IF graph.stage = "load" /\ @ < LoadTimeout
                                 THEN @ + 1 ELSE @]
    /\ client' # client
    /\ UNCHANGED <<length, server, graph, faults>>

\* The server is initialized, the documents are synchronised: the wait begins.
Initialized ==
    /\ Starting
    /\ graph' = [graph EXCEPT !.stage = "load"]
    /\ UNCHANGED <<length, server, client, faults>>

Idle == client.active = {} /\ client.quiet >= Settle

\* Mutant: the wait goes on as long as there is progress.
WaitForIdlePatient ==
    /\ graph.stage = "load"
    /\ Idle
    /\ graph' = [graph EXCEPT !.stage = "prepare", !.idle = TRUE]
    /\ client' = [client EXCEPT !.quiet = 0, !.waited = 0]
    /\ UNCHANGED <<length, server, faults>>

WaitForIdleEnds ==
    /\ graph.stage = "load"
    /\ Idle \/ client.waited >= LoadTimeout
    /\ graph' = [graph EXCEPT !.stage = "prepare", !.idle = Idle]
    /\ client' = [client EXCEPT !.quiet = 0, !.waited = 0]
    /\ UNCHANGED <<length, server, faults>>

-----------------------------------------------------------------------------
(***************************************************************************)
(* The provider                                                            *)
(***************************************************************************)
\* documents, in the order of their paths.
Ordered(documents) ==
    {sequence \in [1..Cardinality(documents) -> documents] :
        \A i, j \in DOMAIN sequence : i < j => sequence[i] < sequence[j]}

NoChunk == [chunks |-> <<>>, current |-> <<>>, bytes |-> 0]

Added(acc, d) ==
    [chunks |-> acc.chunks, current |-> Append(acc.current, d), bytes |-> acc.bytes + length[d]]

Pushed(acc) == [chunks |-> Append(acc.chunks, acc.current), current |-> <<>>, bytes |-> 0]

\* Mutant: the limit is compared with what the chunk has without the document.
ChunkedLate(acc, d) ==
    IF acc.current # <<>> /\ (Len(acc.current) = MaxDocuments \/ acc.bytes > MaxBytes)
      THEN Added(Pushed(acc), d) ELSE Added(acc, d)

Chunked(acc, d) ==
    IF acc.current # <<>>
       /\ (Len(acc.current) = MaxDocuments \/ acc.bytes + length[d] > MaxBytes)
      THEN Added(Pushed(acc), d) ELSE Added(acc, d)

chunkSymbolGraphDocuments(documents) ==
    LET all == FoldLeft(Chunked, NoChunk, documents)
    IN  IF all.current = <<>> THEN all.chunks ELSE Append(all.chunks, all.current)

\* The documents that could be read are given to the provider, which waits for
\* the server unless there are none.
PopulateStarts ==
    /\ graph.stage = "prepare"
    /\ \E prepared \in SUBSET Docs : \E documents \in Ordered(prepared) :
          LET chunks == chunkSymbolGraphDocuments(documents)
              given  == [graph EXCEPT !.chunks = chunks, !.failed = prepared # Docs]
          IN  /\ Faults(Cardinality(Docs \ prepared))
              /\ graph' = IF prepared = {} THEN [given EXCEPT !.stage = "delivered"]
                          ELSE IF client.received
                            THEN [given EXCEPT !.stage = "activate", !.initialized = TRUE]
                          ELSE [given EXCEPT !.stage = "notification"]
    /\ UNCHANGED <<length, server, client>>

NotificationTimesOut ==
    /\ graph.stage = "notification"
    /\ graph' = [graph EXCEPT !.stage = "activate"]
    /\ UNCHANGED <<length, server, client, faults>>

Activated ==
    /\ graph.stage = "activate"
    /\ graph' = [graph EXCEPT !.stage = "dispatch", !.attempt = 1]
    /\ UNCHANGED <<length, server, client, faults>>

\* What onChunk has appended is withdrawn.
Withdrawn == [graph EXCEPT !.stage = "failed", !.processed = {}, !.chunks = <<>>]

\* The request fails or is not answered in time, the extension is rejected,
\* unloaded or throws, the answer is not valid, or the crawl refuses the chunk.
RequestFails ==
    /\ graph.stage \in {"activate", "dispatch"}
    /\ Fault
    /\ graph' = Withdrawn
    /\ UNCHANGED <<length, server, client>>

attempts == IF graph.first /\ graph.initialized THEN LoadAttempts ELSE 1

\* The documents of which the snapshot has a project.
Loaded(d) == ProjectsOf[d] \cap server.loaded # {}

\* ExecuteAsync: each document is missing, has failed and left nothing, or has
\* been processed.
Responses(chunk) ==
    {[missing   |-> {d \in chunk : ~ Loaded(d)},
      failures  |-> failing,
      processed |-> {d \in chunk : Loaded(d)} \ failing,
      solutionProjectCount |-> Cardinality(server.loaded)] :
        failing \in SUBSET {d \in chunk : Loaded(d)}}

Dispatched ==
    /\ graph.stage = "dispatch"
    /\ \E result \in Responses(ToSet(Head(graph.chunks))) :
          /\ Faults(Cardinality(result.failures))
          /\ graph' =
               IF result.solutionProjectCount > 0
                 THEN [graph EXCEPT
                         !.processed = @ \cup result.processed,
                         !.missing = @ \cup result.missing,
                         !.failed = @ \/ result.failures # {},
                         !.chunks = Tail(@), !.first = FALSE, !.attempt = 1,
                         !.stage = IF Len(graph.chunks) = 1 THEN "delivered" ELSE @]
               ELSE IF graph.attempt = attempts THEN Withdrawn
               ELSE [graph EXCEPT !.stage = "delay"]
    /\ UNCHANGED <<length, server, client>>

RetryProjectLoad ==
    /\ graph.stage = "delay"
    /\ graph' = [graph EXCEPT !.stage = "dispatch", !.attempt = @ + 1]
    /\ UNCHANGED <<length, server, client, faults>>

-----------------------------------------------------------------------------
ServerStep == ProgressBegins \/ ProgressEnds \/ LoadProject
                \/ ProjectInitializationComplete \/ ServerHangs

PopulateStep == Initialized \/ WaitForIdleEnds \/ PopulateStarts \/ NotificationTimesOut
                  \/ Activated \/ Dispatched \/ RetryProjectLoad

\* What the crawl has been promised of its provider.
Outcome ==
    CASE graph.stage \in {"notification", "activate", "dispatch", "delay", "delivered"}
           -> "running"
      [] graph.stage = "ended"  -> "ended"
      [] graph.stage = "failed" -> "failed"
      [] OTHER -> "none"

Provider == INSTANCE GraphProvider WITH
    left <- UNION {ToSet(graph.chunks[i]) : i \in DOMAIN graph.chunks},
    outcome <- Outcome
=============================================================================
