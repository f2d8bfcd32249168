------------------------------- MODULE Crawler -------------------------------
(***************************************************************************)
(* crawlWorkspace (packages/lsp-crawler/src/crawler.ts): synchronise the    *)
(* database with the files, discover the occurrences of every document,     *)
(* fill the symbol graph of the documents that a provider knows, and ask    *)
(* the language server about every occurrence of the others.                *)
(*                                                                         *)
(* A crawl resumes what an earlier one left in the database, which may have *)
(* died between any two transactions.  Documents are processed by a few      *)
(* workers: between a request and its answer the others go on, and what     *)
(* they save may answer for the occurrence that is being asked about.       *)
(*                                                                         *)
(* An action is what runs from one await to the next.  A worker is named by *)
(* the document it processes.  The order in which workers take documents is *)
(* left open.  A crawl that fails before it synchronises changes nothing,   *)
(* and is left out.                                                         *)
(***************************************************************************)
EXTENDS CrawlDatabase, Folds

CONSTANTS
    ProviderDocs,    \* documents in the languages of the graph provider
    OutsideSolution, \* those of them that the provider may report as missing
    RazorDocs,       \* documents with the known Razor failures
    UnsupportedDocs, \* documents that may have no syntax tree in the server
    Unanswerable,    \* kinds advertised, but answered with methodNotFound
    Providers,       \* whether a crawl has a symbol graph provider: BOOLEAN
    Concurrency,     \* config.concurrency
    MaxCrawls, MaxCrashes, MaxFaults,
    MaxEdits,        \* bound on edits between crawls
    MaxLiveEdits     \* bound on edits during a crawl

ASSUME CrawlerAssumption ==
    /\ ProviderDocs \subseteq Docs
    /\ OutsideSolution \subseteq ProviderDocs
    /\ RazorDocs \subseteq Docs \ ProviderDocs
    /\ UnsupportedDocs \subseteq Docs \ ProviderDocs
    /\ Unanswerable \subseteq Kinds
    /\ Providers \subseteq BOOLEAN
    /\ Concurrency \in Nat \ {0}
    /\ {MaxCrawls, MaxCrashes, MaxFaults, MaxEdits, MaxLiveEdits} \subseteq Nat

VARIABLES
    files,   \* the workspace: Docs -> Contents, or Absent
    db,      \* the database, as committed
    crawl,   \* the crawl: its phase and what it has in memory
    work,    \* the work on each document
    budget   \* what is left of the bounds

vars == <<files, db, crawl, work, budget>>

Files == [Docs -> Contents \cup {Absent}]

NoWork == [stage |-> "none", text |-> Absent, found |-> {}, queue |-> {}]

\* failed: the list of failures is not empty.  graphFailed: a document of a
\* chunk failed.  disturbed: a file was edited during the crawl; hindered: a
\* request or a read failed in it.
NoCrawl == [phase |-> "idle", provider |-> FALSE, left |-> {}, processed |-> {},
            failed |-> FALSE, graphFailed |-> FALSE,
            disturbed |-> FALSE, hindered |-> FALSE]

Running == crawl.phase \notin {"idle", "finished", "failed"}

Spend(what) == budget[what] > 0 /\ budget' = [budget EXCEPT ![what] = @ - 1]

-----------------------------------------------------------------------------
(***************************************************************************)
(* The language server and the provider (external): they answer the truth   *)
(* about the files, with the text of open documents in their place.          *)
(***************************************************************************)
Open(d) == work[d].stage \in {"tokens", "symbols", "probe"}

view == [d \in Docs |-> IF Open(d) THEN work[d].text ELSE files[d]]

TokenAt(world, o) == IF world[o[1]] = Absent THEN NoToken ELSE world[o[1]][o[2]]

Named(world) == {o \in Occurrences : TokenAt(world, o) # NoToken}

Mentions(world, s) == {o \in Named(world) : TokenAt(world, o).symbol = s}

Definitions(world, s) == {o \in Mentions(world, s) : TokenAt(world, o).isDefinition}

\* The text of a hover comes from the definition.
Truth(world, o, kind) ==
    IF o \notin Named(world) THEN {}
    ELSE LET s == TokenAt(world, o).symbol IN
         CASE kind = "references" -> Mentions(world, s)
           [] kind = "highlights" -> Mentions(world, s) \cap Of({o[1]})
           [] kind \in {"definition", "declaration", "hover"} ->
                Definitions(world, s)

\* The positions at which a document has identifiers, and definitions.
Identifiers(content)  == {p \in Positions : content[p] # NoToken}
Declarations(content) == {p \in Identifiers(content) : content[p].isDefinition}

-----------------------------------------------------------------------------
InCrawl == {d \in Docs : work[d].stage # "none"}
Prepared == {d \in InCrawl : work[d].stage \notin {"waiting", "unprepared"}}
Provided == IF crawl.provider THEN Prepared \cap ProviderDocs ELSE {}
Standard == Prepared \ Provided

\* mapConcurrentValues: no more than config.concurrency documents at a time.
Free == Cardinality({d \in Docs : work[d].stage \in
                        {"tokens", "symbols", "capture", "probe"}}) < Concurrency

Stage(d, stage) == work' = [work EXCEPT ![d].stage = stage]

\* Mutant: the failure is not kept.
FailureForgotten == crawl' = [crawl EXCEPT !.hindered = TRUE]

\* A request of the document failed in a way that is not recovered.
Failure == crawl' = [crawl EXCEPT !.failed = TRUE, !.hindered = TRUE]

StartCrawl ==
    /\ ~ Running
    /\ Spend("crawls")
    /\ db' = synchronizeDocuments(db, files)
    /\ \E provider \in Providers :
          crawl' = [NoCrawl EXCEPT !.phase = "discover", !.provider = provider]
    /\ work' = [d \in Docs |-> IF files[d] = Absent THEN NoWork
                               ELSE [NoWork EXCEPT !.stage = "waiting"]]
    /\ UNCHANGED files

-----------------------------------------------------------------------------
(***************************************************************************)
(* Candidate discovery                                                     *)
(***************************************************************************)
\* The file is read again, recorded, and opened in the server; the provider's
\* documents need no more than that.
ReadDocument(d) ==
    /\ crawl.phase = "discover" /\ work[d].stage = "waiting" /\ Free
    /\ db' = upsertDocument(db, d, files[d])
    /\ work' = [work EXCEPT ![d].text = files[d],
                            ![d].stage = IF crawl.provider /\ d \in ProviderDocs
                                           THEN "ready" ELSE "tokens"]
    /\ UNCHANGED <<files, crawl, budget>>

\* A document without a syntax tree is a failure that is recovered.
TokensAnswered(d) ==
    /\ crawl.phase = "discover" /\ work[d].stage = "tokens"
    /\ \/ /\ db' = saveSemanticTokens(db, d, work[d].text)
          /\ work' = [work EXCEPT ![d].stage = "symbols",
                                  ![d].found = Identifiers(work[d].text)]
          /\ UNCHANGED <<crawl, budget>>
       \/ /\ d \in UnsupportedDocs
          /\ Stage(d, "symbols")
          /\ UNCHANGED <<db, crawl, budget>>
       \/ Spend("faults") /\ Failure /\ Stage(d, "symbols") /\ UNCHANGED db
    /\ UNCHANGED files

SymbolsAnswered(d) ==
    /\ crawl.phase = "discover" /\ work[d].stage = "symbols"
    /\ \/ /\ db' = upsertOccurrences(db, d, work[d].found
                                              \cup Declarations(work[d].text))
          /\ UNCHANGED <<crawl, budget>>
       \/ /\ d \in UnsupportedDocs
          /\ db' = upsertOccurrences(db, d, work[d].found)
          /\ UNCHANGED <<crawl, budget>>
       \/ /\ Spend("faults") /\ Failure
          /\ db' = upsertOccurrences(db, d, work[d].found)
    /\ Stage(d, "ready")
    /\ UNCHANGED files

\* Mutant: a retried crawl appends to what an earlier one left.
ResetNothing ==
    /\ crawl.phase = "discover"
    /\ \A d \in InCrawl : work[d].stage \in {"ready", "unprepared"}
    /\ crawl' = [crawl EXCEPT !.phase = "clear"]
    /\ UNCHANGED <<files, db, work, budget>>

\* All workers are done: the provider's documents are emptied ...
ResetProvided ==
    /\ crawl.phase = "discover"
    /\ \A d \in InCrawl : work[d].stage \in {"ready", "unprepared"}
    /\ db' = resetDocumentOccurrences(db, Provided)
    /\ crawl' = [crawl EXCEPT !.phase = "clear"]
    /\ UNCHANGED <<files, work, budget>>

\* ... and the others leave the graph.
ClearStandard ==
    /\ crawl.phase = "clear"
    /\ db' = clearSymbolGraphForDocuments(db, Standard)
    /\ crawl' = [crawl EXCEPT !.left = Provided,
                              !.phase = IF crawl.provider THEN "graph" ELSE "probe"]
    /\ UNCHANGED <<files, work, budget>>

-----------------------------------------------------------------------------
(***************************************************************************)
(* The symbol graph, chunk by chunk                                         *)
(***************************************************************************)
Edges(docs) == [o \in Named(files) \cap Of(docs) |-> TokenAt(files, o).symbol]

GraphFails ==
    /\ db' = clearSymbolGraphForDocuments(db, Provided)
    /\ crawl' = [crawl EXCEPT !.phase = "failed", !.failed = TRUE]
    /\ work' = [d \in Docs |-> NoWork]

\* The documents of a chunk that the solution does not contain are missing.  A
\* chunk that is refused ends the crawl.
GraphChunk ==
    /\ crawl.phase = "graph"
    /\ \E chunk \in (SUBSET crawl.left) \ {{}} :
       \E missing \in SUBSET (chunk \cap OutsideSolution) :
          LET found == chunk \ missing IN
          IF Appendable(db, Edges(found))
            THEN /\ db' = appendSymbolGraph(db, Edges(found),
                             {o \in DOMAIN Edges(found) : TokenAt(files, o).isDefinition},
                             [s \in Symbols |-> Definitions(files, s)])
                 /\ crawl' = [crawl EXCEPT !.left = @ \ chunk,
                                           !.processed = @ \cup found]
                 /\ UNCHANGED work
            ELSE GraphFails
    /\ UNCHANGED <<files, budget>>

\* The provider reports a document it could not process: the others of the
\* chunk are appended, and the crawl fails after the last chunk.
ChunkDocumentFails ==
    /\ crawl.phase = "graph"
    /\ Spend("faults")
    /\ \E d \in crawl.left :
          crawl' = [crawl EXCEPT !.left = @ \ {d}, !.graphFailed = TRUE,
                                !.hindered = TRUE]
    /\ UNCHANGED <<files, db, work>>

\* The request fails, and the edges of the chunks before it are withdrawn.
GraphRequestFails ==
    /\ crawl.phase = "graph" /\ crawl.left # {}
    /\ Spend("faults")
    /\ db' = clearSymbolGraphForDocuments(db, Provided)
    /\ crawl' = [crawl EXCEPT !.phase = "failed", !.failed = TRUE, !.hindered = TRUE]
    /\ work' = [d \in Docs |-> NoWork]
    /\ UNCHANGED files

\* Mutant: the failures of documents are only logged.
GraphEndsRegardless ==
    /\ crawl.phase = "graph" /\ crawl.left = {}
    /\ crawl' = [crawl EXCEPT !.phase = "capture"]
    /\ UNCHANGED <<files, db, work, budget>>

GraphEnds ==
    /\ crawl.phase = "graph" /\ crawl.left = {}
    /\ \/ /\ crawl.graphFailed
          /\ GraphFails
       \/ /\ ~ crawl.graphFailed
          /\ crawl' = [crawl EXCEPT !.phase = "capture"]
          /\ UNCHANGED <<db, work>>
    /\ UNCHANGED <<files, budget>>

-----------------------------------------------------------------------------
(***************************************************************************)
(* Semantic tokens of the provider's documents                              *)
(***************************************************************************)
Captured == Provided \cap crawl.processed

ReadForTokens(d) ==
    /\ crawl.phase = "capture" /\ d \in Captured
    /\ work[d].stage = "ready" /\ Free
    /\ IF files[d] = work[d].text
         THEN Stage(d, "capture") /\ UNCHANGED crawl
         ELSE Stage(d, "done") /\ crawl' = [crawl EXCEPT !.failed = TRUE]
    /\ UNCHANGED <<files, db, budget>>

TokensCaptured(d) ==
    /\ crawl.phase = "capture" /\ work[d].stage = "capture"
    /\ \/ db' = saveSemanticTokens(db, d, work[d].text) /\ UNCHANGED <<crawl, budget>>
       \/ Spend("faults") /\ Failure /\ UNCHANGED db
    /\ Stage(d, "done")
    /\ UNCHANGED files

CaptureEnds ==
    /\ crawl.phase = "capture"
    /\ \A d \in Captured : work[d].stage = "done"
    /\ crawl' = [crawl EXCEPT !.phase = "probe"]
    /\ UNCHANGED <<files, db, work, budget>>

-----------------------------------------------------------------------------
(***************************************************************************)
(* Probing: for each occurrence of a document in turn, each kind in turn.   *)
(***************************************************************************)
KindOrder == [references |-> 0, definition |-> 1, declaration |-> 2,
              highlights |-> 3, hover |-> 4]

\* An item is a position and a kind.
Turn(item) == 5 * item[1] + KindOrder[item[2]]

NextOf(items) == CHOOSE i \in items : \A j \in items : Turn(i) <= Turn(j)
LastOf(items) == CHOOSE i \in items : \A j \in items : Turn(j) <= Turn(i)

listOccurrences(d) == {p \in Positions : <<d, p>> \in db.occurrences} \X Kinds

\* From one request to the next: what is answered already is passed over, and
\* highlights are taken from the references where these are known.  The first
\* item of the queue that is left is the request to send.
Pass(d, item, acc) ==
    LET o == <<d, item[1]>> IN
    IF acc.queue # {} THEN [acc EXCEPT !.queue = @ \cup {item}]
    ELSE IF hasCompleteAnswer(acc.db, o, item[2]) THEN acc
    ELSE IF item[2] = "highlights" /\ KnowsReferences(acc.db, o)
      THEN [acc EXCEPT !.db = saveHighlightsFromReferences(acc.db, o)]
    ELSE [acc EXCEPT !.queue = {item}]

\* In the order of their turns.
PassOver(d, database, items) ==
    MapThenFoldSet(LAMBDA item, acc : Pass(d, item, acc),
                   [db |-> database, queue |-> {}], LAMBDA item : item, LastOf, items)

Advance(d, database, items) ==
    LET acc == PassOver(d, database, items)
    IN  /\ db' = acc.db
        /\ work' = [work EXCEPT ![d].text = IF work[d].stage = "ready"
                                              THEN files[d] ELSE @,
                                ![d].queue = acc.queue,
                                ![d].stage = IF acc.queue = {}
                                               THEN "done" ELSE "probe"]

\* The file is read and opened once more.
StartProbe(d) ==
    /\ crawl.phase = "probe" /\ d \in Standard
    /\ work[d].stage = "ready" /\ Free
    /\ Advance(d, db, listOccurrences(d))
    /\ UNCHANGED <<files, crawl, budget>>

Answered(d) ==
    /\ crawl.phase = "probe" /\ work[d].stage = "probe"
    /\ LET item == NextOf(work[d].queue)
           o    == <<d, item[1]>>
           kind == item[2]
           rest == work[d].queue \ {item}
       IN  \/ /\ kind \notin Unanswerable
              /\ Advance(d, saveAnswer(db, o, kind, Truth(view, o, kind)), rest)
              /\ UNCHANGED <<crawl, budget>>
           \/ /\ kind \in Unanswerable
              /\ Advance(d, db, rest)
              /\ UNCHANGED <<crawl, budget>>
           \/ /\ kind = "references" /\ d \in RazorDocs
              /\ Advance(d, saveAnswer(db, o, kind, {}), rest)
              /\ UNCHANGED <<crawl, budget>>
           \/ /\ Spend("faults") /\ Failure
              /\ Advance(d, saveAnswerError(db, o, kind), rest)
    /\ UNCHANGED files

\* Whenever a file is read, it may not be readable.
ReadFails(d) ==
    /\ Free
    /\ \/ /\ crawl.phase = "discover" /\ work[d].stage = "waiting"
          /\ Stage(d, "unprepared")
       \/ /\ work[d].stage = "ready"
          /\ \/ crawl.phase = "capture" /\ d \in Captured
             \/ crawl.phase = "probe" /\ d \in Standard
          /\ Stage(d, "done")
    /\ Spend("faults") /\ Failure
    /\ UNCHANGED <<files, db>>

\* Mutant: a document that could not be prepared is waited for.
ProbeEndsForAll ==
    /\ crawl.phase = "probe"
    /\ \A d \in InCrawl \ Provided : work[d].stage = "done"
    /\ crawl' = [crawl EXCEPT !.phase = IF crawl.failed THEN "failed" ELSE "finished"]
    /\ work' = [d \in Docs |-> NoWork]
    /\ UNCHANGED <<files, db, budget>>

ProbeEnds ==
    /\ crawl.phase = "probe"
    /\ \A d \in Standard : work[d].stage = "done"
    /\ crawl' = [crawl EXCEPT !.phase = IF crawl.failed THEN "failed" ELSE "finished"]
    /\ work' = [d \in Docs |-> NoWork]
    /\ UNCHANGED <<files, db, budget>>

-----------------------------------------------------------------------------
(***************************************************************************)
(* Around the crawl                                                        *)
(***************************************************************************)
\* What is committed at any point of the next step of a worker that has more
\* than one transaction: each row of upsertOccurrences is one, and so is each
\* answer, asked or derived.
Beginnings(items) ==
    {{}} \cup {{i \in items : Turn(i) <= Turn(last)} : last \in items}

Committed(d) ==
    IF crawl.phase = "discover" /\ work[d].stage = "symbols"
      THEN {upsertOccurrences(db, d, rows) :
              rows \in SUBSET (work[d].found \cup Declarations(work[d].text))}
    ELSE IF crawl.phase = "probe" /\ work[d].stage = "ready" /\ d \in Standard /\ Free
      THEN {PassOver(d, db, items).db : items \in Beginnings(listOccurrences(d))}
    ELSE IF crawl.phase = "probe" /\ work[d].stage = "probe"
      THEN LET item == NextOf(work[d].queue)
               o    == <<d, item[1]>>
               kind == item[2]
           IN  {PassOver(d, saveAnswer(db, o, kind, Truth(view, o, kind)), items).db :
                  items \in IF kind \in Unanswerable THEN {}
                            ELSE Beginnings(work[d].queue \ {item})}
    ELSE {}

\* The process is killed: what was committed stays.
Crash ==
    /\ Running
    /\ Spend("crashes")
    /\ db' \in {db} \cup UNION {Committed(d) : d \in Docs}
    /\ crawl' = NoCrawl
    /\ work' = [d \in Docs |-> NoWork]
    /\ UNCHANGED files

\* A file is edited, added or removed.  During a crawl only edits are
\* considered: a file that vanishes is a read that fails.
Edit ==
    \E d \in Docs, content \in Contents \cup {Absent} :
        /\ content # files[d]
        /\ Spend(IF Running THEN "liveEdits" ELSE "edits")
        /\ Running => Absent \notin {content, files[d]}
        /\ files' = [files EXCEPT ![d] = content]
        /\ crawl' = [crawl EXCEPT !.disturbed = @ \/ Running]
        /\ UNCHANGED <<db, work>>

-----------------------------------------------------------------------------
Init ==
    /\ files \in Files
    /\ db = emptyDatabase
    /\ crawl = NoCrawl
    /\ work = [d \in Docs |-> NoWork]
    /\ budget = [crawls |-> MaxCrawls, crashes |-> MaxCrashes, faults |-> MaxFaults,
                 edits |-> MaxEdits, liveEdits |-> MaxLiveEdits]

Worker(d) ==
    \/ ReadDocument(d) \/ ReadFails(d)
    \/ TokensAnswered(d) \/ SymbolsAnswered(d)
    \/ ReadForTokens(d) \/ TokensCaptured(d)
    \/ StartProbe(d) \/ Answered(d)

Graph == GraphChunk \/ ChunkDocumentFails \/ GraphRequestFails \/ GraphEnds

Next ==
    \/ StartCrawl
    \/ \E d \in Docs : Worker(d)
    \/ ResetProvided \/ ClearStandard
    \/ Graph
    \/ CaptureEnds \/ ProbeEnds
    \/ Crash \/ Edit

Spec == Init /\ [][Next]_vars

(***************************************************************************)
(* Fairness: a request is answered, with an error when its timeout passes;  *)
(* a file is read; what runs between awaits runs.  It is enough that some   *)
(* step is taken, of whichever worker.  No fault has to happen.             *)
(***************************************************************************)
Progress ==
    \/ \E d \in Docs : \/ ReadDocument(d)
                       \/ TokensAnswered(d) \/ SymbolsAnswered(d)
                       \/ ReadForTokens(d) \/ TokensCaptured(d)
                       \/ StartProbe(d) \/ Answered(d)
    \/ ResetProvided \/ ClearStandard
    \/ GraphChunk \/ GraphEnds
    \/ CaptureEnds \/ ProbeEnds

Fairness == WF_vars(Progress)

FairSpec == Spec /\ Fairness

-----------------------------------------------------------------------------
(***************************************************************************)
(* Properties                                                              *)
(***************************************************************************)
\* What the server would say now, or the empty set with which the crawler
\* replaces a known Razor failure.
True(o, kind, answer) ==
    \/ answer = Truth(db.documents, o, kind)
    \/ /\ o[1] \in RazorDocs /\ kind \in {"references", "highlights"}
       /\ answer = {}

\* Every complete answer, asked or derived from others, in whatever order and
\* by whichever crawl, is the answer for the documents that are recorded.
AnswersTrue ==
    \A o \in Occurrences, kind \in Kinds :
        Complete(db, o, kind) => True(o, kind, db.answers[o, kind].locations)

\* So is every edge and every definition of the graph.
GraphTrue ==
    \A o \in Occurrences :
        db.edges[o] # NoSymbol =>
            /\ o \in Mentions(db.documents, db.edges[o])
            /\ db.definitions[db.edges[o]] = Definitions(db.documents, db.edges[o])

\* A crawl that reports success has left no identifier out and none of its
\* answers open: no failure was swallowed, and nothing that was taken as done
\* by an earlier crawl is missing.
FinishedComplete ==
    crawl.phase = "finished" =>
        \A o \in Named(db.documents) \ Of(UnsupportedDocs) :
            LET isProvided == crawl.provider /\ o[1] \in ProviderDocs IN
            \/ isProvided /\ o[1] \in OutsideSolution \ crawl.processed
            \/ /\ db.tokens[o[1]] = db.documents[o[1]]
               /\ o \in db.occurrences
               /\ IF isProvided THEN db.edges[o] # NoSymbol
                  ELSE \A kind \in Kinds \ Unanswerable :
                          hasCompleteAnswer(db, o, kind)

\* What earlier crawls left, wherever they died, never makes a crawl fail.
CleanCrawlSucceeds ==
    crawl.phase = "failed" => crawl.hindered \/ crawl.disturbed

\* A crawl with no symbol graph keeps the complete answers that it finds,
\* as long as no file has changed and no request fails.
AnswersKept ==
    [][\A o \in Occurrences, kind \in Kinds :
          Complete(db, o, kind) /\ ~ Complete(db', o, kind) =>
              \/ db.documents # files
              \/ db.hasGraph
              \/ budget'.faults # budget.faults]_vars

\* After a crawl during which no file was edited, every answer is one for the
\* files as they are recorded, whatever had happened before.
FinishedTrue ==
    crawl.phase = "finished" /\ ~ crawl.disturbed =>
        \A o \in Occurrences, kind \in Kinds :
            Complete(db, o, kind) => True(o, kind, db.answers[o, kind].locations)

\* A crawl ends, whatever fails in it.
CrawlEnds == Running ~> ~ Running
=============================================================================
