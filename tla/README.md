# Codewise in TLA+

Codewise answers code-navigation requests from a precomputed index. A crawler
drives a language server over a workspace and stores its answers in SQLite; a
scheduler on GitHub decides which commits of dotnet/roslyn are indexed; an
editor extension downloads an index and serves it. This directory holds the
TLA+ models of the parts in which order, failure and concurrency matter, the
TLC configurations that check them and the proofs that TLAPS checks.
`PROJECT.json` lists the runs, the mutants (a plausible bug per property, found
by that property), the source lines of every definition, the hazards and the
theorems.

    tlc -config MC_crawl_resume.cfg MCCrawler.tla      # any run
    tlapm HostedIndexingProofs.tla                     # any proof module

## 1. Inventory

| Component | State | Operations | What is hard | What makes it correct |
|---|---|---|---|---|
| Hosted indexing (`tools/hosted-indexing`, two workflows) | `index-state.json` on a branch; dispatched runs | reserve, complete, conditional write with retries, dispatch, finalize | scanner and finalizers share a file; a write without an answer; reruns and resets; a killed job | only recorded reservations run; no attempt twice; newer results win; nobody starves |
| Crawl database (`lsp-crawler/src/database.ts`) | documents, occurrences, answers, hovers, symbol graph | synchronise, upsert, save, propagate, append, clear | answers derived from answers; cascades; resumption | every complete row is true of the recorded documents |
| Crawl driver (`lsp-crawler/src/crawler.ts`) | documents in work, failures | discover, populate the graph, capture tokens, probe | concurrent workers over one database; crashes between transactions; files edited while it runs | success means nothing is missing; leftovers never mislead or block a crawl; every crawl ends |
| LSP client (`client.ts`) | pending requests, registrations, progress | start, request, retry, waitForNotification, stop | timeouts against answers, late answers, a server that dies or sends rubbish, shutdown races | each request settles once, with its own answer; nobody waits on a broken connection; stop ends |
| Runtime export, index reader (`runtime-export.ts`, `index-core`) | an immutable compact index | export, lookup | choosing between graph and stored answers | the export answers as the crawl database would |
| Semantic tokens (`crawler.ts`, `database.ts`, `index-core`) | rows and the legend they are numbered by | decode, map, merge legends, encode, look up | three encodings, two line conventions, legends that grow | each token is where and what the server said, for the text it was made from |
| Index server (`index-lsp`) | open documents, an index | requests, edits | a hash awaited while the text changes | tokens only for the text they were made from |
| VS Code extension, desktop (`extension.ts`) | the current client | start, stop, restart | overlapping commands, failed starts | at most one server, and it is the remembered one |
| VS Code extension, web (`browser-*.ts`) | the current worker | bootstrap, restart | a timeout against the worker's answer | one worker, ready or reported, with an index of the workspace's revision |
| Index cache (`roslyn-index-provider.ts` and others) | a directory shared by windows | find, download, validate, store | two renames, several writers | a reader never serves a mixed pair |
| Roslyn tool (`tools/index-roslyn`) | outputs of one run | wait for projects, activate, chunk documents, crawl, export, describe | loading in bursts, chunk boundaries, partial outputs, a HEAD that moves | success covers the solution; every document once; a manifest only beside its own index |
| C# extensions, build scripts | none of their own | | | |

They meet in few places. `index-roslyn.yml` runs the Roslyn tool, which calls
`crawlWorkspace` with a symbol graph provider, exports the database and uploads
it; its last job reports to the hosted state. The extension finds the artifact,
caches it and gives it to the server, which reads it through `index-core`. The
crawl driver talks to the language server only through the client, and to the
disk only through the database.

## 2. Modules

| Module | Models | 
|---|---|
| `IndexState` | `state.ts`: the saved state, `reserveCandidates`, `completeCandidate`, `parseState`, all pure |
| `IndexLedger` | abstract: a ledger that changes by one whole reservation or completion |
| `HostedIndexing` | `state-repository.ts`, `cli.ts` and the two workflows as processes over one file |
| `MCHostedIndexing` | small instances of it |
| `HostedIndexingProofs` | the proofs about them, the pure functions included |
| `CrawlDatabase` | `database.ts`: every operation a crawl uses, one operator per transaction |
| `Crawler` | `crawler.ts`: phases, workers, failures, crashes and edits |
| `IndexQuery` | `runtime-export.ts` and the lookups of `code-index.ts`, over what a crawl leaves |
| `MCCrawler` | small instances of the three |
| `CrawlerProofs` | the proofs about the three |
| `LspClient`, `MCLspClient`, `LspClientProofs` | `client.ts`, with `requestWithRetry` and the way `crawlWorkspace` starts and stops it |
| `TextCoordinates` | `normalizeSemanticText` and `TextCoordinateMapper`: positions as servers and as editors count them, pure |
| `SemanticTokens`, `MCSemanticTokens`, `SemanticTokensProofs` | semantic tokens from a server's answer through the rows of the database to an editor |
| `GraphProvider` | abstract: what the crawler may rely on of a symbol graph provider |
| `RoslynSymbolGraph` | `waitForIdle` (`client.ts`), `roslyn-symbol-graph.ts` and `SymbolGraphHandler.cs`: Roslyn's provider |
| `RoslynIndexing`, `MCRoslynIndexing`, `RoslynIndexingProofs` | `cli.ts` of `index-roslyn` and `runtime-bundle.ts`: whole runs of the tool over one directory |
| `WebExtension`, `MCWebExtension`, `WebExtensionProofs` | `browser-extension.ts`, `browser-worker.ts`, `browser-server.ts` and `remote-hub-revision.ts` |
| `FoldProofs` | lemmas that several components' proofs rest on: least and greatest elements, induction over finite sets and along sequences, folds, sums |
| `IndexCache` | the cache directory and the choice of an artifact: `roslyn-index-artifact.ts`, `github-artifact.ts` |
| `Extension`, `MCExtension`, `ExtensionProofs` | `extension.ts` and `roslyn-index-provider.ts` as windows over one cache; `server.ts` and `node-file-index-source.ts` behind them |

### Hosted indexing

`IndexState` is a translation of pure functions. The loop of
`reserveCandidates` is given by its result: `Existing` is what the reset leaves
of an entry, `Eligible` the three early `continue`s (success retained, attempts
exhausted, still waiting), `Chosen` the first MAX_INDEXES_PER_RUN eligible
commits in the order of the listing with the reset one first, `ReservedEntry`
what becomes of each entry. An entry remembers in which order its keys were
written, because `sameState` compares JSON text and `completeCandidate` writes
another order than `parseState` reads. "cancelled" and "skipped" are treated as
"failure" by the code everywhere, so `Conclusions` has two members.

In `HostedIndexing` a client is the call of `StateRepository.update` that the
scanner, or the finalizer of one commit's run, is in: `pc` says whether it
reads or writes next, `ambiguous` is `ambiguousWrites`. `Read` covers the read,
the confirmation of an ambiguous write, the mutation and the early return when
nothing changes. The repository is GitHub's contents API: a PUT lands only on
the version it names; one without an answer is lost or stays in `late` and may
arrive at any time. A commit's workflow runs form a concurrency group of one
active run and at most one pending one. `finished` allows a rerun with the same
inputs. `reserved`, `dispatched` and `newest` are auxiliary: they record
history for the properties and are read by no guard, except that `newest`
numbers the runs.

### Crawler

An action of `Crawler` runs from one `await` to the next; node runs it without
interruption, and each database operation in it is a committed transaction, so
no other worker can see its middle. A crash can fall between two transactions
of one action too, between the rows that discovery writes and between the
answers that are derived without a request: `Committed` lists what is in the
database at each of these points.

A document's content says which symbol each position names and whether it
defines it, so it is its own hash. A location is an occurrence. An answer set
is shared by content in the database and is therefore its set of locations;
two occurrences are siblings when their sets are equal. The language server is
external: it answers the truth about the files, with the text of open documents
in place of the file (`view`). `Absent` is a document or token set that is not
there.

The phases are `discover`, `clear`, `graph`, `capture` and `probe`.
`ReadDocument` to `SymbolsAnswered` are discovery; `ResetProvided` and
`ClearStandard` make room; `GraphChunk`, `ChunkDocumentFails`,
`GraphRequestFails` and `GraphEnds` are `populateSymbolGraph`; `ReadForTokens`
and `TokensCaptured` are `captureProviderSemanticTokens`; `StartProbe` and
`Answered` are `probeDocument` and `probeOccurrence`, where `Advance` passes
over what is answered already and derives highlights from references without a
request. Kinds that the server advertises and answers with methodNotFound are
`Unanswerable`; `RazorDocs` have the failures that are taken for empty answers;
`UnsupportedDocs` have no syntax tree. The loops over occurrences and kinds are
sets of items, a position and a kind, taken in the order of their `Turn`.
`hindered` and `disturbed` are auxiliary.

### Export and lookup

`IndexQuery` extends `Crawler` with what a reader gets from its database.
`exportRuntimeIndex` keeps complete answers only; `definition` and `references`
choose between the symbol graph and stored answers as `CodeIndex` does, and
subtract declarations. Occurrences of one document do not overlap in the model,
so a position is an occurrence; hover is left out, and tokens are in `SemanticTokens`. These operators
are pure: their properties are checked in every state of the crawl.

### LSP client

An action of `LspClient` is one callback of node, or what a caller does between
two awaits. `client` holds the fields of `LspProcessClient`; `pending` maps ids to
callers, whose timers are the action `Timeout`; `call` says what each caller
awaits, which question it asked last and whose answer it was given. The two
pipes are queues; a pipe's message may be malformed, and then the rest of its
chunk is lost with it. The server is external: it may answer, refuse, stay
silent, register and unregister, die with or without an exit code. `phase`
follows `crawlWorkspace` from start to stop; an abandoned crawl leaves workers
that go on with their requests and retries while `stop` runs. `exitCode` and
`close` are separate events, as in node: `stop` and `breakConnection` look at the
first, pending requests are rejected by the second.

### Extension

An operation of `Extension` is a call of `startClient` or `restartClient` in one
window; `op[o].stage` is the await it is in. The cache is two files per commit,
read one after the other in either order and renamed one after the other. A file
is named by the artifact it came from, so a manifest fits an index exactly when
both are the same artifact. The server opens the index by its path in a later
step than its validation. `History` gives each commit's ancestors, nearest first.
A document's text is named by the commit at which it has that text, hence the
tokens of an index fit it when the index is of that commit. Each notification
makes another document object, told apart by `version`; `TokensRequested` and
`TokensAnswered` are the two sides of the awaited hash. `overlapped` and
`disturbed` are auxiliary. The client library is external: it refuses to stop a
client that is still starting, which makes the restart fail.

### Semantic tokens

A text is its sequence of UTF-16 code units, of which `TextCoordinates` keeps
what counting tells apart: a character of two bytes, surrogates, NEL, LS and PS,
CR, LF and the byte order mark. `toUtf16Position` and `#lineAtOffset` are
translated with their search; the server's own counting (`ServerPosition`) and
the editor's (`EditorPosition`) are defined apart from them, by counting breaks
and widths, and are what the translation is measured against. In
`SemanticTokens` crawls open and leave one database. The tokens of a document
are chosen once, from all that its text allows within `MaxTokens`, and the
legend each time it is captured; `Capture` is the decoding, the merge of
legends and the transaction of `saveSemanticTokens`. Bits of modifiers are sets
of bit numbers, so `MaxModifiers` can be small, and so can `MaxTypes`.

### Roslyn runs

`RoslynSymbolGraph` begins with the server's projects, which load in bursts of
progress; `waitForIdle` polls and returns after a quiet time, or fails at its
deadline. Then the provider waits for the notification of completed loading or its
time-out, activates the handler and sends chunks, which the C# handler answers by
documents that are loaded; documents of a project that is not are asked for again.
`GraphProvider` is what `populateSymbolGraph` of the crawler relies on: chunks within
both limits that hold each document once, and then an end or a failure.
`RoslynIndexing` is `main` of the tool around it: the removal of the earlier
outputs, the commit that is read once at the start, the crawl (abstracted to the
documents its graph covers), the hash and the manifest, and the runtime bundle. A run may
be killed anywhere, a checkout may come at any time and another run may follow
over what is left. The file system is external: a file is what was written.

### Web extension

`WebExtension` has the shape of `Extension` for one page: an operation is a call of
`startClient` or `restartClient`, and its number is also its worker's. A worker's
messages wait in `posted`; `BootstrapReady`, `BootstrapError` and
`BootstrapTimesOut` race for them. What the page knows of its workspace is one
record: whether RemoteHub is there, has its provider, or fails, and whether the
workspace's URI names a commit, a ref that must be looked up, or nothing. The
resolution of a downloaded index is the one `Extension` models, and here any of its
possible answers. Error messages end an operation, since nothing of it is left
when the user answers: "Select Index File" is another command.

## 3. Runs

| Run | Question | Instance |
|---|---|---|
| `hosted_manual` | Is each attempt recorded before it is dispatched, dispatched once, and reported in order, whatever is lost, reset or run again? | one commit of two sources, two faults of any kind, one reset, one rerun |
| `hosted_liveness` | Is every eligible commit reserved and every attempt settled? | two commits, one index per scan, fairness |
| `hosted_lost_reservation` | Does `update` return what it recorded? No. | one lost answer |
| `hosted_stale_failure` | Does a newer success always win? No. | a pull request closed and opened again |
| `crawl_resume` | Are stored answers true, and kept, without a graph? Does an index answer nothing false at any time? | two documents, four kinds, two crawls, one crash, fault and edit |
| `crawl_graph` | With graph chunks: is success complete, does every crawl end, and does an index then answer everything? | three documents, one of them not valid UTF-8, two kinds, provider on or off per crawl |
| `crawl_live_edit` | Does a file edited during a crawl get corrected by the next? No. | three crawls, one edit |
| `semantic_tokens` | Is each highlight where and what the server meant, is just that refused which cannot be shown, and do lookups find occurrences? | five texts, three encodings, two line conventions, four legends, three modifier bits and three types |
| `lsp_client` | Is every request settled once, with its own answer, and does stop end? | two workers, two requests or messages of the server, one fault |
| `roslyn_indexing` | Does a successful run cover the solution, does a manifest describe its neighbour, does the provider keep its contract, and does each run end? | two projects in bursts, two runs, one crash, fault and checkout |
| `extension` | What do windows over one cache serve, and do restarts leave one server? | two windows, three commands, three artifacts of two commits, one fault, three messages about a document |
| `web_extension` | Is a worker ever left behind, does the index fit the workspace, and does each start end? | three openings and commands, six kinds of workspaces, one move of the branch, two faults |

Bounds. For the hosted file, one commit is where all conflicts are: a scanner
and a finalizer write at once, two faults lose an answer and then another or kill
a job, and a reset and a rerun bring late and repeated results; `ThreeEvents`
looks at no more than three of the events that the bounds allow together. Two
commits, of which one is passed over for the other, are in `hosted_liveness`.
`MaxTries` 2 to 4 stands for 50, and includes running out of tries. Clocks of
two values are enough because the code only compares a difference with
RETRY_AFTER_HOURS or the retention, both 1 or never. For the crawler, two documents that define and use symbols in both
directions are the least in which an answer spreads from one worker's document
to another's; two positions give siblings in one document; two crawls, with an
edit, a crash and a failure in any places, are the least in which something is
resumed wrongly; three documents allow two chunks and a document outside the
provider. For the tokens, the five texts hold every kind of unit, line ends of
every kind beside each other, and an empty file; two tokens in the first document
are the least that are relative to each other, overlap or touch, and one in the second brings
another legend: some merge, some have too many modifiers together and some too many types.
For the client, two requests are the least for an answer to reach the wrong one, in one worker (a retry, or a question after a timeout) or in two; two
messages of the server register and unregister; a fault is a death, a malformed
message or an abandoned crawl. For the tool, two projects make a pause between bursts, and two runs
are the least in which one finds what another left. For the extension, two windows download different
artifacts of one commit and a third command finds what they left; three messages
are the least that open a document, ask for tokens and change it
(`FewWithDocuments` looks at documents only where at most two operations have
begun, which the handlers do not depend on). Windows are symmetric. In the web
extension three commands open the page, replace a client and replace the next one,
or open it again with what was remembered; `TwoWhenOverlapping` looks at
commands that overlap two at a time.
`CHECK_DEADLOCK FALSE` is stated wherever, once the bounds are used up, the
modelled system rightly stops.

Fairness. `hosted_liveness` assumes that scans start again and again (cron,
every 15 minutes), that jobs that run go on, that an index job ends
(`timeout-minutes`) and that time passes. No fault is fair, and none is allowed
in this run: repeated loss of every write would starve anything. `crawl_graph`
assumes only that some worker or the main function of a crawl takes a step while
one can: a request is answered or fails by its timeout, a read returns, and
`mapConcurrentValues` goes on with the next value. `lsp_client` assumes that
timers fire, that a process that is killed ends and that `stop` and `start` go
on when what they await is settled; the server need not do anything.
`roslyn_indexing` assumes that time passes and that the tool goes on while it can;
the server may stop loading in the midst of a burst, and then the deadline ends
the wait. `web_extension` assumes that calls of the editor settle, that the
bootstrap's timer fires and that a worker that is ready answers the client; a
worker that loads need not get anywhere, and the user need not answer.

Assumptions about what is external. `SuccessCovers` rests on the server pausing between
bursts of progress for less than the quiet time that `waitForIdle` asks for: the code has
no other sign that a solution is loaded, and a longer pause would let a crawl
begin too early, which documents that are missing then show.

### What disagrees with the documents

- `hosted_lost_reservation`: the confirmation of an ambiguous write compares the
  whole file (state-repository.ts:51). When a finalizer writes before the
  scanner reads back, the reservation is in the file, but `update` returns
  without it and the attempt is spent without a run.
- `hosted_stale_failure`: attempts are counted from 1 again for a commit that
  left the listing and came back (state.ts:118), while staleness is judged by
  attempt number; a failure of an old run replaces the success of a newer one.
- `crawl_live_edit`: discovery records a file's new hash without invalidating
  answers (crawler.ts:712), so an edit after synchronisation is never noticed
  again; README.md:52 says a change invalidates.

Known limits that no document speaks of. One side hashes the bytes of a file, the other the
text decoded from them (crawler.ts:237 and 716), so a workspace with a file that
is not valid UTF-8 is taken for changed by every crawl and never resumed: with
such a file `AnswersKept` does not hold, which is why `crawl_resume` has none;
`crawl_graph` has one, and shows that nothing false or missing comes of it.
Occurrences keep the server's coordinates, while the index server announces
UTF-16 (index-lsp/src/server.ts:82): `NavigationFinds` holds for servers that
count as editors do, and fails for any other. Two commands of one window that
overlap may leave a server or a worker that nobody stops (extension.ts:87,
browser-extension.ts:89); `SoleServer`, `SoleWorker` and `StartEnds` are stated for
commands that do not overlap.

## 4. Proofs

Every theorem holds for every value of the constants that satisfies the
assumptions of its module: any set of commits, listings, callers, windows or
artifacts, any limits and any number of faults. Each rests on an inductive
invariant, which TLC checked on the module's run before it was proved. Beyond the
assumptions that the modules state, a theorem has at most one of three hypotheses, each
named where it is used and each needed, since without it the code violates the property.

**Shared lemmas** (`FoldProofs`). Induction over data is proved here from the least element of a
set of numbers, with sets as its parameters: counting up (`CountUp`), over the subsets of a finite
set (`SubsetInduction`). On them rest the folds of the community modules: that the recursive
function a fold stands for exists (`FoldExists`, `SequenceFoldExists`), that a fold along a
sequence goes step by step (`FoldPath`), and that a sum does not depend on the order of its
terms (`SumsAnyOrder`, `SumOfMore`).

**Hosted indexing** (`HostedIndexingProofs`, which begins with the lemmas about the
pure functions).

- `TypeCorrect`: `Spec => []TypeOK`. `TypeInv` adds to `TypeOK` what keeps types
  inductive: a finalizer that is in `update` reports for the active run of its
  commit, which has a conclusion by then (`FinalizersRun`).
- `WorkIsReserved`: `Spec => []OnlyReservedWork`. It is not inductive by itself:
  what a scan will dispatch is first the result of a mutation that is written,
  or was written and not answered. `WorkInv` says that each mutation a client
  holds returns only what the state it writes has queued (`ClientsBacked`), and
  that what the file has queued is in `reserved` (`FileReserved`). A confirmed
  ambiguous write equals the file, so its reservations were recorded.
- `Refinement`: `Spec => ImplementsLedger`. The refinement mapping is `Ledger`,
  the file as a reader parses it. `RefInv` says that each write on its way is a
  reservation or a completion computed from the version it names, at a time
  until now (`WritesJustified`), that a scan's listing and reset are possible
  ones (`ScanSound`), and that each run's attempt is reserved (`RunsReserved`),
  so that a landing write is one step of `IndexLedger` and everything else a
  clock tick or a stutter. It rests on `WorkIsReserved`'s invariant.
- `ReservationIsConfirmed`: `Spec => ReservationConfirmed`, an action property: a
  scan that returns what it reserved has had its write answered or has read it
  back. `ScansPlain` (in `FrameInv`) is what it needs: what a scan writes has the
  form `parseState` gives, so that the comparison of a read file with an
  ambiguous write is one of states.
- `AttemptsAreBounded`: `Spec => []AttemptsBounded`. An attempt beyond
  MAX_ATTEMPTS needs a reset that landed, or a reset whose write landed
  unanswered and was applied again, which costs a fault. `CountInv` carries the
  bound through every state that is in the file, in a client or on its way, with
  one less (`Cap`) while a reset is still to be applied.
- `AttemptsDispatchOnce`, `NewestSuccessIsTold` and `SuccessIsKept` prove
  `NoSecondDispatch`, `NewerSuccessWins` and `SuccessKept` where `Steady` holds: the
  listings keep every commit, and nothing expires before the clock ends. Without it they
  are false of the code, as `hosted_stale_failure` shows: a commit that leaves
  the listing is counted from 1 again. `OrderInv` says that every write supersedes the
  version it names (`WritesInv`), that attempts count on from every attempt ever
  dispatched (`CountedOn`, `QueueInv`), that the runs of one commit report in order
  (`RunsOrdered`), and that each result is in the file or in an active
  finalizer (`ResultsWritten`, `SuccessTold`).

**LSP client** (`LspClientProofs`): `RequestsAreAccounted`, `AnswersAreMatched`,
`NobodyIsLeftWaiting`, `WorkIsAlwaysAwaited`, `NotificationsAreNotLost` and
`RegistrationsAreFollowed`, the invariants of `lsp_client`. None is inductive. `CallsInv` relates callers
to the map of pending requests: who waits has one entry, and the number of
entries and of recorded requests makes up `nextId`. `MessagesInv` says that what
is on either pipe or in the server has an identifier that was given, is in one
place, and holds the question its caller asked last if somebody still waits
for it (`QuestionsKept`): that is why an answer which comes after a timeout finds nobody. `WorkInv`
says that a request nobody waits for has its cancellation behind it on the pipe. `FollowInv` is
`RegistrationsFollow` with a server that has registered nothing before it is started. What a client
will have been told is a fold over the pipe (`Told`), whose first and last steps the proof takes
apart: one message handled, one more sent.

**Extensions.** `ExtensionProofs`: `VerifiedIsServed`, `AloneRepairs`,
`OneServerRuns` and `TokensAreOfTheText`. Its `IInv` follows each operation
from stage to stage: what it has chosen (`Follows`), that what it read, wrote or
verified is still there though another window may have replaced it (`Kept`) and, where nobody disturbed it,
unchanged (`Undisturbed`), and which index its server has opened (`Serves`); `InTurn` is
the order of one window's commands while they do not overlap. Versions of
documents only grow, so an equal version means an equal text (`Documented`).
`WebExtensionProofs`: `OneWorkerIsAlive` and `WorkspaceIsServed`, from
the same shape: `Belongs` ties a worker's life to its operation's stage, and
`InTurn` says that a worker that is alive is its active operation's, or is the client the next command
will stop.

**Crawler** (`CrawlerProofs`). `FrameInv` holds whatever happens: nobody works for a
crawl that has ended; as long as no file is edited, the recorded documents, the files and
the texts that are open in the server are the same (`Undisturbed`); what fails, fails for a
reason (`Failing`); and a document that a chunk may hold has no edge of an earlier crawl
(`Cleared`), which is why a chunk is never refused. `SoundInv` says of the database that
its answers, edges and definitions are true of the recorded documents (`Sound`) and that
it has no answer without a document (`Founded`): a synchronisation that does not
invalidate then finds either the same documents or an empty database. Each transaction has a lemma
about what it keeps; that an answer is true of all the occurrences it spreads to
(`SpreadsTruth`) is the heart of them.

- `CleanCrawlsSucceed`: `Spec => []CleanCrawlSucceeds`, without any hypothesis.
- `CompleteAnswersTrue`, `GraphsTrue` and `IndexServesNothingFalse`: `AnswersTrue`, `GraphTrue`
  and `ServesNothingFalse`, when `MaxLiveEdits = 0`: no file is edited during a crawl, else
  `crawl_live_edit` shows what happens. Crashes, failures and edits between crawls are
  unlimited.
- `FinishedIsComplete` and `IndexServesAll`: `FinishedComplete` and `ServesAll`, under the same
  hypothesis and, for the second, when references and definitions are among the questions that can
  be asked. `DoneInv` says, phase by phase and only while the crawl can still succeed
  (`Promising`), what of each document's work is already in the database: its identifiers once it is
  discovered, its edges once a chunk held it, its tokens once it is captured, and for
  each question not answered yet, that it still is in the document's queue. `ServeInv` ties
  the edges to the crawl that reports them: where there are edges there are the graph's
  tables, an edge is marked as a definition exactly where there is one (`EdgesKnown`), and once the
  graph is cleared only documents this crawl processed have edges (`EdgesOfCrawl`).
- `CompleteAnswersKept`: `Spec => AnswersKept`, an action property, for crawls with no
  graph provider (`Providers = {FALSE}`) over files that are valid UTF-8, the crawls that
  resume from answers; a chunk of the graph clears answers on purpose.

The loop over a queue is `PassOver`, a fold over a set. That the recursive function it stands for
exists, and the induction over it, are proved from the least element of a set of numbers
(`PassesExist`, `PassOverInduction`).

**Roslyn runs** (`RoslynIndexingProofs`): `ManifestsDescribeTheirIndex`, `SuccessPublishes`,
`IdleMissesNothing`, `SuccessIsCovered` and `RefinesProvider`. `Withheld`, `Describes` and `Manifests`
relate the stage of a run to the files: a manifest is removed first and stays away until the index
it names is finished, so what is on disk describes its neighbour wherever a run is killed.
`Reports` says that a server which still works was not quiet for longer than its longest pause, hence
`waitForIdle` returns only when all is loaded (`Loads`). `ChunksDivide` is about the pure function: for
any documents of any sizes, the chunks are not empty, within both limits, in order, and together
they are the documents. Its induction follows the loop (`Splits`: what was pushed, what is current,
and that the counter of bytes is the sum of what is current). `Chunks` carries this through
the requests, `Accounts` says that each document is still to be sent, or processed, or known to be
missing, unless the crawl knows of a failure, and `Accounted` that the index holds what the graph
has. From these follow the coverage of `SuccessCovers`, and `Promise`: each step of a run
is a step of `GraphProvider`, or changes nothing of it.

**Semantic tokens** (`SemanticTokensProofs`): `HighlightingIsTrue`, `RefusalsAreExact` and
`NavigationIsFound`, the three invariants of `semantic_tokens`, for texts of any length. The
module reads `TextCoordinates` first. How many of a set of numbers are up to one (`Rank`) goes up by
one at each of them, so `Ascending` is what it says (`AscendingEnumerates`); the binary search finds
the last line that does not start behind the offset (`LastLine`); widths are
differences of sums, and only the second half of a character has none (`WidthsGrow`). From these,
`SpanMaps`: `toUtf16Position` undoes what a server counts, for all encodings and both conventions, and
refuses exactly an end on another line; and `EditorPositionMaps`: counting in the normalised content is
counting in the editor's text, whatever its line ends. Then the tokens of a document are
followed through the fold of `semanticTokenCandidates` (`TakesNext`, `CandidatesAre`) and through an
editor's decoding of the row (`DecodesNext`, `DecodedIs`). `MergedIs` and `ExtendsShows` say
that a merged legend only goes on with the one before it, so that older rows mean what they meant.
`IInv` says of each row that it is what its document's tokens look like in the editor's coordinates under the
legend of the index, that its occurrences are theirs in the server's, and that the open
crawler's legend is the database's (`OneLegend`): an `Open` that does not read it breaks that.

What the proofs needed and the models had left unsaid is now in the assumptions: a history is
not empty and begins with its commit, what is published is finite, a document has finitely many
positions, halves of a character come in pairs in a text that was decoded from bytes, and the
values that stand for nothing are no windows, artifacts, commits, legends or lists of tokens.

Only model-checked: all liveness, since it rests on fairness and ENABLED;
and `ReservationsReturned`, `NewerSuccessWins` without `Steady` and the property of
`crawl_live_edit`, which the code violates. Every other property of the runs is a theorem.

## 5. Not modelled, and what is left

Left out of what is modelled: paging and parsing of GitHub's answers; the
parsing of document symbols and locations; `saveSymbolGraph`/`clearSymbolGraph`,
which the crawl driver does not call; capability matching and message framing in the
client; hover in the reader; path sharing and token rows of the export; archive
formats, authentication and messages to the user in the extensions; options,
downloads and SDK checks of the Roslyn tool, and the walk of its C# handler over
Roslyn's data structures. In `Crawler` a request is answered or fails: its
retries are in `LspClient`. Build scripts have no state of their own.

Left, in this order:

1. An abstract client, a set of calls that are each settled once, and `LspClient`
   shown to implement it.
2. Hover and overlapping occurrences in `IndexQuery`.
