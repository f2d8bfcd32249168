------------------------------ MODULE Extension ------------------------------
(***************************************************************************)
(* Windows of the desktop extension that share one index cache: commands     *)
(* that stop, resolve an index and start a server                            *)
(* (packages/vscode-extension/src/extension.ts, roslyn-index-provider.ts),   *)
(* and the server with the documents that are open in it                     *)
(* (packages/index-lsp/src/server.ts, node-file-index-source.ts).            *)
(*                                                                         *)
(* An operation is one call of startClient (when a window opens) or          *)
(* restartClient; an action runs from one await of it to the next.  It       *)
(* starts at most one server, which has its number.                          *)
(***************************************************************************)
EXTENDS IndexCache

CONSTANTS
    Windows,
    CheckedOut,   \* HEAD of the workspace in each window
    Automatic,    \* no codewise.roslynCommit
    LocalIndex,   \* a file of the user, named by codewise.indexPath
    NoClient,
    Unread,       \* a file that is still being read
    Published,    \* sets of artifacts that may be there at first
    Settings,     \* what the user may choose: [local, commit]
    MaxCommands,  \* bound on windows opened and restarts, together
    MaxNotices,   \* bound on notifications and token requests of a server
    MaxFaults     \* bound on failures, and windows closed

ASSUME ExtensionAssumption ==
    /\ CheckedOut \in [Windows -> Commits]
    /\ Absent \notin Windows
    /\ Automatic \notin Commits
    /\ Published \subseteq SUBSET Artifacts
    /\ \A published \in Published : IsFiniteSet(published)
    /\ Settings \subseteq [local : BOOLEAN, commit : Commits \cup {Automatic}]
    /\ [local |-> FALSE, commit |-> Automatic] \in Settings
    /\ LocalIndex \notin Artifacts \cup {Absent, Damaged}
    /\ Unread \notin Artifacts \cup {Absent}
    /\ {MaxCommands, MaxNotices, MaxFaults} \subseteq Nat
    /\ NoClient \notin 1..MaxCommands

Operations == 1..MaxCommands

VARIABLES
    github,       \* the artifacts that GitHub retains
    cache,        \* index.db and manifest.json of each commit
    setting,      \* of each window: indexPath is given, and roslynCommit
    client,       \* of each window: the server that it remembers
    open,         \* windows that are open
    op,           \* the operations
    server,       \* the server that each operation started
    overlapped,   \* windows with a command given before another had ended
    budget        \* what is left of the bounds

windows == <<setting, client, open, overlapped>>
vars    == <<github, cache, windows, op, server, budget>>

NothingRead == [file \in Files |-> Unread]
NewOp == [window |-> Absent, stage |-> "unused", stopping |-> NoClient,
          wanted |-> Absent, exact |-> FALSE, commit |-> Absent, seen |-> NothingRead,
          artifact |-> Absent, received |-> Absent, disturbed |-> FALSE]
NewServer == [stage |-> "none", index |-> Absent, document |-> Absent,
              requests |-> {}, shown |-> Absent]

Ended  == {"unused", "done", "over"}
Spend(what) == budget[what] > 0 /\ budget' = [budget EXCEPT ![what] = @ - 1]

\* What an operation no longer holds when it has its index.
Forgotten(o, stage) ==
    [op[o] EXCEPT !.stage = stage, !.seen = NothingRead, !.artifact = Absent,
                  !.received = Absent, !.stopping = NoClient]

\* It has failed, or its server has ended.
Over          == [NewOp EXCEPT !.stage = "over"]
StoppedServer == [NewServer EXCEPT !.stage = "stopped"]

At(o, stage)  == op[o].stage = stage
Fails(o)      == op' = [op EXCEPT ![o] = Over]
Of(w)         == {o \in Operations : op[o].window = w}

-----------------------------------------------------------------------------
(***************************************************************************)
(* Commands                                                                *)
(***************************************************************************)
NextOperation == CHOOSE o \in Operations :
    At(o, "unused") /\ \A p \in Operations : At(p, "unused") => o <= p

\* activate
Open(w) ==
    /\ w \notin open /\ Spend("commands")
    /\ open' = open \cup {w}
    /\ op' = [op EXCEPT ![NextOperation].window = w, ![NextOperation].stage = "resolve"]
    /\ UNCHANGED <<github, cache, setting, client, overlapped, server>>

\* Mutant: the old client is forgotten and not stopped.
stopClientForgets(w) ==
    /\ client' = [client EXCEPT ![w] = NoClient]
    /\ op' = [op EXCEPT ![NextOperation] =
                 [NewOp EXCEPT !.window = w, !.stage = "resolve"]]
    /\ UNCHANGED server

\* The library refuses to stop a client that is still starting.
stopClient(w) ==
    LET current == client[w]
        stage   == IF current = NoClient THEN "resolve"
                   ELSE IF server[current].stage = "starting" THEN "over"
                   ELSE "stopping"
    IN  /\ client' = [client EXCEPT ![w] = NoClient]
        /\ op' = [op EXCEPT ![NextOperation] =
              IF stage = "over" THEN Over
              ELSE [NewOp EXCEPT !.window = w, !.stage = stage,
                                 !.stopping = IF stage = "stopping" THEN current ELSE @]]
        /\ server' = IF stage = "stopping"
                       THEN [server EXCEPT ![current].stage = "stopping"] ELSE server

\* restartServer, selectIndex and selectRoslynCommit, which change a setting
\* first, as the user may.
Command(w, settings) ==
    /\ w \in open /\ Spend("commands")
    /\ setting' = [setting EXCEPT ![w] = settings]
    /\ overlapped' = IF \E o \in Of(w) : op[o].stage \notin Ended
                       THEN overlapped \cup {w} ELSE overlapped
    /\ stopClient(w)
    /\ UNCHANGED <<github, cache, open>>

\* Also the server's handler of "shutdown", which forgets the documents.
ServerStops(o) ==
    /\ At(o, "stopping")
    /\ server' = [server EXCEPT ![op[o].stopping] = StoppedServer]
    /\ op' = [op EXCEPT ![o].stage = "resolve", ![o].stopping = NoClient,
                        ![op[o].stopping] = Over]
    /\ UNCHANGED <<github, cache, windows, budget>>

\* The window and its servers end.
Close(w) ==
    /\ w \in open /\ Spend("faults")
    /\ open' = open \ {w}
    /\ client' = [client EXCEPT ![w] = NoClient]
    /\ overlapped' = overlapped \ {w}
    /\ op' = [o \in Operations |-> IF o \in Of(w) THEN Over ELSE op[o]]
    /\ server' = [o \in Operations |-> IF o \in Of(w) THEN StoppedServer ELSE server[o]]
    /\ UNCHANGED <<github, cache, setting>>

-----------------------------------------------------------------------------
(***************************************************************************)
(* The server's start                                                      *)
(***************************************************************************)
\* What startClient does when the index is resolved: others with o changed.
Starts(o, others, commit) ==
    /\ client' = [client EXCEPT ![op[o].window] = o]
    /\ server' = [server EXCEPT ![o].stage = "starting"]
    /\ op' = [others EXCEPT ![o] = [Forgotten(o, "load") EXCEPT !.commit = commit]]
    /\ UNCHANGED <<setting, open, overlapped>>

AtPath(path) == IF path = LocalIndex THEN LocalIndex ELSE cache[path]["index"]

\* initialize: the file is opened by its path, whatever was found there before.
ServerLoads(o) ==
    /\ At(o, "load")
    /\ server' = [server EXCEPT ![o].stage = "running",
                                ![o].index = AtPath(op[o].commit)]
    /\ op' = [op EXCEPT ![o] = Forgotten(o, "done")]
    /\ UNCHANGED <<github, cache, windows, budget>>

\* The client that is forgotten need not be the one that failed.
LoadFails(o) ==
    /\ At(o, "load") /\ Spend("faults")
    /\ server' = [server EXCEPT ![o] = StoppedServer]
    /\ client' = [client EXCEPT ![op[o].window] = NoClient]
    /\ Fails(o)
    /\ UNCHANGED <<github, cache, setting, open, overlapped>>

-----------------------------------------------------------------------------
(***************************************************************************)
(* resolveIndexPath and resolveDownloadedRoslynIndex                       *)
(***************************************************************************)
\* The settings, which are read one after the other, and then HEAD.
ReadSettings(o) ==
    /\ At(o, "resolve")
    /\ LET configured == setting[op[o].window].commit
           wanted == IF configured = Automatic THEN CheckedOut[op[o].window]
                     ELSE configured
       IN  IF setting[op[o].window].local
             THEN Starts(o, op, LocalIndex)
             ELSE /\ op' = [op EXCEPT ![o].stage = "check", ![o].wanted = wanted,
                         ![o].commit = wanted, ![o].exact = configured # Automatic]
                  /\ UNCHANGED <<windows, server>>
    /\ UNCHANGED <<github, cache, budget>>

\* isValidCachedIndex reads both files at once, in either order.  Without a
\* valid pair the artifact is looked for, or the one found is downloaded.
ReadCached(o, file) ==
    /\ At(o, "check") /\ op[o].seen[file] = Unread
    /\ LET read  == [op[o].seen EXCEPT ![file] = cache[op[o].commit][file]]
           whole == Unread \notin {read[f] : f \in Files}
       IN  IF whole /\ verifyRoslynIndex(read["index"], read["manifest"], op[o].commit)
             THEN Starts(o, op, op[o].commit)
             ELSE /\ op' = [op EXCEPT
                       ![o].seen  = IF whole THEN NothingRead ELSE read,
                       ![o].stage = IF ~ whole THEN "check"
                                    ELSE IF op[o].artifact = Absent THEN "find"
                                    ELSE "download"]
                  /\ UNCHANGED <<windows, server>>
    /\ UNCHANGED <<github, cache, budget>>

\* Mutant: the fallback is tried for a configured commit too.
FindExactOrNot(o) ==
    /\ At(o, "find")
    /\ LET artifact == findRoslynArtifact(github, op[o].wanted) IN
       IF artifact # Absent
         THEN op' = [op EXCEPT ![o].stage = "download", ![o].artifact = artifact]
         ELSE op' = [op EXCEPT ![o].stage = "latest"]
    /\ UNCHANGED <<github, cache, windows, server, budget>>

\* Only where no commit is configured an older one may do.
FindExact(o) ==
    /\ At(o, "find")
    /\ LET artifact == findRoslynArtifact(github, op[o].wanted) IN
       \/ /\ artifact # Absent
          /\ op' = [op EXCEPT ![o].stage = "download", ![o].artifact = artifact]
       \/ artifact = Absent /\ op[o].exact /\ Fails(o)
       \/ artifact = Absent /\ ~ op[o].exact /\ op' = [op EXCEPT ![o].stage = "latest"]
    /\ UNCHANGED <<github, cache, windows, server, budget>>

FindLatest(o) ==
    /\ At(o, "latest")
    /\ LET artifact == findLatestRoslynArtifact(github, op[o].wanted) IN
       IF artifact = Absent THEN Fails(o)
       ELSE op' = [op EXCEPT ![o].artifact = artifact, ![o].commit = artifact.commit,
                      ![o].stage = IF artifact.commit = op[o].wanted THEN "download"
                                   ELSE "check"]
    /\ UNCHANGED <<github, cache, windows, server, budget>>

\* git, a read, authentication, a lookup, a download or a write fails.
ResolutionFails(o) ==
    /\ op[o].stage \in {"resolve", "check", "find", "latest", "download",
                       "renameIndex", "renameManifest"}
    /\ Spend("faults")
    /\ Fails(o)
    /\ UNCHANGED <<github, cache, windows, server>>

\* What arrives may be damaged; extractVerifiedRoslynIndex compares it with
\* the manifest that comes with it.
Download(o) ==
    /\ At(o, "download")
    /\ \E received \in {op[o].artifact, Damaged} :
          /\ IF received = Damaged THEN Spend("faults") ELSE UNCHANGED budget
          /\ IF verifyRoslynIndex(received, op[o].artifact, op[o].commit)
               THEN op' = [op EXCEPT ![o].stage = "renameIndex", ![o].received = received]
               ELSE Fails(o)
    /\ UNCHANGED <<github, cache, windows, server>>

-----------------------------------------------------------------------------
(***************************************************************************)
(* writeCacheAtomically: each file is written under another name, which     *)
(* nobody reads and which is deleted in the end, and renamed.               *)
(***************************************************************************)
\* Others that use the directory while o replaces a file in it.
Disturbed(o) ==
    [p \in Operations |->
        IF p # o /\ op[p].commit = op[o].commit
          THEN [op[p] EXCEPT !.disturbed = TRUE] ELSE op[p]]

\* Mutant: an index that is there is not overwritten.
RenameIndexOnce(o) ==
    /\ At(o, "renameIndex")
    /\ cache' = [cache EXCEPT ![op[o].commit]["index"] =
                    IF @ = Absent THEN op[o].received ELSE @]
    /\ op' = [Disturbed(o) EXCEPT ![o].stage = "renameManifest"]
    /\ UNCHANGED <<github, windows, server, budget>>

RenameIndex(o) ==
    /\ At(o, "renameIndex")
    /\ cache' = [cache EXCEPT ![op[o].commit]["index"] = op[o].received]
    /\ op' = [Disturbed(o) EXCEPT ![o].stage = "renameManifest"]
    /\ UNCHANGED <<github, windows, server, budget>>

RenameManifest(o) ==
    /\ At(o, "renameManifest")
    /\ cache' = [cache EXCEPT ![op[o].commit]["manifest"] = op[o].artifact]
    /\ Starts(o, Disturbed(o), op[o].commit)
    /\ UNCHANGED <<github, budget>>

-----------------------------------------------------------------------------
(***************************************************************************)
(* One document in the server; its text is named by the commit at which it  *)
(* has that text.                                                           *)
(***************************************************************************)
Texts == Commits
Running(o) == server[o].stage = "running"

\* semanticTokens of the index: the text they were made from.
TokensOf(index) == index.commit

NewDocument(text) == [text |-> text, version |-> budget.notices, hash |-> Absent]

DidChange(o, text) ==
    /\ server[o].document # Absent
    /\ server' = [server EXCEPT ![o].document = NewDocument(text)]

DidOpen(o, text) ==
    /\ server[o].document = Absent
    /\ server' = [server EXCEPT ![o].document = NewDocument(text)]

DidClose(o) ==
    /\ server[o].document # Absent
    /\ server' = [server EXCEPT ![o].document = Absent]

\* document.hash ??= hashDocument(document.text), which is then awaited.
TokensRequested(o) ==
    LET document == server[o].document
        hash     == IF document.hash = Absent THEN document.text ELSE document.hash
    IN  /\ document # Absent /\ server[o].index # LocalIndex
        /\ server' = [server EXCEPT
              ![o].document.hash = hash,
              ![o].requests = @ \cup {[version |-> document.version, hash |-> hash]}]

Notice(o) ==
    /\ Running(o) /\ Spend("notices")
    /\ \/ \E text \in Texts : DidOpen(o, text) \/ DidChange(o, text)
       \/ DidClose(o)
       \/ TokensRequested(o)
    /\ UNCHANGED <<github, cache, windows, op>>

\* Mutant: the document is not compared after the await.
TokensAnsweredLate(o, request) ==
    /\ server' = [server EXCEPT
          ![o].requests = @ \ {request},
          ![o].shown = IF request.hash = TokensOf(server[o].index)
                         THEN [tokens |-> request.hash, document |-> server[o].document]
                         ELSE @]
    /\ UNCHANGED <<github, cache, windows, op, budget>>

\* Nothing is returned for a document that is another one by now, or whose
\* text is not the one that was indexed.
TokensAnswered(o, request) ==
    /\ server' = [server EXCEPT
          ![o].requests = @ \ {request},
          ![o].shown = IF /\ server[o].document # Absent
                          /\ server[o].document.version = request.version
                          /\ request.hash = TokensOf(server[o].index)
                         THEN [tokens |-> TokensOf(server[o].index),
                               document |-> server[o].document]
                         ELSE @]
    /\ UNCHANGED <<github, cache, windows, op, budget>>

-----------------------------------------------------------------------------
\* index-roslyn.yml uploads an artifact.  One that expires is like one that was
\* never there, or a download that fails.
Publish(artifact) ==
    /\ \A other \in github : other.number < artifact.number
    /\ github' = github \cup {artifact}
    /\ UNCHANGED <<cache, windows, op, server, budget>>

-----------------------------------------------------------------------------
Init ==
    /\ github \in Published
    /\ cache = EmptyCache
    /\ setting = [w \in Windows |-> [local |-> FALSE, commit |-> Automatic]]
    /\ client = [w \in Windows |-> NoClient]
    /\ open = {} /\ overlapped = {}
    /\ op = [o \in Operations |-> NewOp]
    /\ server = [o \in Operations |-> NewServer]
    /\ budget = [commands |-> MaxCommands, notices |-> MaxNotices, faults |-> MaxFaults]

Resolve(o) ==
    \/ ReadSettings(o) \/ \E file \in Files : ReadCached(o, file)
    \/ FindExact(o) \/ FindLatest(o) \/ ResolutionFails(o)
    \/ Download(o) \/ RenameIndex(o) \/ RenameManifest(o)

Next ==
    \/ \E w \in Windows :
          Open(w) \/ Close(w) \/ \E settings \in Settings : Command(w, settings)
    \/ \E o \in Operations :
          \/ ServerStops(o) \/ Resolve(o) \/ ServerLoads(o) \/ LoadFails(o)
          \/ Notice(o) \/ \E request \in server[o].requests : TokensAnswered(o, request)
    \/ \E artifact \in Artifacts : Publish(artifact)

Spec == Init /\ [][Next]_vars

-----------------------------------------------------------------------------
(***************************************************************************)
(* Properties                                                              *)
(***************************************************************************)
\* Whatever other windows write and wherever they are closed, a server that
\* runs has opened a whole index, of the commit that was configured or, when
\* none was, of one in the history of the workspace's.
ServesVerified ==
    \A o \in Operations :
        Running(o) /\ op[o].commit # LocalIndex =>
            /\ server[o].index \in Artifacts
            /\ server[o].index.commit = op[o].commit
            /\ op[o].commit \in IF op[o].exact THEN {op[o].wanted}
                                ELSE Range(History[op[o].wanted])

\* Files of different downloads may be left side by side, by two windows or by
\* one that was closed between two renames; an operation that nobody disturbs
\* repairs them, and serves the index that was verified.
RepairedWhenAlone ==
    \A o \in Operations :
        At(o, "done") /\ ~ op[o].disturbed /\ op[o].commit # LocalIndex =>
            LET pair == cache[op[o].commit] IN
            /\ verifyRoslynIndex(pair["index"], pair["manifest"], op[o].commit)
            /\ server[o].index = pair["index"]

\* Where no command was given before another had ended, at most one server of
\* a window runs, and it is the one that the next command will stop.
SoleServer ==
    \A o \in Operations :
        server[o].stage \in {"starting", "running"} /\ op[o].window \notin overlapped =>
            client[op[o].window] = o

\* Tokens are returned only for a document that has the text they were made
\* from when they are returned, whatever was typed while it was hashed.
TokensMatch ==
    \A o \in Operations : server[o].shown # Absent =>
        /\ server[o].shown.document # Absent
        /\ server[o].shown.document.text = server[o].shown.tokens
=============================================================================
