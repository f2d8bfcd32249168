----------------------------- MODULE WebExtension -----------------------------
(***************************************************************************)
(* The extension in a browser: commands that stop, resolve an index and      *)
(* start a server in a worker                                                *)
(* (packages/vscode-extension/src/browser-extension.ts, browser-worker.ts),  *)
(* the workspace's revision that decides which index is downloaded            *)
(* (remote-hub-revision.ts), and the worker that loads it                    *)
(* (browser-server.ts).                                                      *)
(*                                                                         *)
(* An operation is one call of startClient or restartClient; an action runs  *)
(* from one await of it to the next.  It creates at most one worker, which    *)
(* has its number.  One that has shown its error is over: when the user       *)
(* answers, another command begins and nothing of the first is left.  The     *)
(* cache of downloaded indexes is what Extension models; here its answer is   *)
(* any index that it may answer with.                                       *)
(***************************************************************************)
EXTENDS Integers, FiniteSets, SequencesExt

CONSTANTS
    Commits,
    History,        \* of a commit: itself and its ancestors, the nearest first
    Workspaces,     \* what is known of a workspace: [hub, ref, index, roslyn]
    Settings,       \* what the user may choose: [path, commit]
    Automatic,      \* no codewise.roslynCommit
    NoCommit,
    NoIndex,
    ConfiguredIndex,\* the file that codewise.indexPath names
    WorkspaceIndex, \* .codewise/index.db or artifacts/.codewise/index.db
    NoClient,
    MaxCommands,    \* bound on commands and openings of the window, together
    MaxMoves,       \* bound on changes of the workspace's revision
    MaxFaults       \* bound on failures, and on closings of the window

ASSUME WebExtensionAssumption ==
    /\ \A c \in Commits : History[c][1] = c /\ Range(History[c]) \subseteq Commits
    /\ Workspaces \subseteq
          [hub    : {"absent", "dormant", "registered", "broken"},
           ref    : {"none", "invalid", "commit", "named"},
           index  : BOOLEAN, roslyn : BOOLEAN]
    /\ Settings \subseteq [path   : {"none", "file", "missing", "desktop"},
                           commit : Commits \cup {Automatic}]
    /\ {Automatic, NoCommit, NoIndex, ConfiguredIndex, WorkspaceIndex}
          \cap Commits = {}
    /\ {MaxCommands, MaxMoves, MaxFaults} \subseteq Nat
    /\ NoClient \notin 1..MaxCommands

Operations == 1..MaxCommands

VARIABLES
    workspace,   \* the workspace, and whether RemoteHub has its provider yet
    head,        \* the revision of the workspace
    setting,     \* codewise.indexPath and codewise.roslynCommit
    remembered,  \* the state codewise.roslynCommit, which outlives the window
    open,        \* the window
    client,      \* the operation whose client and worker are remembered
    op, worker,  \* operations and their workers
    overlapped,  \* a command was given before another had ended
    budget       \* what is left of the bounds

outside == <<workspace, head, setting, remembered, open>>
vars    == <<outside, client, op, worker, overlapped, budget>>

NewOp == [stage |-> "unused", stopping |-> NoClient, wanted |-> NoCommit,
          exact |-> FALSE, told |-> TRUE, heads |-> {}, index |-> NoIndex]
OverOp == [NewOp EXCEPT !.stage = "over"]
NewWorker == [stage |-> "none", index |-> NoIndex, posted |-> {}]

Ended == {"unused", "done", "over"}
Alive == {"loading", "ready", "silent"}

Spend(what)   == budget[what] > 0 /\ budget' = [budget EXCEPT ![what] = @ - 1]
At(o, stage)  == op[o].stage = stage
Goes(o, stage) == op' = [op EXCEPT ![o].stage = stage]
Ends(o)       == op' = [op EXCEPT ![o] = OverOp]

NextOperation == CHOOSE o \in Operations :
    At(o, "unused") /\ \A p \in Operations : At(p, "unused") => o <= p

\* dispose: also of a worker that has been disposed of before.
Disposed(o) == [worker EXCEPT ![o] = [NewWorker EXCEPT !.stage = "terminated"]]

-----------------------------------------------------------------------------
(***************************************************************************)
(* Commands                                                                *)
(***************************************************************************)
\* activate
Open ==
    /\ ~ open /\ Spend("commands")
    /\ open' = TRUE
    /\ op' = [op EXCEPT ![NextOperation] =
                 [NewOp EXCEPT !.stage = "resolve", !.heads = {head}]]
    /\ UNCHANGED <<workspace, head, setting, remembered, client, worker, overlapped>>

\* The client is forgotten first.  The library refuses to stop one that is still
\* starting; its worker is disposed of all the same, and nothing is started.
stopClient ==
    LET new == [NewOp EXCEPT !.heads = {head}] IN
    /\ client' = NoClient
    /\ \/ /\ client = NoClient
          /\ op' = [op EXCEPT ![NextOperation] = [new EXCEPT !.stage = "resolve"]]
          /\ UNCHANGED worker
       \/ /\ client # NoClient /\ At(client, "starting")
          /\ op' = [op EXCEPT ![NextOperation] = OverOp]
          /\ worker' = Disposed(client)
       \/ /\ client # NoClient /\ ~ At(client, "starting")
          /\ op' = [op EXCEPT ![NextOperation] =
                       [new EXCEPT !.stage = "stopping", !.stopping = client]]
          /\ UNCHANGED worker

\* restartServer, selectIndex and selectRoslynCommit, which change a setting
\* first, as the user may.
Command(settings) ==
    /\ open /\ Spend("commands")
    /\ setting' = settings
    /\ overlapped' = (overlapped \/ \E o \in Operations : op[o].stage \notin Ended)
    /\ stopClient
    /\ UNCHANGED <<workspace, head, remembered, open>>

ServerStops(o) ==
    /\ At(o, "stopping")
    /\ worker' = Disposed(op[o].stopping)
    /\ op' = [op EXCEPT ![o].stage = "resolve", ![o].stopping = NoClient,
                        ![op[o].stopping] = OverOp]
    /\ UNCHANGED <<outside, client, overlapped, budget>>

\* Mutant: the worker is disposed of only when its client could be stopped.
StopFailsKeeping(o) ==
    /\ At(o, "stopping") /\ Spend("faults")
    /\ op' = [op EXCEPT ![o] = OverOp, ![op[o].stopping] = OverOp]
    /\ UNCHANGED <<outside, client, worker, overlapped>>

StopFails(o) ==
    /\ At(o, "stopping") /\ Spend("faults")
    /\ worker' = Disposed(op[o].stopping)
    /\ op' = [op EXCEPT ![o] = OverOp, ![op[o].stopping] = OverOp]
    /\ UNCHANGED <<outside, client, overlapped>>

\* The page is closed or loaded again: its workers end with it.
Close ==
    /\ open /\ Spend("faults")
    /\ open' = FALSE /\ client' = NoClient /\ overlapped' = FALSE
    /\ op' = [o \in Operations |-> IF At(o, "unused") THEN NewOp ELSE OverOp]
    /\ worker' = [o \in Operations |-> NewWorker]
    /\ UNCHANGED <<workspace, head, setting, remembered>>

-----------------------------------------------------------------------------
(***************************************************************************)
(* resolveIndexUri                                                         *)
(***************************************************************************)
Uses(o, index) == op' = [op EXCEPT ![o].stage = "read", ![o].index = index]

\* A path of the desktop means nothing in a workspace that is not on its disk.
ResolveConfigured(o) ==
    /\ At(o, "resolve")
    /\ \/ setting.path = "file" /\ Uses(o, ConfiguredIndex)
       \/ setting.path = "missing" /\ Ends(o)
       \/ setting.path \in {"none", "desktop"} /\ Goes(o, "workspace")
    /\ UNCHANGED <<outside, client, worker, overlapped, budget>>

\* Then resolveDownloadedRoslynIndex, which does without the revision where a
\* commit is configured.
ResolveInWorkspace(o) ==
    /\ At(o, "workspace")
    /\ \/ workspace.index /\ Uses(o, WorkspaceIndex)
       \/ ~ workspace.index /\ ~ workspace.roslyn /\ Ends(o)
       \/ /\ ~ workspace.index /\ workspace.roslyn /\ setting.commit # Automatic
          /\ op' = [op EXCEPT ![o].stage = "download", ![o].wanted = setting.commit,
                              ![o].exact = TRUE]
       \/ /\ ~ workspace.index /\ workspace.roslyn /\ setting.commit = Automatic
          /\ Goes(o, "hub")
    /\ UNCHANGED <<outside, client, worker, overlapped, budget>>

Wants(o, commit) ==
    op' = [op EXCEPT ![o].stage = "download", ![o].wanted = commit]

\* detectRemoteHubRevision: metadata that are not there, for a provider that is
\* not registered or not ready, are asked for once more after the workspace was
\* initialised.
DetectRemoteHub(o) ==
    /\ At(o, "hub")
    /\ \/ workspace.hub = "registered" /\ Wants(o, head)
       \/ workspace.hub = "dormant" /\ Goes(o, "initialize")
       \/ workspace.hub \in {"absent", "broken"} /\ Goes(o, "github")
    /\ UNCHANGED <<outside, client, worker, overlapped, budget>>

InitializeWorkspace(o) ==
    /\ At(o, "initialize")
    /\ \/ /\ workspace' = [workspace EXCEPT !.hub = "registered"]
          /\ Wants(o, head)
       \/ UNCHANGED workspace /\ Goes(o, "github")
    /\ UNCHANGED <<head, setting, remembered, open, client, worker, overlapped, budget>>

\* Where nothing could be detected, the commit that was entered before is
\* taken; where none was, the user is asked.
Undetected(o) ==
    op' = [op EXCEPT ![o].stage = IF remembered = NoCommit THEN "prompt" ELSE "download",
                     ![o].wanted = remembered, ![o].told = FALSE]

\* Mutant: what was entered once is taken whatever the workspace is at.
DetectRemembered(o) ==
    /\ At(o, "github")
    /\ \/ workspace.ref \in {"commit", "named"} /\ remembered = NoCommit
          /\ Wants(o, head) /\ UNCHANGED budget
       \/ workspace.ref \in {"commit", "named"} /\ remembered # NoCommit
          /\ Wants(o, remembered) /\ UNCHANGED budget
       \/ workspace.ref \in {"none", "invalid"} /\ Undetected(o) /\ UNCHANGED budget
       \/ workspace.ref = "named" /\ Spend("faults") /\ Undetected(o)
    /\ UNCHANGED <<outside, client, worker, overlapped>>

\* detectGitHubRevision: a ref that is a commit needs no request; a branch, a
\* tag, HEAD or a pull request does, and it may fail.
DetectGitHub(o) ==
    /\ At(o, "github")
    /\ \/ workspace.ref \in {"commit", "named"} /\ Wants(o, head) /\ UNCHANGED budget
       \/ workspace.ref \in {"none", "invalid"} /\ Undetected(o) /\ UNCHANGED budget
       \/ workspace.ref = "named" /\ Spend("faults") /\ Undetected(o)
    /\ UNCHANGED <<outside, client, worker, overlapped>>

\* The user enters a commit, or cancels.
PromptAnswered(o) ==
    /\ At(o, "prompt")
    /\ \/ \E commit \in Commits : remembered' = commit /\ Wants(o, commit)
       \/ UNCHANGED remembered /\ Ends(o)
    /\ UNCHANGED <<workspace, head, setting, open, client, worker, overlapped, budget>>

\* An index of the commit, or of an ancestor where none was configured; or no
\* such index is retained.
DownloadedIndices(o) ==
    IF op[o].exact THEN {op[o].wanted} ELSE Range(History[op[o].wanted])

ResolveDownloaded(o) ==
    /\ At(o, "download")
    /\ Ends(o) \/ \E index \in DownloadedIndices(o) : Uses(o, index)
    /\ UNCHANGED <<outside, client, worker, overlapped, budget>>

-----------------------------------------------------------------------------
(***************************************************************************)
(* The worker's start                                                      *)
(***************************************************************************)
\* The bytes have been read; createBrowserWorker fetches the script.
ReadIndex(o) ==
    /\ At(o, "read")
    /\ Goes(o, "create")
    /\ UNCHANGED <<outside, client, worker, overlapped, budget>>

\* The worker is there, and its request with the bytes is posted.
CreateWorker(o) ==
    /\ At(o, "create")
    /\ worker' = [worker EXCEPT ![o].stage = "loading", ![o].index = op[o].index]
    /\ Goes(o, "bootstrap")
    /\ UNCHANGED <<outside, client, overlapped, budget>>

\* A stat, a read, authentication or the script's request fails.
StartFails(o) ==
    /\ op[o].stage \in {"resolve", "workspace", "download", "read", "create"}
    /\ Spend("faults")
    /\ Ends(o)
    /\ UNCHANGED <<outside, client, worker, overlapped>>

\* bootstrap, in the worker: it listens to the client before it says so.
WorkerLoads(o) ==
    /\ worker[o].stage = "loading"
    /\ worker' = [worker EXCEPT ![o].stage = "ready", ![o].posted = @ \cup {"ready"}]
    /\ UNCHANGED <<outside, client, op, overlapped, budget>>

\* The index or the SQLite module cannot be loaded; or there is no answer.
WorkerFails(o) ==
    /\ worker[o].stage = "loading" /\ Spend("faults")
    /\ \E posted \in {{"error"}, {}} :
          worker' = [worker EXCEPT ![o].stage = "silent", ![o].posted = @ \cup posted]
    /\ UNCHANGED <<outside, client, op, overlapped>>

BootstrapReady(o) ==
    /\ At(o, "bootstrap") /\ "ready" \in worker[o].posted
    /\ client' = o
    /\ Goes(o, "starting")
    /\ worker' = [worker EXCEPT ![o].posted = {}]
    /\ UNCHANGED <<outside, overlapped, budget>>

BootstrapError(o) ==
    /\ At(o, "bootstrap") /\ "error" \in worker[o].posted
    /\ worker' = Disposed(o)
    /\ Ends(o)
    /\ UNCHANGED <<outside, client, overlapped, budget>>

\* Mutant: the time is counted from the worker's first answer.
BootstrapTimesOutLate(o) ==
    /\ At(o, "bootstrap") /\ worker[o].posted # {}
    /\ worker' = Disposed(o)
    /\ Ends(o)
    /\ UNCHANGED <<outside, client, overlapped, budget>>

\* Mutant: a worker that is late is left alone.
BootstrapTimesOutLeaving(o) ==
    /\ At(o, "bootstrap")
    /\ Ends(o)
    /\ UNCHANGED <<outside, client, worker, overlapped, budget>>

\* The worker may just have answered: nobody listens any more.
BootstrapTimesOut(o) ==
    /\ At(o, "bootstrap")
    /\ worker' = Disposed(o)
    /\ Ends(o)
    /\ UNCHANGED <<outside, client, overlapped, budget>>

\* Initialisation of the client needs a worker that answers.
ClientStarts(o) ==
    /\ At(o, "starting") /\ worker[o].stage = "ready"
    /\ op' = [op EXCEPT ![o] = [NewOp EXCEPT !.stage = "done"]]
    /\ UNCHANGED <<outside, client, worker, overlapped, budget>>

\* The client that is forgotten need not be the one that failed.
ClientFails(o) ==
    /\ At(o, "starting") /\ worker[o].stage = "ready" /\ Spend("faults")
    /\ client' = NoClient
    /\ worker' = Disposed(o)
    /\ Ends(o)
    /\ UNCHANGED <<outside, overlapped>>

-----------------------------------------------------------------------------
\* Another branch is chosen, or a commit is added to it.
Moves ==
    /\ workspace.ref # "commit" /\ Spend("moves")
    /\ \E commit \in Commits \ {head} :
          /\ head' = commit
          /\ op' = [o \in Operations |->
                       IF op[o].stage \in Ended THEN op[o]
                       ELSE [op[o] EXCEPT !.heads = @ \cup {commit}]]
    /\ UNCHANGED <<workspace, setting, remembered, open, client, worker, overlapped>>

Init ==
    /\ workspace \in Workspaces
    /\ head \in Commits
    /\ setting = [path |-> "none", commit |-> Automatic]
    /\ remembered = NoCommit
    /\ open = FALSE /\ client = NoClient /\ overlapped = FALSE
    /\ op = [o \in Operations |-> NewOp]
    /\ worker = [o \in Operations |-> NewWorker]
    /\ budget = [commands |-> MaxCommands, moves |-> MaxMoves, faults |-> MaxFaults]

\* What happens without the user and without a failure.
Proceeds(o) ==
    \/ ServerStops(o)
    \/ ResolveConfigured(o) \/ ResolveInWorkspace(o)
    \/ DetectRemoteHub(o) \/ InitializeWorkspace(o) \/ DetectGitHub(o)
    \/ ResolveDownloaded(o) \/ ReadIndex(o) \/ CreateWorker(o)
    \/ BootstrapReady(o) \/ BootstrapError(o) \/ BootstrapTimesOut(o)
    \/ ClientStarts(o)

Next ==
    \/ Open \/ Close \/ Moves
    \/ \E settings \in Settings : Command(settings)
    \/ \E o \in Operations :
          \/ Proceeds(o) \/ PromptAnswered(o)
          \/ StopFails(o) \/ StartFails(o) \/ ClientFails(o)
          \/ WorkerLoads(o) \/ WorkerFails(o)

\* Awaited calls of the editor settle, the timer fires, and a worker that is
\* ready answers.  Nothing is assumed of users and of workers that load.
Fairness == \A o \in Operations : WF_vars(Proceeds(o))

Spec == Init /\ [][Next]_vars /\ Fairness

-----------------------------------------------------------------------------
(***************************************************************************)
(* Properties                                                              *)
(***************************************************************************)
\* Whichever step of a start or a stop fails or is late: where no command was
\* given before another had ended, a worker is alive only while its operation
\* goes on, or as the one that the next command will stop.
SoleWorker ==
    overlapped \/ \A o \in Operations : worker[o].stage \in Alive =>
        \/ client = o /\ op[o].stage \in {"starting", "done"}
        \/ op[o].stage = "bootstrap"
        \/ \E p \in Operations : At(p, "stopping") /\ op[p].stopping = o

\* A client that is started talks to a worker that has loaded the index its
\* operation resolved; where no commit is configured and anything tells the
\* revision, that of a commit in the history of one the workspace was at since
\* the command was given, whatever the user entered before.
ServesWorkspace ==
    \A o \in Operations :
        /\ client = o /\ ~ overlapped => worker[o].stage = "ready"
        /\ At(o, "starting") /\ worker[o].stage = "ready" =>
              /\ worker[o].index = op[o].index
              /\ op[o].exact => op[o].index = op[o].wanted
              /\ op[o].index \in Commits /\ ~ op[o].exact /\ op[o].told =>
                    \E c \in op[o].heads : op[o].index \in Range(History[c])

\* Every operation ends, whether or not the worker ever answers, unless the user
\* is asked, or gives a command before it has ended.
StartEnds ==
    \A o \in Operations :
        op[o].stage \notin Ended ~> op[o].stage \in Ended \cup {"prompt"} \/ overlapped
=============================================================================
