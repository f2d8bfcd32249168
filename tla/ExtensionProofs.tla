--------------------------- MODULE ExtensionProofs ---------------------------
(***************************************************************************)
(* Theorems about Extension, for any windows, artifacts and settings, and    *)
(* any number of commands, notices and failures.                             *)
(***************************************************************************)
EXTENDS Extension, FoldProofs

(***************************************************************************)
(* Types                                                                   *)
(***************************************************************************)
Looking  == {"check", "find", "latest", "download", "renameIndex", "renameManifest"}
Stages   == Looking \cup Ended \cup {"stopping", "resolve", "load"}
Up       == {"starting", "running"}

Contents == Artifacts \cup {Absent}

OpRecord ==
    [window : Windows \cup {Absent}, stage : Stages,
     stopping : Operations \cup {NoClient},
     wanted : Commits \cup {Absent}, exact : BOOLEAN,
     commit : Commits \cup {Absent, LocalIndex},
     seen : [Files -> Contents \cup {Unread}],
     artifact : Contents, received : Contents, disturbed : BOOLEAN]

Documents == [text : Texts, version : Nat, hash : Texts \cup {Absent}]
Requests  == [version : Nat, hash : Texts]
Answers   == [tokens : Texts, document : Documents]

ServerRecord ==
    [stage : Up \cup {"none", "stopping", "stopped"},
     index : Contents \cup {LocalIndex}, document : Documents \cup {Absent},
     requests : SUBSET Requests, shown : Answers \cup {Absent}]

TypeInv ==
    /\ github \subseteq Artifacts /\ IsFiniteSet(github)
    /\ cache \in [Commits -> [Files -> Contents]]
    /\ setting \in [Windows -> [local : BOOLEAN, commit : Commits \cup {Automatic}]]
    /\ client \in [Windows -> Operations \cup {NoClient}]
    /\ open \subseteq Windows /\ overlapped \subseteq Windows
    /\ op \in [Operations -> OpRecord]
    /\ server \in [Operations -> ServerRecord]
    /\ budget \in [commands : 0..MaxCommands, notices : Nat, faults : Nat]

(***************************************************************************)
(* One operation: what it has chosen, its server, and the cache             *)
(***************************************************************************)
\* The commit is the one that was configured, or one in the history of HEAD.
Chosen(r) ==
    /\ r.wanted \in Commits /\ r.commit \in Commits
    /\ IF r.exact THEN r.commit = r.wanted ELSE r.commit \in Range(History[r.wanted])

\* What it looks for, and what it has found.
Follows(r) ==
    /\ r.stage \in {"unused", "over"} <=> r.window = Absent
    /\ r.stage \in {"unused", "stopping", "resolve"} =>
          r.seen = NothingRead /\ r.artifact = Absent
    /\ r.stage = "stopping" => r.stopping \in Operations
    /\ r.stage \in Looking => Chosen(r)
    /\ r.stage = "check" =>
          IF r.artifact = Absent THEN r.commit = r.wanted
          ELSE r.artifact.commit = r.commit
    /\ r.stage \in {"find", "latest"} =>
          r.commit = r.wanted /\ r.seen = NothingRead /\ r.artifact = Absent
    /\ r.stage = "latest" => ~ r.exact
    /\ r.stage \in {"download", "renameIndex", "renameManifest"} =>
          r.artifact \in Artifacts /\ r.artifact.commit = r.commit
    /\ r.stage \in {"renameIndex", "renameManifest"} => r.received = r.artifact
    /\ r.stage \in {"load", "done"} => r.commit = LocalIndex \/ Chosen(r)

\* What it has read, written or verified is still there, though it may have been
\* replaced by another download of the same commit.
Kept(r) ==
    /\ r.stage = "check" => \A file \in Files :
          r.seen[file] \notin {Unread, Absent} => cache[r.commit][file] # Absent
    /\ r.stage = "renameManifest" => cache[r.commit]["index"] # Absent
    /\ r.stage = "load" /\ r.commit # LocalIndex => cache[r.commit]["index"] # Absent

\* Where nobody disturbed it, it has not been replaced.
Undisturbed(r) ==
    /\ r.stage = "check" => \A file \in Files :
          r.seen[file] # Unread => r.seen[file] = cache[r.commit][file]
    /\ r.stage = "renameManifest" => cache[r.commit]["index"] = r.received
    /\ r.stage \in {"load", "done"} /\ r.commit # LocalIndex =>
          verifyRoslynIndex(cache[r.commit]["index"], cache[r.commit]["manifest"], r.commit)

\* Its server.
Serves(r, s) ==
    /\ s.stage = "starting" <=> r.stage = "load"
    /\ s.stage = "running" => r.stage = "done"
    /\ s.stage = "running" /\ r.commit # LocalIndex =>
          s.index \in Artifacts /\ s.index.commit = r.commit
    /\ r.stage = "done" /\ ~ r.disturbed /\ r.commit # LocalIndex =>
          s.index = cache[r.commit]["index"]

\* The document of a server, and the requests for its tokens.  Its version is the
\* number of notices left, so an older document has a greater one.
Documented(s, left) ==
    /\ s.document # Absent =>
          /\ s.document.version > left
          /\ s.document.hash # Absent => s.document.hash = s.document.text
    /\ \A request \in s.requests :
          /\ request.version > left
          /\ s.document # Absent /\ s.document.version = request.version =>
                request.hash = s.document.text
    /\ s.shown # Absent =>
          s.shown.document # Absent /\ s.shown.document.text = s.shown.tokens

Cached ==
    \A c \in Commits : \A file \in Files :
        cache[c][file] # Absent => cache[c][file].commit = c

\* The operations that have begun come first.
Numbered ==
    \A o \in Operations : At(o, "unused") <=> o > MaxCommands - budget.commands

EachOperation ==
    \A o \in Operations :
        /\ Follows(op[o]) /\ Kept(op[o]) /\ Serves(op[o], server[o])
        /\ ~ op[o].disturbed => Undisturbed(op[o])

EachDocument == \A o \in Operations : Documented(server[o], budget.notices)

(***************************************************************************)
(* The operations of one window, while its commands do not overlap          *)
(***************************************************************************)
Active(o) == op[o].stage \notin Ended

InTurn ==
    \A o \in Operations : op[o].window \notin overlapped =>
        /\ Active(o) =>
              /\ client[op[o].window] = IF At(o, "load") THEN o ELSE NoClient
              /\ \A p \in Operations :
                    op[p].window = op[o].window /\ Active(p) => p = o
        /\ server[o].stage \in Up => client[op[o].window] = o

\* Nothing goes on without a window.
Shut ==
    \A w \in Windows \ open : w \notin overlapped /\ client[w] = NoClient /\ Of(w) = {}

\* Whose server is remembered or stopped has begun.
Begun ==
    /\ \A w \in Windows : client[w] # NoClient => ~ At(client[w], "unused")
    /\ \A o \in Operations : At(o, "stopping") => ~ At(op[o].stopping, "unused")

IInv ==
    /\ TypeInv /\ Cached /\ Numbered /\ EachOperation /\ EachDocument
    /\ InTurn /\ Shut /\ Begun

-----------------------------------------------------------------------------
(***************************************************************************)
(* Numbers                                                                 *)
(***************************************************************************)
LEMMA MinIsLeast ==
  ASSUME NEW S \in SUBSET Nat, S # {}
  PROVE  Min(S) \in S
  BY LeastElement DEF Min

\* Of a finite set of things with numbers, one has the greatest.
LEMMA Newest ==
  ASSUME NEW S, IsFiniteSet(S), S # {}, \A x \in S : x.number \in Nat
  PROVE  \E x \in S : \A y \in S : y.number <= x.number
  <1> DEFINE number == [x \in S |-> x.number]
  <1>1. number \in [S -> Nat] /\ \A x \in S : number[x] = x.number
    OBVIOUS
  <1> HIDE DEF number
  <1>2. \E x \in S : \A y \in S : number[y] <= number[x]
    BY <1>1, GreatestNumber
  <1> QED BY <1>1, <1>2

-----------------------------------------------------------------------------
(***************************************************************************)
(* Values and artifacts                                                    *)
(***************************************************************************)
LEMMA Constants ==
  /\ Absent \notin Artifacts /\ Damaged \notin Artifacts /\ LocalIndex \notin Artifacts
  /\ LocalIndex # Absent /\ Unread \notin Artifacts /\ Unread # Absent
  /\ Absent \notin Windows
  /\ NoClient \notin Operations
  /\ MaxCommands \in Nat /\ MaxNotices \in Nat /\ MaxFaults \in Nat
  /\ \A a \in Artifacts : a.commit \in Commits /\ a.number \in Nat
  /\ \A w \in Windows : CheckedOut[w] \in Commits
  /\ \A s \in Settings : s.local \in BOOLEAN /\ s.commit \in Commits \cup {Automatic}
  BY IndexCacheAssumption, ExtensionAssumption DEF Operations

LEMMA OwnHistory ==
  ASSUME NEW c \in Commits
  PROVE  c \in Range(History[c]) /\ Range(History[c]) \subseteq Commits
  <1>1. History[c] \in Seq(Commits) /\ History[c] # <<>> /\ History[c][1] = c
    BY IndexCacheAssumption
  <1>2. 1 \in DOMAIN History[c] /\ \A i \in DOMAIN History[c] : History[c][i] \in Commits
    BY <1>1
  <1> QED BY <1>1, <1>2 DEF Range

LEMMA RoslynArtifactFound ==
  ASSUME TypeInv, NEW c \in Commits, Retained(github, c) # {}
  PROVE  findRoslynArtifact(github, c) \in Artifacts
           /\ findRoslynArtifact(github, c).commit = c
  <1> DEFINE found == Retained(github, c)
  <1>1. /\ found \subseteq Artifacts /\ IsFiniteSet(found)
        /\ \A artifact \in found : artifact.commit = c
    BY FS_Subset DEF TypeInv, Retained
  <1>2. \E x \in found : \A y \in found : y.number <= x.number
    BY <1>1, Newest, Constants
  <1>3. findRoslynArtifact(github, c) \in found
    BY <1>2 DEF findRoslynArtifact
  <1> QED BY <1>1, <1>3

LEMMA NoRoslynArtifact ==
  ASSUME NEW c, Retained(github, c) = {}
  PROVE  findRoslynArtifact(github, c) = Absent
  BY DEF findRoslynArtifact

\* What is found for a commit is of that commit.
LEMMA ArtifactOfCommit ==
  ASSUME TypeInv, NEW c \in Commits, NEW a, a = findRoslynArtifact(github, c), a # Absent
  PROVE  a \in Artifacts /\ a.commit = c
  BY RoslynArtifactFound, NoRoslynArtifact

\* What is found otherwise is of a commit in the history.
LEMMA ArtifactInHistory ==
  ASSUME TypeInv, NEW c \in Commits, NEW a, a = findLatestRoslynArtifact(github, c),
         a # Absent
  PROVE  a \in Artifacts /\ a.commit \in Commits /\ a.commit \in Range(History[c])
  <1> DEFINE history == History[c]
             distances == {d \in DOMAIN history : Retained(github, history[d]) # {}}
  <1>1. history \in Seq(Commits)
    BY IndexCacheAssumption
  <1>2. distances \in SUBSET Nat
    BY <1>1
  <1>3. distances # {} /\ a = findRoslynArtifact(github, history[Min(distances)])
    BY DEF findLatestRoslynArtifact
  <1>4. Min(distances) \in distances
    <2> HIDE DEF distances
    <2> QED BY <1>2, <1>3, MinIsLeast
  <1>5. history[Min(distances)] \in Commits /\ history[Min(distances)] \in Range(History[c])
    <2>1. Min(distances) \in DOMAIN history
      BY <1>4
    <2> HIDE DEF history
    <2>2. history[Min(distances)] \in Range(history)
      BY <2>1 DEF Range
    <2>3. history[Min(distances)] \in Commits
      BY <1>1, <2>1
    <2> QED BY <2>2, <2>3 DEF history
  <1> HIDE DEF distances, history
  <1> QED BY <1>3, <1>5, ArtifactOfCommit

-----------------------------------------------------------------------------
(***************************************************************************)
(* Records and bounds                                                      *)
(***************************************************************************)
LEMMA NewRecords ==
  /\ NewOp \in OpRecord /\ Over \in OpRecord
  /\ NewServer \in ServerRecord /\ StoppedServer \in ServerRecord
  /\ NewOp.stage = "unused" /\ NewOp.window = Absent /\ NewOp.seen = NothingRead
  /\ NewOp.artifact = Absent
  /\ Over.stage = "over" /\ Over.window = Absent
  /\ NewServer.stage = "none" /\ NewServer.document = Absent /\ NewServer.requests = {}
  /\ NewServer.shown = Absent
  /\ StoppedServer.stage = "stopped" /\ StoppedServer.document = Absent
  /\ StoppedServer.requests = {} /\ StoppedServer.shown = Absent
  BY DEF NewOp, Over, NewServer, StoppedServer, OpRecord, ServerRecord, Stages, Looking,
         Ended, Up, NothingRead, Contents

\* An operation that has failed holds nothing, nor does a server that has ended.
LEMMA OverHolds ==
  /\ Follows(Over) /\ Kept(Over) /\ Kept(Over)' /\ Undisturbed(Over) /\ Undisturbed(Over)'
  /\ Serves(Over, StoppedServer) /\ Serves(Over, StoppedServer)'
  /\ \A left : Documented(StoppedServer, left)
  BY NewRecords DEF Follows, Kept, Undisturbed, Serves, Documented, Looking

LEMMA SpendFault ==
  ASSUME TypeInv, Spend("faults")
  PROVE  /\ budget' \in [commands : 0..MaxCommands, notices : Nat, faults : Nat]
         /\ budget'.commands = budget.commands /\ budget'.notices = budget.notices
  <1> DEFINE less == budget.faults - 1
  <1>1. budget \in [commands : 0..MaxCommands, notices : Nat, faults : Nat]
    BY DEF TypeInv
  <1>2. /\ budget.faults \in Nat /\ budget.faults > 0
        /\ budget' = [budget EXCEPT !.faults = less]
    BY <1>1 DEF Spend
  <1>4. less \in Nat
    BY <1>2
  <1> HIDE DEF less
  <1> QED BY <1>1, <1>2, <1>4

LEMMA SpendNotice ==
  ASSUME TypeInv, Spend("notices")
  PROVE  /\ budget' \in [commands : 0..MaxCommands, notices : Nat, faults : Nat]
         /\ budget'.commands = budget.commands
         /\ budget.notices \in Nat /\ budget'.notices = budget.notices - 1
  <1> DEFINE less == budget.notices - 1
  <1>1. budget \in [commands : 0..MaxCommands, notices : Nat, faults : Nat]
    BY DEF TypeInv
  <1>2. /\ budget.notices \in Nat /\ budget.notices > 0
        /\ budget' = [budget EXCEPT !.notices = less]
    BY <1>1 DEF Spend
  <1>4. less \in Nat
    BY <1>2
  <1> HIDE DEF less
  <1>3. /\ budget' \in [commands : 0..MaxCommands, notices : Nat, faults : Nat]
        /\ budget'.commands = budget.commands /\ budget'.notices = less
        /\ budget.notices \in Nat
    BY <1>1, <1>2, <1>4
  <1> QED BY <1>3 DEF less

LEMMA SpendCommand ==
  ASSUME TypeInv, Spend("commands")
  PROVE  /\ budget' \in [commands : 0..MaxCommands, notices : Nat, faults : Nat]
         /\ budget.commands \in 1..MaxCommands
         /\ budget'.commands = budget.commands - 1 /\ budget'.notices = budget.notices
  <1> DEFINE less == budget.commands - 1
  <1>1. budget \in [commands : 0..MaxCommands, notices : Nat, faults : Nat]
    BY DEF TypeInv
  <1>2. /\ budget.commands \in 0..MaxCommands /\ budget.commands > 0
        /\ budget' = [budget EXCEPT !.commands = less]
    BY <1>1 DEF Spend
  <1>3. less \in 0..MaxCommands /\ budget.commands \in 1..MaxCommands
    BY <1>2, Constants
  <1> HIDE DEF less
  <1>4. /\ budget' \in [commands : 0..MaxCommands, notices : Nat, faults : Nat]
        /\ budget'.commands = less /\ budget'.notices = budget.notices
    BY <1>1, <1>2, <1>3
  <1> QED BY <1>3, <1>4 DEF less

\* The next operation is the first that has not begun.
LEMMA NextIsFirst ==
  ASSUME TypeInv, Numbered, budget.commands \in 1..MaxCommands
  PROVE  /\ NextOperation \in Operations /\ At(NextOperation, "unused")
         /\ \A o \in Operations :
               o # NextOperation => (o > MaxCommands - budget.commands
                                       <=> o > MaxCommands - (budget.commands - 1))
         /\ ~ (NextOperation > MaxCommands - (budget.commands - 1))
  <1> DEFINE first == MaxCommands - budget.commands + 1
  <1>1. first \in Operations /\ At(first, "unused")
    BY Constants DEF Numbered, Operations
  <1>2. \A p \in Operations : At(p, "unused") => first <= p
    BY Constants DEF Numbered, Operations
  <1>3. \E o \in Operations :
           At(o, "unused") /\ \A p \in Operations : At(p, "unused") => o <= p
    BY <1>1, <1>2
  <1>4. /\ NextOperation \in Operations /\ At(NextOperation, "unused")
        /\ \A p \in Operations : At(p, "unused") => NextOperation <= p
    BY <1>3 DEF NextOperation
  <1>5. NextOperation = first
    BY <1>1, <1>2, <1>4, Constants DEF Operations
  <1>6. ~ (NextOperation > MaxCommands - (budget.commands - 1))
    BY <1>5, Constants
  <1>7. \A o \in Operations :
           o # first => (o > MaxCommands - budget.commands
                           <=> o > MaxCommands - (budget.commands - 1))
    BY Constants DEF Operations
  <1> QED BY <1>4, <1>5, <1>6, <1>7

-----------------------------------------------------------------------------
(***************************************************************************)
(* What one operation does to the others and to the cache                  *)
(***************************************************************************)
\* The cache is left alone, or one file of a commit is replaced and whoever else
\* uses that directory is disturbed.
Replaces(o, file, artifact) ==
    /\ artifact \in Artifacts /\ artifact.commit = op[o].commit /\ op[o].commit \in Commits
    /\ file \in Files
    /\ cache' = [cache EXCEPT ![op[o].commit][file] = artifact]
    /\ \A p \in Operations \ {o} : op'[p] = Disturbed(o)[p]

Rewrites(o) ==
    \/ UNCHANGED cache /\ \A p \in Operations \ {o} : op'[p] = op[p]
    \/ \E file \in Files, artifact \in Artifacts : Replaces(o, file, artifact)

\* The same but for having been disturbed.
Alike(r, s) ==
    /\ s.window = r.window /\ s.stage = r.stage /\ s.stopping = r.stopping
    /\ s.wanted = r.wanted /\ s.exact = r.exact /\ s.commit = r.commit
    /\ s.seen = r.seen /\ s.artifact = r.artifact /\ s.received = r.received
    /\ r.disturbed => s.disturbed

LEMMA CacheRewritten ==
  ASSUME IInv, NEW o \in Operations, Rewrites(o)
  PROVE  /\ cache' \in [Commits -> [Files -> Contents]] /\ Cached'
         /\ \A c \in Commits, file \in Files :
               cache[c][file] # Absent => cache'[c][file] # Absent
         /\ \A c \in Commits : c = op[o].commit \/ cache'[c] = cache[c]
  <1>1. cache \in [Commits -> [Files -> Contents]] /\ Cached
    BY DEF IInv, TypeInv
  <1>2. CASE UNCHANGED cache
    BY <1>1, <1>2 DEF Cached
  <1>3. ASSUME NEW file \in Files, NEW artifact \in Artifacts, Replaces(o, file, artifact)
        PROVE  /\ cache' \in [Commits -> [Files -> Contents]] /\ Cached'
               /\ \A c \in Commits, f \in Files :
                     cache[c][f] # Absent => cache'[c][f] # Absent
               /\ \A c \in Commits : c = op[o].commit \/ cache'[c] = cache[c]
    <2>1. \A c \in Commits, f \in Files :
             cache'[c][f] = IF c = op[o].commit /\ f = file THEN artifact ELSE cache[c][f]
      BY <1>1, <1>3 DEF Replaces
    <2>2. cache' \in [Commits -> [Files -> Contents]]
            /\ \A c \in Commits : c = op[o].commit \/ cache'[c] = cache[c]
      BY <1>1, <1>3 DEF Replaces, Contents
    <2>3. artifact # Absent /\ artifact.commit = op[o].commit
      BY <1>3, Constants DEF Replaces
    <2> QED BY <1>1, <2>1, <2>2, <2>3 DEF Cached
  <1> QED BY <1>2, <1>3 DEF Rewrites

LEMMA OthersAlike ==
  ASSUME IInv, NEW o \in Operations, Rewrites(o), NEW p \in Operations, p # o
  PROVE  /\ op'[p] \in OpRecord /\ Alike(op[p], op'[p])
         /\ ~ op'[p].disturbed /\ op[p].commit \in Commits =>
               cache'[op[p].commit] = cache[op[p].commit]
  <1>1. op[p] \in OpRecord
    BY DEF IInv, TypeInv
  <1>2. CASE UNCHANGED cache /\ op'[p] = op[p]
    BY <1>1, <1>2 DEF Alike
  <1>3. CASE op'[p] = Disturbed(o)[p]
    <2>1. CASE op[p].commit = op[o].commit
      <3> DEFINE r == [op[p] EXCEPT !.disturbed = TRUE]
      <3>1. op'[p] = r
        BY <1>3, <2>1 DEF Disturbed
      <3>2. r \in OpRecord /\ Alike(op[p], r) /\ r.disturbed
        BY <1>1 DEF OpRecord, Alike
      <3> QED BY <3>1, <3>2
    <2>2. CASE op[p].commit # op[o].commit
      <3>1. op'[p] = op[p]
        BY <1>3, <2>2 DEF Disturbed
      <3> QED BY <1>1, <2>2, <3>1, CacheRewritten DEF Alike
    <2> QED BY <2>1, <2>2
  <1> QED BY <1>2, <1>3 DEF Rewrites, Replaces

\* The others keep what they hold.
LEMMA OthersKeep ==
  ASSUME IInv, NEW o \in Operations, Rewrites(o), NEW p \in Operations, p # o
  PROVE  /\ Follows(op'[p]) /\ Kept(op[p])'
         /\ ~ op'[p].disturbed => Undisturbed(op[p])'
         /\ server'[p].stage = server[p].stage /\ server'[p].index = server[p].index =>
               Serves(op[p], server[p])'
  <1>1. /\ Follows(op[p]) /\ Kept(op[p]) /\ Serves(op[p], server[p])
        /\ ~ op[p].disturbed => Undisturbed(op[p])
        /\ op[p] \in OpRecord
    BY DEF IInv, TypeInv, EachOperation
  <1>2. /\ op'[p] \in OpRecord /\ Alike(op[p], op'[p])
        /\ ~ op'[p].disturbed /\ op[p].commit \in Commits =>
              cache'[op[p].commit] = cache[op[p].commit]
    BY OthersAlike
  <1>3. \A c \in Commits, file \in Files :
           cache[c][file] # Absent => cache'[c][file] # Absent
    BY CacheRewritten
  <1>4. /\ op[p].stage \in Looking => op[p].commit \in Commits
        /\ op[p].stage \in {"load", "done"} /\ op[p].commit # LocalIndex =>
              op[p].commit \in Commits
    BY <1>1 DEF Follows, Chosen
  <1>5. Follows(op'[p])
    BY <1>1, <1>2 DEF Follows, Chosen, Alike
  <1>6. Kept(op[p])'
    BY <1>1, <1>2, <1>3, <1>4 DEF Kept, Alike, Looking, Files
  <1>7. ASSUME ~ op'[p].disturbed PROVE Undisturbed(op[p])'
    BY <1>1, <1>2, <1>4, <1>7 DEF Undisturbed, Alike, Looking, verifyRoslynIndex
  <1>8. ASSUME server'[p].stage = server[p].stage, server'[p].index = server[p].index
        PROVE  Serves(op[p], server[p])'
    BY <1>1, <1>2, <1>4, <1>8 DEF Serves, Alike
  <1> QED BY <1>5, <1>6, <1>7, <1>8

-----------------------------------------------------------------------------
(***************************************************************************)
(* A resolution that goes on, starts its server or fails                    *)
(***************************************************************************)
\* o becomes r, and nothing has been said to any server.
Proceeds(o, r) ==
    /\ r.stage \in Looking \cup {"over"} /\ UNCHANGED <<client, server>>
    /\ r.stage = "over" \/ r.window = op[o].window

\* o becomes r, which has its server.
StartsServer(o, r) ==
    /\ r.stage = "load" /\ r.window = op[o].window
    /\ client' = [client EXCEPT ![op[o].window] = o]
    /\ server' = [server EXCEPT ![o].stage = "starting"]

Resolving == Looking \cup {"resolve"}

LEMMA BegunBefore ==
  ASSUME IInv,
         \A p \in Operations : op'[p].stage = "unused" => op[p].stage = "unused",
         \A p \in Operations : op'[p].stage = "stopping" =>
            op[p].stage = "stopping" /\ op'[p].stopping = op[p].stopping,
         \A w \in Windows :
            \/ client'[w] = client[w] \/ client'[w] = NoClient
            \/ client'[w] \in Operations /\ ~ At(client'[w], "unused")
  PROVE  Begun'
  <1>1. ASSUME NEW w \in Windows, client'[w] # NoClient
        PROVE  op'[client'[w]].stage # "unused"
    <2>1. client'[w] \in Operations /\ op[client'[w]].stage # "unused"
      BY <1>1 DEF IInv, TypeInv, Begun, At
    <2> QED BY <2>1
  <1>2. ASSUME NEW o \in Operations, op'[o].stage = "stopping"
        PROVE  op'[op'[o].stopping].stage # "unused"
    <2>1. /\ op'[o].stopping = op[o].stopping /\ op[o].stage = "stopping"
          /\ op[o].stopping \in Operations /\ op[op[o].stopping].stage # "unused"
      BY <1>2 DEF IInv, EachOperation, Follows, Begun, At
    <2> QED BY <2>1
  <1> QED BY <1>1, <1>2 DEF Begun, At

LEMMA OneBecomes ==
  ASSUME IInv, NEW o \in Operations, Rewrites(o), op[o].stage \in Resolving,
         op' \in [Operations -> OpRecord], NEW r \in OpRecord, op'[o] = r,
         Proceeds(o, r) \/ StartsServer(o, r)
  PROVE  /\ \A p \in Operations : p # o =>
               op'[p].stage = op[p].stage /\ op'[p].window = op[p].window
         /\ client' \in [Windows -> Operations \cup {NoClient}]
         /\ server' \in [Operations -> ServerRecord]
         /\ \A p \in Operations : p # o => server'[p] = server[p]
         /\ op[o].window \in Windows
  <1>1. /\ client \in [Windows -> Operations \cup {NoClient}]
        /\ server \in [Operations -> ServerRecord] /\ op[o] \in OpRecord
        /\ Follows(op[o])
    BY DEF IInv, TypeInv, EachOperation
  <1>2. op[o].window \in Windows
    BY <1>1 DEF OpRecord, Follows, Resolving, Looking
  <1>3. \A p \in Operations : p # o => op'[p] \in OpRecord /\ Alike(op[p], op'[p])
    BY OthersAlike
  <1>4. /\ client' \in [Windows -> Operations \cup {NoClient}]
        /\ \A p \in Operations : p # o => server'[p] = server[p]
    BY <1>1, <1>2 DEF Proceeds, StartsServer
  <1>5. server' \in [Operations -> ServerRecord]
    BY <1>1 DEF Proceeds, StartsServer, ServerRecord, Up
  <1> QED BY <1>2, <1>3, <1>4, <1>5 DEF Alike

LEMMA ResolvesInTurn ==
  ASSUME IInv, NEW o \in Operations, Rewrites(o), op[o].stage \in Resolving,
         op' \in [Operations -> OpRecord], NEW r \in OpRecord, op'[o] = r, Follows(r),
         Proceeds(o, r) \/ StartsServer(o, r), UNCHANGED overlapped
  PROVE  InTurn'
  <1> DEFINE w == op[o].window
  <1>1. /\ \A p \in Operations : p # o =>
              /\ op'[p].stage = op[p].stage /\ op'[p].window = op[p].window
              /\ server'[p] = server[p]
        /\ w \in Windows /\ client \in [Windows -> Operations \cup {NoClient}]
        /\ NoClient \notin Operations
    BY OneBecomes, Constants DEF IInv, TypeInv
  <1>2. /\ op[o].stage # "load" /\ Active(o) /\ ~ (server[o].stage \in Up)
    BY DEF Resolving, Looking, Ended, Active, IInv, EachOperation, Serves, Up
  <1>3. w \notin overlapped =>
           /\ client[w] = NoClient
           /\ \A p \in Operations : op[p].window = w => ~ (server[p].stage \in Up)
           /\ \A p \in Operations : op[p].window = w /\ Active(p) => p = o
    BY <1>1, <1>2 DEF IInv, InTurn, At
  <1>4. r.window = w \/ (r.stage = "over" /\ r.window = Absent)
    BY DEF Proceeds, StartsServer, Follows
  <1>5. \A v \in Windows : v # w => client'[v] = client[v]
    BY <1>1 DEF Proceeds, StartsServer
  <1> SUFFICES ASSUME NEW p \in Operations, op'[p].window \notin overlapped
               PROVE  /\ Active(p)' =>
                            /\ client'[op'[p].window] =
                                  IF op'[p].stage = "load" THEN p ELSE NoClient
                            /\ \A q \in Operations :
                                  op'[q].window = op'[p].window /\ Active(q)' => q = p
                      /\ server'[p].stage \in Up => client'[op'[p].window] = p
    BY DEF InTurn, At
  <1>6. CASE p = o
    <2>1. CASE Proceeds(o, r)
      <3>1. client' = client /\ server' = server /\ r.stage # "load"
        BY <2>1 DEF Proceeds, Looking
      <3>2. CASE r.stage = "over"
        BY <1>2, <1>6, <3>1, <3>2 DEF Active, Ended
      <3>3. CASE r.stage # "over"
        <4>1. r.window = w
          BY <1>4, <3>3
        <4> QED BY <1>1, <1>2, <1>3, <1>6, <3>1, <4>1 DEF Active
      <3> QED BY <3>2, <3>3
    <2>2. CASE StartsServer(o, r)
      <3>1. r.window = w /\ r.stage = "load" /\ client'[w] = o
        BY <1>1, <2>2 DEF StartsServer
      <3> QED BY <1>1, <1>3, <1>6, <3>1 DEF Active
    <2> QED BY <2>1, <2>2
  <1>7. CASE p # o
    <2>1. /\ op'[p].stage = op[p].stage /\ op'[p].window = op[p].window
          /\ server'[p] = server[p] /\ op[p].window \notin overlapped
      BY <1>1, <1>7
    <2>2. /\ Active(p) =>
                /\ client[op[p].window] = IF op[p].stage = "load" THEN p ELSE NoClient
                /\ \A q \in Operations :
                      op[q].window = op[p].window /\ Active(q) => q = p
          /\ server[p].stage \in Up => client[op[p].window] = p
      BY <2>1 DEF IInv, InTurn, At
    <2>3. Active(p) \/ server[p].stage \in Up => op[p].window # w
      BY <1>2, <1>3, <1>7, <2>1
    <2>4. Active(p) \/ server[p].stage \in Up => op[p].window \in Windows
      <3>1. Follows(op[p]) /\ Serves(op[p], server[p]) /\ op[p] \in OpRecord
        BY DEF IInv, TypeInv, EachOperation
      <3> QED BY <3>1 DEF Follows, Serves, Active, Ended, Up, OpRecord
    <2>5. ASSUME Active(p), NEW q \in Operations,
                 op'[q].window = op[p].window, op'[q].stage \notin Ended
          PROVE  q = p
      <3>1. q # o
        BY <1>1, <1>4, <2>3, <2>4, <2>5, Constants
      <3> QED BY <1>1, <2>2, <2>5, <3>1 DEF Active
    <2> QED BY <1>5, <2>1, <2>2, <2>3, <2>4, <2>5 DEF Active
  <1> QED BY <1>6, <1>7

LEMMA Resolves ==
  ASSUME IInv, NEW o \in Operations, Rewrites(o), op[o].stage \in Resolving,
         op' \in [Operations -> OpRecord], NEW r \in OpRecord, op'[o] = r,
         Follows(r), Kept(r)', ~ r.disturbed => Undisturbed(r)',
         Proceeds(o, r) \/ StartsServer(o, r),
         UNCHANGED <<github, setting, open, overlapped>>,
         budget' \in [commands : 0..MaxCommands, notices : Nat, faults : Nat],
         budget'.commands = budget.commands, budget'.notices = budget.notices
  PROVE  IInv'
  <1>1. /\ \A p \in Operations : p # o =>
              /\ op'[p].stage = op[p].stage /\ op'[p].window = op[p].window
              /\ server'[p] = server[p]
        /\ client' \in [Windows -> Operations \cup {NoClient}]
        /\ server' \in [Operations -> ServerRecord]
        /\ op[o].window \in Windows
    BY OneBecomes
  <1>2. cache' \in [Commits -> [Files -> Contents]] /\ Cached'
    BY CacheRewritten
  <1>3. TypeInv'
    BY <1>1, <1>2 DEF IInv, TypeInv
  <1>4. Numbered'
    BY <1>1 DEF IInv, Numbered, At, Resolving, Looking, Proceeds, StartsServer
  <1>5. /\ server[o].stage \notin Up
        /\ server'[o].stage = (IF r.stage = "load" THEN "starting" ELSE server[o].stage)
    <2>1. server[o].stage \notin Up
      BY DEF Resolving, Looking, IInv, EachOperation, Serves, Up
    <2>2. CASE Proceeds(o, r)
      BY <2>1, <2>2 DEF Proceeds, Looking
    <2>3. CASE StartsServer(o, r)
      <3>1. r.stage = "load" /\ server' = [server EXCEPT ![o].stage = "starting"]
        BY <2>3 DEF StartsServer
      <3>2. server \in [Operations -> ServerRecord]
        BY DEF IInv, TypeInv
      <3> QED BY <2>1, <3>1, <3>2 DEF ServerRecord
    <2> QED BY <2>1, <2>2, <2>3
  <1>6. EachOperation'
    <2> SUFFICES ASSUME NEW p \in Operations
                 PROVE  /\ Follows(op'[p]) /\ Kept(op[p])' /\ Serves(op[p], server[p])'
                        /\ ~ op'[p].disturbed => Undisturbed(op[p])'
      BY DEF EachOperation
    <2>1. CASE p = o
      <3>1. Serves(op[p], server[p])'
        BY <1>5, <2>1 DEF Serves, Proceeds, StartsServer, Looking, Up
      <3> QED BY <2>1, <3>1
    <2>2. CASE p # o
      BY <1>1, <2>2, OthersKeep
    <2> QED BY <2>1, <2>2
  <1>7. EachDocument'
    <2>1. \A p \in Operations : /\ server'[p].document = server[p].document
                                /\ server'[p].requests = server[p].requests
                                /\ server'[p].shown = server[p].shown
      <3>1. server \in [Operations -> ServerRecord]
        BY DEF IInv, TypeInv
      <3> QED BY <3>1 DEF Proceeds, StartsServer, ServerRecord
    <2> QED BY <2>1 DEF IInv, EachDocument, Documented
  <1>8. Shut'
    <2> SUFFICES ASSUME NEW w \in Windows \ open
                 PROVE  w \notin overlapped /\ client'[w] = NoClient /\ Of(w)' = {}
      BY DEF Shut
    <2>1. w \notin overlapped /\ client[w] = NoClient
            /\ \A p \in Operations : op[p].window # w
      BY DEF IInv, Shut, Of
    <2>2. client'[w] = client[w]
      BY <2>1 DEF IInv, TypeInv, Proceeds, StartsServer
    <2>3. r.window # w
      BY <2>1, Constants DEF Proceeds, StartsServer, Follows
    <2>4. \A p \in Operations : op'[p].window # w
      BY <1>1, <2>1, <2>3
    <2> QED BY <2>1, <2>2, <2>4 DEF Of
  <1>9. Begun'
    <2>1. \A p \in Operations : p # o => op'[p].stopping = op[p].stopping
      BY OthersAlike DEF Alike
    <2>2. r.stage \notin {"unused", "stopping"} /\ ~ At(o, "unused")
      BY DEF Proceeds, StartsServer, Looking, Resolving, At
    <2>3. \A w \in Windows : client'[w] \in {client[w], o}
      BY <1>1 DEF IInv, TypeInv, Proceeds, StartsServer
    <2> QED BY <1>1, <2>1, <2>2, <2>3, BegunBefore DEF At
  <1> QED BY <1>2, <1>3, <1>4, <1>6, <1>7, <1>8, <1>9, ResolvesInTurn DEF IInv

-----------------------------------------------------------------------------
(***************************************************************************)
(* The steps of a resolution                                                *)
(***************************************************************************)
Becomes(o, r) == op' = [op EXCEPT ![o] = r]

Bounded ==
    /\ budget' \in [commands : 0..MaxCommands, notices : Nat, faults : Nat]
    /\ budget'.commands = budget.commands /\ budget'.notices = budget.notices

LEMMA BudgetLeft ==
  ASSUME IInv, UNCHANGED budget \/ Spend("faults")
  PROVE  Bounded
  BY SpendFault DEF IInv, TypeInv, Bounded

LEMMA GoesOn ==
  ASSUME IInv, NEW o \in Operations, op[o].stage \in Resolving, NEW r \in OpRecord,
         Becomes(o, r), UNCHANGED <<github, cache, windows, server>>, Bounded,
         r.stage \in Looking \cup {"over"}, r.stage = "over" \/ r.window = op[o].window,
         Follows(r), Kept(r), ~ r.disturbed => Undisturbed(r)
  PROVE  IInv'
  <1>1. op \in [Operations -> OpRecord]
    BY DEF IInv, TypeInv
  <1>2. /\ op' \in [Operations -> OpRecord] /\ op'[o] = r
        /\ \A p \in Operations \ {o} : op'[p] = op[p]
    BY <1>1 DEF Becomes
  <1>3. Rewrites(o) /\ Proceeds(o, r)
    BY <1>2 DEF Rewrites, Proceeds, windows
  <1>4. Kept(r)' /\ (~ r.disturbed => Undisturbed(r)')
    BY DEF Kept, Undisturbed
  <1>5. UNCHANGED <<github, setting, open, overlapped>>
    BY DEF windows
  <1> QED BY <1>2, <1>3, <1>4, <1>5, Resolves DEF Bounded

LEMMA Failing ==
  ASSUME IInv, NEW o \in Operations, op[o].stage \in Resolving, Fails(o),
         UNCHANGED <<github, cache, windows, server>>, Bounded
  PROVE  IInv'
  BY GoesOn, NewRecords, OverHolds DEF Becomes, Fails

LEMMA StartsAlone ==
  ASSUME IInv, NEW o \in Operations, op[o].stage \in Resolving,
         NEW commit \in Commits \cup {LocalIndex}, Starts(o, op, commit),
         UNCHANGED <<github, cache, budget>>,
         commit # LocalIndex =>
            /\ commit = op[o].commit /\ Chosen(op[o]) /\ cache[commit]["index"] # Absent
            /\ ~ op[o].disturbed =>
                  verifyRoslynIndex(cache[commit]["index"], cache[commit]["manifest"],
                                    commit)
  PROVE  IInv'
  <1>1. op \in [Operations -> OpRecord] /\ op[o] \in OpRecord /\ Follows(op[o])
    BY DEF IInv, TypeInv, EachOperation
  <1>2. PICK r \in OpRecord :
          /\ r.stage = "load" /\ r.window = op[o].window
          /\ r.commit = commit /\ r.wanted = op[o].wanted /\ r.exact = op[o].exact
          /\ r.disturbed = op[o].disturbed
          /\ op' = [op EXCEPT ![o] = r]
    <2> DEFINE r == [Forgotten(o, "load") EXCEPT !.commit = commit]
    <2>1. /\ r \in OpRecord /\ r.stage = "load" /\ r.window = op[o].window
          /\ r.commit = commit /\ r.wanted = op[o].wanted /\ r.exact = op[o].exact
          /\ r.disturbed = op[o].disturbed
      BY <1>1 DEF Forgotten, OpRecord, Stages, NothingRead, Contents
    <2>2. op' = [op EXCEPT ![o] = r]
      BY DEF Starts
    <2> HIDE DEF r
    <2> QED BY <2>1, <2>2
  <1>3. /\ UNCHANGED <<setting, open, overlapped>>
        /\ client' = [client EXCEPT ![op[o].window] = o]
        /\ server' = [server EXCEPT ![o].stage = "starting"]
    BY DEF Starts
  <1>4. /\ op' \in [Operations -> OpRecord] /\ op'[o] = r
        /\ \A p \in Operations \ {o} : op'[p] = op[p]
    BY <1>1, <1>2
  <1>5. Rewrites(o) /\ StartsServer(o, r)
    BY <1>2, <1>3, <1>4 DEF Rewrites, StartsServer
  <1>6. Follows(r)
    BY <1>1, <1>2 DEF Follows, Chosen, Resolving, Looking
  <1>7. Kept(r)' /\ (~ r.disturbed => Undisturbed(r)')
    BY <1>2 DEF Kept, Undisturbed, verifyRoslynIndex
  <1>8. Bounded
    BY BudgetLeft
  <1> QED BY <1>2, <1>3, <1>4, <1>5, <1>6, <1>7, <1>8, Resolves DEF Bounded

LEMMA ReadSettingsStep ==
  ASSUME IInv, NEW o \in Operations, ReadSettings(o)
  PROVE  IInv'
  <1> DEFINE configured == setting[op[o].window].commit
             wanted == IF configured = Automatic THEN CheckedOut[op[o].window]
                       ELSE configured
             r == [op[o] EXCEPT !.stage = "check", !.wanted = wanted, !.commit = wanted,
                                !.exact = configured # Automatic]
  <1>1. /\ op[o] \in OpRecord /\ Follows(op[o]) /\ op[o].stage = "resolve"
        /\ op[o].window \in Windows /\ wanted \in Commits
        /\ op[o].seen = NothingRead /\ op[o].artifact = Absent
    <2>1. op[o] \in OpRecord /\ Follows(op[o]) /\ op[o].stage = "resolve"
      BY DEF IInv, TypeInv, EachOperation, ReadSettings, At
    <2>2. /\ op[o].window \in Windows
          /\ op[o].seen = NothingRead /\ op[o].artifact = Absent
      BY <2>1 DEF Follows, OpRecord
    <2>3. setting[op[o].window].commit \in Commits \cup {Automatic}
      BY <2>2 DEF IInv, TypeInv
    <2> QED BY <2>1, <2>2, <2>3, Constants
  <1>2. CASE setting[op[o].window].local
    <2>1. Starts(o, op, LocalIndex) /\ UNCHANGED <<github, cache, budget>>
      BY <1>2 DEF ReadSettings
    <2> QED BY <1>1, <2>1, StartsAlone DEF Resolving
  <1>3. CASE ~ setting[op[o].window].local
    <2>1. Becomes(o, r) /\ UNCHANGED <<github, cache, windows, server, budget>>
      BY <1>3 DEF ReadSettings, Becomes
    <2> HIDE DEF wanted
    <2>2. /\ r \in OpRecord /\ r.stage = "check" /\ r.window = op[o].window
          /\ r.wanted = wanted /\ r.commit = wanted /\ r.seen = NothingRead
          /\ r.artifact = Absent
      <3>1. "check" \in Stages /\ (configured # Automatic) \in BOOLEAN
        BY DEF Stages, Looking
      <3> HIDE DEF configured
      <3>2. r \in OpRecord
        BY <1>1, <3>1 DEF OpRecord
      <3> QED BY <1>1, <3>2 DEF OpRecord
    <2> HIDE DEF r
    <2>3. Follows(r)
      BY <1>1, <2>2, OwnHistory, Constants DEF Follows, Chosen
    <2>4. Kept(r) /\ Undisturbed(r)
      BY <2>2 DEF Kept, Undisturbed, NothingRead
    <2>5. Bounded
      BY <2>1, BudgetLeft
    <2> QED BY <1>1, <2>1, <2>2, <2>3, <2>4, <2>5, GoesOn DEF Resolving, Looking
  <1> QED BY <1>2, <1>3

LEMMA ReadCachedStep ==
  ASSUME IInv, NEW o \in Operations, NEW file \in Files, ReadCached(o, file)
  PROVE  IInv'
  <1> DEFINE read  == [op[o].seen EXCEPT ![file] = cache[op[o].commit][file]]
             whole == Unread \notin {read[f] : f \in Files}
             stage == IF ~ whole THEN "check"
                      ELSE IF op[o].artifact = Absent THEN "find" ELSE "download"
             r == [op[o] EXCEPT !.seen = IF whole THEN NothingRead ELSE read,
                                !.stage = stage]
  <1>1. /\ op[o] \in OpRecord /\ Follows(op[o]) /\ op[o].stage = "check"
        /\ Kept(op[o])
        /\ ~ op[o].disturbed => Undisturbed(op[o])
        /\ op[o].commit \in Commits /\ cache \in [Commits -> [Files -> Contents]]
        /\ Chosen(op[o])
    BY DEF IInv, TypeInv, EachOperation, ReadCached, At, Follows, Looking, Chosen
  <1>2. /\ read \in [Files -> Contents \cup {Unread}]
        /\ \A f \in Files :
              read[f] = IF f = file THEN cache[op[o].commit][file] ELSE op[o].seen[f]
    BY <1>1 DEF OpRecord
  <1>3. \A f \in Files : read[f] \notin {Unread, Absent} => cache[op[o].commit][f] # Absent
    BY <1>1, <1>2 DEF Kept
  <1>4. ~ op[o].disturbed =>
           \A f \in Files : read[f] # Unread => read[f] = cache[op[o].commit][f]
    BY <1>1, <1>2 DEF Undisturbed
  <1>5. CASE whole /\ verifyRoslynIndex(read["index"], read["manifest"], op[o].commit)
    <2>1. Starts(o, op, op[o].commit) /\ UNCHANGED <<github, cache, budget>>
      BY <1>5 DEF ReadCached
    <2> HIDE DEF read
    <2>2. cache[op[o].commit]["index"] # Absent
            /\ (~ op[o].disturbed =>
                  verifyRoslynIndex(cache[op[o].commit]["index"],
                                    cache[op[o].commit]["manifest"], op[o].commit))
      BY <1>3, <1>4, <1>5 DEF Files, verifyRoslynIndex
    <2> QED BY <1>1, <2>1, <2>2, StartsAlone DEF Resolving, Looking
  <1>6. CASE ~ (whole /\ verifyRoslynIndex(read["index"], read["manifest"], op[o].commit))
    <2>1. Becomes(o, r) /\ UNCHANGED <<github, cache, windows, server, budget>>
      BY <1>6 DEF ReadCached, Becomes
    <2>2. /\ r \in OpRecord /\ r.stage = stage /\ r.window = op[o].window
          /\ r.wanted = op[o].wanted /\ r.commit = op[o].commit
          /\ r.artifact = op[o].artifact /\ r.exact = op[o].exact
          /\ r.disturbed = op[o].disturbed
          /\ r.seen = IF whole THEN NothingRead ELSE read
      <3>1. NothingRead \in [Files -> Contents \cup {Unread}] /\ stage \in Stages
        BY DEF NothingRead, Stages, Looking
      <3> HIDE DEF read, whole, stage
      <3> QED BY <1>1, <1>2, <3>1 DEF OpRecord
    <2> HIDE DEF r, read
    <2>3. Follows(r)
      <3>1. op[o].artifact \in Contents /\ op[o].window # Absent
        BY <1>1 DEF OpRecord, Follows
      <3> QED BY <1>1, <2>2, <3>1 DEF Follows, Chosen, Contents
    <2>4. Kept(r) /\ (~ r.disturbed => Undisturbed(r))
      BY <1>3, <1>4, <2>2 DEF Kept, Undisturbed
    <2>5. Bounded
      BY <2>1, BudgetLeft
    <2> QED BY <1>1, <2>1, <2>2, <2>3, <2>4, <2>5, GoesOn DEF Resolving, Looking
  <1> QED BY <1>5, <1>6

LEMMA FindExactStep ==
  ASSUME IInv, NEW o \in Operations, FindExact(o)
  PROVE  IInv'
  <1> DEFINE artifact == findRoslynArtifact(github, op[o].wanted)
  <1>1. /\ op[o] \in OpRecord /\ Follows(op[o]) /\ op[o].stage = "find" /\ Chosen(op[o])
        /\ TypeInv /\ UNCHANGED <<github, cache, windows, server, budget>>
    BY DEF IInv, TypeInv, EachOperation, FindExact, At, Follows, Looking
  <1>2. Bounded
    BY <1>1, BudgetLeft
  <1>3. CASE artifact # Absent /\ op' = [op EXCEPT ![o].stage = "download",
                                                   ![o].artifact = artifact]
    <2> DEFINE r == [op[o] EXCEPT !.stage = "download", !.artifact = artifact]
    <2>1. artifact \in Artifacts /\ artifact.commit = op[o].commit
      BY <1>1, <1>3, ArtifactOfCommit DEF Follows, Chosen
    <2> HIDE DEF artifact
    <2>2. Becomes(o, r)
      BY <1>3 DEF Becomes
    <2>3. /\ r \in OpRecord /\ r.stage = "download" /\ r.window = op[o].window
          /\ r.wanted = op[o].wanted /\ r.commit = op[o].commit /\ r.exact = op[o].exact
          /\ r.artifact = artifact
      BY <1>1, <2>1 DEF OpRecord, Stages, Looking, Contents
    <2> HIDE DEF r
    <2>4. Follows(r)
      BY <1>1, <2>1, <2>3 DEF Follows, Chosen
    <2>5. Kept(r) /\ Undisturbed(r)
      BY <2>3 DEF Kept, Undisturbed
    <2> QED BY <1>1, <1>2, <2>2, <2>3, <2>4, <2>5, GoesOn DEF Resolving, Looking
  <1>4. CASE Fails(o)
    BY <1>1, <1>2, <1>4, Failing DEF Resolving, Looking
  <1>5. CASE ~ op[o].exact /\ op' = [op EXCEPT ![o].stage = "latest"]
    <2> DEFINE r == [op[o] EXCEPT !.stage = "latest"]
    <2>2. Becomes(o, r)
      BY <1>5 DEF Becomes
    <2>3. /\ r \in OpRecord /\ r.stage = "latest" /\ r.window = op[o].window
          /\ r.wanted = op[o].wanted /\ r.commit = op[o].commit /\ r.exact = op[o].exact
          /\ r.artifact = op[o].artifact /\ r.seen = op[o].seen
      BY <1>1 DEF OpRecord, Stages, Looking
    <2> HIDE DEF r
    <2>4. Follows(r)
      BY <1>1, <1>5, <2>3 DEF Follows, Chosen
    <2>5. Kept(r) /\ Undisturbed(r)
      BY <2>3 DEF Kept, Undisturbed
    <2> QED BY <1>1, <1>2, <2>2, <2>3, <2>4, <2>5, GoesOn DEF Resolving, Looking
  <1> QED BY <1>3, <1>4, <1>5 DEF FindExact

LEMMA FindLatestStep ==
  ASSUME IInv, NEW o \in Operations, FindLatest(o)
  PROVE  IInv'
  <1> DEFINE artifact == findLatestRoslynArtifact(github, op[o].wanted)
             stage == IF artifact.commit = op[o].wanted THEN "download" ELSE "check"
             r == [op[o] EXCEPT !.artifact = artifact, !.commit = artifact.commit,
                                !.stage = stage]
  <1>1. /\ op[o] \in OpRecord /\ Follows(op[o]) /\ op[o].stage = "latest" /\ Chosen(op[o])
        /\ TypeInv /\ UNCHANGED <<github, cache, windows, server, budget>>
    BY DEF IInv, TypeInv, EachOperation, FindLatest, At, Follows, Looking
  <1>2. Bounded
    BY <1>1, BudgetLeft
  <1>3. CASE artifact = Absent
    <2>1. Fails(o)
      BY <1>3 DEF FindLatest
    <2> QED BY <1>1, <1>2, <2>1, Failing DEF Resolving, Looking
  <1>4. CASE artifact # Absent
    <2>1. Becomes(o, r)
      BY <1>4 DEF FindLatest, Becomes
    <2>2. /\ artifact \in Artifacts /\ artifact.commit \in Commits
          /\ artifact.commit \in Range(History[op[o].wanted])
      BY <1>1, <1>4, ArtifactInHistory DEF Chosen
    <2> HIDE DEF artifact
    <2>3. /\ r \in OpRecord /\ r.stage \in {"download", "check"} /\ r.window = op[o].window
          /\ r.wanted = op[o].wanted /\ r.commit = artifact.commit
          /\ r.exact = op[o].exact /\ r.artifact = artifact /\ r.seen = op[o].seen
      <3>1. stage \in {"download", "check"} /\ stage \in Stages
        BY DEF Stages, Looking
      <3> HIDE DEF stage
      <3>2. /\ r.stage = stage /\ r.window = op[o].window /\ r.wanted = op[o].wanted
            /\ r.commit = artifact.commit /\ r.exact = op[o].exact
            /\ r.artifact = artifact /\ r.seen = op[o].seen
        BY <1>1 DEF OpRecord
      <3>3. artifact \in Contents /\ artifact.commit \in Commits \cup {Absent, LocalIndex}
        BY <2>2 DEF Contents
      <3>4. r \in OpRecord
        BY <1>1, <3>1, <3>3 DEF OpRecord
      <3> QED BY <3>1, <3>2, <3>4
    <2> HIDE DEF r
    <2>4. Follows(r)
      BY <1>1, <2>2, <2>3, Constants DEF Follows, Chosen
    <2>5. Kept(r) /\ Undisturbed(r)
      BY <1>1, <2>3 DEF Kept, Undisturbed, Follows, NothingRead
    <2> QED BY <1>1, <1>2, <2>1, <2>3, <2>4, <2>5, GoesOn DEF Resolving, Looking
  <1> QED BY <1>3, <1>4

LEMMA ResolutionFailsStep ==
  ASSUME IInv, NEW o \in Operations, ResolutionFails(o)
  PROVE  IInv'
  <1>1. /\ op[o].stage \in Resolving /\ Fails(o) /\ Spend("faults")
        /\ UNCHANGED <<github, cache, windows, server>>
    BY DEF ResolutionFails, Resolving, Looking
  <1> QED BY <1>1, BudgetLeft, Failing

LEMMA DownloadStep ==
  ASSUME IInv, NEW o \in Operations, Download(o)
  PROVE  IInv'
  <1>1. /\ op[o] \in OpRecord /\ Follows(op[o]) /\ op[o].stage = "download"
        /\ op[o].artifact \in Artifacts /\ op[o].artifact.commit = op[o].commit
        /\ UNCHANGED <<github, cache, windows, server>>
    BY DEF IInv, TypeInv, EachOperation, Download, At, Follows
  <1>2. PICK received \in {op[o].artifact, Damaged} :
          /\ IF received = Damaged THEN Spend("faults") ELSE UNCHANGED budget
          /\ IF verifyRoslynIndex(received, op[o].artifact, op[o].commit)
               THEN op' = [op EXCEPT ![o].stage = "renameIndex", ![o].received = received]
               ELSE Fails(o)
    BY DEF Download
  <1>3. Bounded
    BY <1>2, BudgetLeft
  <1>4. CASE verifyRoslynIndex(received, op[o].artifact, op[o].commit)
    <2> DEFINE r == [op[o] EXCEPT !.stage = "renameIndex", !.received = received]
    <2>1. received = op[o].artifact
      BY <1>4 DEF verifyRoslynIndex
    <2>2. Becomes(o, r)
      BY <1>2, <1>4 DEF Becomes
    <2>3. /\ r \in OpRecord /\ r.stage = "renameIndex" /\ r.window = op[o].window
          /\ r.wanted = op[o].wanted /\ r.commit = op[o].commit /\ r.exact = op[o].exact
          /\ r.artifact = op[o].artifact /\ r.received = r.artifact
      BY <1>1, <2>1 DEF OpRecord, Stages, Looking, Contents
    <2> HIDE DEF r
    <2>4. Follows(r)
      BY <1>1, <2>3 DEF Follows, Chosen, Looking
    <2>5. Kept(r) /\ Undisturbed(r)
      BY <2>3 DEF Kept, Undisturbed
    <2> QED BY <1>1, <1>3, <2>2, <2>3, <2>4, <2>5, GoesOn DEF Resolving, Looking
  <1>5. CASE ~ verifyRoslynIndex(received, op[o].artifact, op[o].commit)
    BY <1>1, <1>2, <1>3, <1>5, Failing DEF Resolving, Looking
  <1> QED BY <1>4, <1>5

\* What is renamed is an artifact of the operation's commit.
LEMMA Renaming ==
  ASSUME IInv, NEW o \in Operations, op[o].stage \in {"renameIndex", "renameManifest"}
  PROVE  /\ op[o] \in OpRecord /\ Follows(op[o]) /\ Chosen(op[o])
         /\ op[o].artifact \in Artifacts /\ op[o].received = op[o].artifact
         /\ op[o].artifact.commit = op[o].commit /\ op[o].commit \in Commits
         /\ op[o].artifact # Absent /\ Disturbed(o) \in [Operations -> OpRecord]
         /\ Disturbed(o)[o] = op[o]
         /\ cache \in [Commits -> [Files -> Contents]]
  <1>1. /\ op \in [Operations -> OpRecord] /\ Follows(op[o])
        /\ cache \in [Commits -> [Files -> Contents]]
    BY DEF IInv, TypeInv, EachOperation
  <1>2. ASSUME NEW p \in Operations
        PROVE  [op[p] EXCEPT !.disturbed = TRUE] \in OpRecord
    BY <1>1 DEF OpRecord
  <1>3. Disturbed(o) \in [Operations -> OpRecord] /\ Disturbed(o)[o] = op[o]
    BY <1>1, <1>2 DEF Disturbed
  <1> QED BY <1>1, <1>3, Constants DEF Follows, Chosen, Looking

LEMMA RenameIndexStep ==
  ASSUME IInv, NEW o \in Operations, RenameIndex(o)
  PROVE  IInv'
  <1>1. op[o].stage = "renameIndex" /\ UNCHANGED <<github, windows, server, budget>>
    BY DEF RenameIndex, At
  <1>2. PICK r \in OpRecord :
          /\ r.stage = "renameManifest" /\ r.window = op[o].window
          /\ r.wanted = op[o].wanted /\ r.commit = op[o].commit /\ r.exact = op[o].exact
          /\ r.artifact = op[o].artifact /\ r.received = op[o].received
          /\ op' = [Disturbed(o) EXCEPT ![o] = r]
    <2> DEFINE r == [op[o] EXCEPT !.stage = "renameManifest"]
    <2>1. /\ r \in OpRecord /\ r.stage = "renameManifest" /\ r.window = op[o].window
          /\ r.wanted = op[o].wanted /\ r.commit = op[o].commit /\ r.exact = op[o].exact
          /\ r.artifact = op[o].artifact /\ r.received = op[o].received
      <3>1. op[o] \in OpRecord /\ "renameManifest" \in Stages
        BY <1>1, Renaming DEF Stages, Looking
      <3> QED BY <3>1 DEF OpRecord
    <2>2. op' = [Disturbed(o) EXCEPT ![o] = r]
      BY <1>1, Renaming DEF RenameIndex
    <2> HIDE DEF r
    <2> QED BY <2>1, <2>2
  <1>3. /\ op' \in [Operations -> OpRecord] /\ op'[o] = r
        /\ \A p \in Operations \ {o} : op'[p] = Disturbed(o)[p]
    BY <1>1, <1>2, Renaming
  <1>4. cache' = [cache EXCEPT ![op[o].commit]["index"] = op[o].artifact]
    BY <1>1, Renaming DEF RenameIndex
  <1>5. Rewrites(o)
    <2>1. Replaces(o, "index", op[o].artifact)
      BY <1>1, <1>3, <1>4, Renaming DEF Replaces, Files
    <2> QED BY <1>1, <2>1, Renaming DEF Rewrites, Files
  <1>6. Follows(r)
    BY <1>1, <1>2, Renaming DEF Follows, Chosen, Looking
  <1>7. cache'[op[o].commit]["index"] = op[o].artifact
    BY <1>1, <1>4, Renaming DEF Files
  <1>8. Kept(r)' /\ Undisturbed(r)'
    BY <1>1, <1>2, <1>7, Renaming DEF Kept, Undisturbed
  <1>9. Bounded
    BY <1>1, BudgetLeft
  <1>10. Proceeds(o, r) /\ UNCHANGED <<github, setting, open, overlapped>>
    BY <1>1, <1>2 DEF Proceeds, Looking, windows
  <1> QED BY <1>1, <1>2, <1>3, <1>5, <1>6, <1>8, <1>9, <1>10, Resolves
          DEF Bounded, Resolving, Looking

LEMMA RenameManifestStep ==
  ASSUME IInv, NEW o \in Operations, RenameManifest(o)
  PROVE  IInv'
  <1>1. /\ op[o].stage = "renameManifest" /\ UNCHANGED <<github, budget>>
        /\ Starts(o, Disturbed(o), op[o].commit)
    BY DEF RenameManifest, At
  <1>2. PICK r \in OpRecord :
          /\ r.stage = "load" /\ r.window = op[o].window
          /\ r.commit = op[o].commit /\ r.wanted = op[o].wanted /\ r.exact = op[o].exact
          /\ r.disturbed = op[o].disturbed
          /\ op' = [Disturbed(o) EXCEPT ![o] = r]
    <2> DEFINE r == [Forgotten(o, "load") EXCEPT !.commit = op[o].commit]
    <2>1. /\ r \in OpRecord /\ r.stage = "load" /\ r.window = op[o].window
          /\ r.commit = op[o].commit /\ r.wanted = op[o].wanted /\ r.exact = op[o].exact
          /\ r.disturbed = op[o].disturbed
      <3>1. op[o] \in OpRecord /\ op[o].commit \in Commits
        BY <1>1, Renaming
      <3>2. [op[o] EXCEPT !.stage = "load", !.seen = NothingRead, !.artifact = Absent,
                          !.received = Absent, !.stopping = NoClient] \in OpRecord
        BY <3>1 DEF OpRecord, Stages, NothingRead, Contents
      <3> QED BY <3>1, <3>2 DEF Forgotten, OpRecord
    <2>2. op' = [Disturbed(o) EXCEPT ![o] = r]
      BY <1>1 DEF Starts
    <2> HIDE DEF r
    <2> QED BY <2>1, <2>2
  <1>3. /\ op' \in [Operations -> OpRecord] /\ op'[o] = r
        /\ \A p \in Operations \ {o} : op'[p] = Disturbed(o)[p]
    BY <1>1, <1>2, Renaming
  <1>4. cache' = [cache EXCEPT ![op[o].commit]["manifest"] = op[o].artifact]
    BY DEF RenameManifest
  <1>5. Rewrites(o)
    <2>1. Replaces(o, "manifest", op[o].artifact)
      BY <1>1, <1>3, <1>4, Renaming DEF Replaces, Files
    <2> QED BY <1>1, <2>1, Renaming DEF Rewrites, Files
  <1>6. Follows(r)
    BY <1>1, <1>2, Renaming DEF Follows, Chosen, Looking
  <1>7. /\ cache'[op[o].commit]["manifest"] = op[o].artifact
        /\ cache'[op[o].commit]["index"] = cache[op[o].commit]["index"]
    BY <1>1, <1>4, Renaming DEF Files
  <1>8. Kept(op[o]) /\ (~ op[o].disturbed => Undisturbed(op[o]))
    BY DEF IInv, EachOperation
  <1>9. Kept(r)' /\ (~ r.disturbed => Undisturbed(r)')
    BY <1>1, <1>2, <1>7, <1>8, Renaming DEF Kept, Undisturbed, verifyRoslynIndex
  <1>10. Bounded
    BY <1>1, BudgetLeft
  <1>11. StartsServer(o, r) /\ UNCHANGED <<setting, open, overlapped>>
    BY <1>1, <1>2 DEF StartsServer, Starts
  <1> QED BY <1>1, <1>2, <1>3, <1>5, <1>6, <1>9, <1>10, <1>11, Resolves
          DEF Bounded, Resolving, Looking

LEMMA ResolveStep ==
  ASSUME IInv, NEW o \in Operations, Resolve(o)
  PROVE  IInv'
  BY ReadSettingsStep, ReadCachedStep, FindExactStep, FindLatestStep, ResolutionFailsStep,
     DownloadStep, RenameIndexStep, RenameManifestStep DEF Resolve

-----------------------------------------------------------------------------
(***************************************************************************)
(* A server's start, its documents and its end                              *)
(***************************************************************************)
LEMMA FewerInTurn ==
  ASSUME IInv, UNCHANGED <<client, overlapped>>,
         \A p \in Operations :
            /\ op'[p].stage \notin Ended =>
                  /\ Active(p) /\ op'[p].window = op[p].window
                  /\ op'[p].stage = "load" <=> op[p].stage = "load"
            /\ server'[p].stage \in Up =>
                  server[p].stage \in Up /\ op'[p].window = op[p].window
  PROVE  InTurn'
  BY DEF IInv, InTurn, Active, At

LEMMA ServerLoadsStep ==
  ASSUME IInv, NEW o \in Operations, ServerLoads(o)
  PROVE  IInv'
  <1>1. /\ op \in [Operations -> OpRecord] /\ op[o] \in OpRecord /\ Follows(op[o])
        /\ op[o].stage = "load" /\ Kept(op[o])
        /\ (~ op[o].disturbed => Undisturbed(op[o]))
        /\ server \in [Operations -> ServerRecord] /\ server[o].stage = "starting"
        /\ cache \in [Commits -> [Files -> Contents]] /\ Cached
        /\ UNCHANGED <<github, cache, windows, budget>>
    BY DEF IInv, TypeInv, EachOperation, ServerLoads, At, Serves
  <1>2. PICK r \in OpRecord :
          /\ r.stage = "done" /\ r.window = op[o].window
          /\ r.commit = op[o].commit /\ r.wanted = op[o].wanted /\ r.exact = op[o].exact
          /\ r.disturbed = op[o].disturbed
          /\ op' = [op EXCEPT ![o] = r]
    <2> DEFINE r == Forgotten(o, "done")
    <2>1. /\ r \in OpRecord /\ r.stage = "done" /\ r.window = op[o].window
          /\ r.commit = op[o].commit /\ r.wanted = op[o].wanted /\ r.exact = op[o].exact
          /\ r.disturbed = op[o].disturbed
      BY <1>1 DEF Forgotten, OpRecord, Stages, NothingRead, Contents, Ended
    <2>2. op' = [op EXCEPT ![o] = r]
      BY DEF ServerLoads
    <2> HIDE DEF r
    <2> QED BY <2>1, <2>2
  <1>3. op' \in [Operations -> OpRecord]
          /\ \A p \in Operations : op'[p] = IF p = o THEN r ELSE op[p]
    BY <1>1, <1>2
  <1>4. /\ AtPath(op[o].commit) \in Contents \cup {LocalIndex}
        /\ op[o].commit # LocalIndex =>
              /\ AtPath(op[o].commit) = cache[op[o].commit]["index"]
              /\ op[o].commit \in Commits
    BY <1>1 DEF AtPath, Follows, Chosen, Files
  <1>5. PICK s \in ServerRecord :
          /\ s.stage = "running" /\ s.index = AtPath(op[o].commit)
          /\ s.document = server[o].document /\ s.requests = server[o].requests
          /\ s.shown = server[o].shown
          /\ server' = [server EXCEPT ![o] = s]
    <2> DEFINE path == AtPath(op[o].commit)
               s == [server[o] EXCEPT !.stage = "running", !.index = path]
    <2>1. server' = [server EXCEPT ![o] = s]
      BY <1>1 DEF ServerLoads
    <2> HIDE DEF path
    <2>2. /\ s \in ServerRecord /\ s.stage = "running" /\ s.index = path
          /\ s.document = server[o].document /\ s.requests = server[o].requests
          /\ s.shown = server[o].shown
      BY <1>1, <1>4 DEF ServerRecord, Up, path
    <2> HIDE DEF s
    <2> QED BY <2>1, <2>2 DEF path
  <1>6. server' \in [Operations -> ServerRecord]
          /\ \A p \in Operations : server'[p] = IF p = o THEN s ELSE server[p]
    BY <1>1, <1>5
  <1>7. TypeInv' /\ Cached' /\ Shut'
    BY <1>1, <1>2, <1>3, <1>6 DEF IInv, TypeInv, Cached, Shut, Of, windows
  <1>8. Numbered'
    BY <1>1, <1>2, <1>3 DEF IInv, Numbered, At
  <1>9. EachOperation'
    <2> SUFFICES ASSUME NEW p \in Operations
                 PROVE  /\ Follows(op'[p]) /\ Kept(op[p])' /\ Serves(op[p], server[p])'
                        /\ ~ op'[p].disturbed => Undisturbed(op[p])'
      BY DEF EachOperation
    <2>1. CASE p = o
      <3>1. Follows(r)
        BY <1>1, <1>2 DEF Follows, Chosen, Looking
      <3>2. Kept(op[p])' /\ (~ op'[p].disturbed => Undisturbed(op[p])')
        BY <1>1, <1>2, <1>3, <2>1 DEF Kept, Undisturbed
      <3>3. op[o].commit # LocalIndex =>
               /\ cache[op[o].commit]["index"] \in Artifacts
               /\ cache[op[o].commit]["index"].commit = op[o].commit
        BY <1>1, <1>4 DEF Kept, Cached, Contents, Files
      <3>4. Serves(op[p], server[p])'
        BY <1>1, <1>2, <1>3, <1>4, <1>5, <1>6, <2>1, <3>3 DEF Serves
      <3> QED BY <1>3, <2>1, <3>1, <3>2, <3>4
    <2>2. CASE p # o
      <3>1. op'[p] = op[p] /\ server'[p] = server[p] /\ cache' = cache
        BY <1>1, <1>3, <1>6, <2>2
      <3> QED BY <3>1 DEF IInv, EachOperation, Kept, Undisturbed, Serves
    <2> QED BY <2>1, <2>2
  <1>10. EachDocument'
    BY <1>1, <1>5, <1>6 DEF IInv, EachDocument, Documented
  <1>11. InTurn'
    BY <1>1, <1>2, <1>3, <1>5, <1>6, FewerInTurn DEF windows, Active, Ended, Up
  <1>12. Begun'
    BY <1>1, <1>2, <1>3, BegunBefore DEF windows
  <1> QED BY <1>7, <1>8, <1>9, <1>10, <1>11, <1>12 DEF IInv

\* Operations that are over and servers that have ended, whichever they are.
LEMMA OverStep ==
  ASSUME IInv, NEW gone \in SUBSET Operations, UNCHANGED <<github, cache, setting>>,
         Bounded,
         op' \in [Operations -> OpRecord], server' \in [Operations -> ServerRecord],
         client' \in [Windows -> Operations \cup {NoClient}],
         open' \subseteq Windows, overlapped' \subseteq Windows,
         \A o \in gone : op'[o] = Over /\ server'[o] = StoppedServer /\ ~ At(o, "unused"),
         \A o \in Operations \ gone : server'[o] = server[o],
         \A o \in Operations \ gone :
            \/ op'[o] = op[o]
            \/ /\ op[o].stage = "stopping" /\ op'[o].stage = "resolve"
               /\ Follows(op'[o])
  PROVE  TypeInv' /\ Cached' /\ Numbered' /\ EachOperation' /\ EachDocument'
  <1>1. TypeInv'
    BY DEF IInv, TypeInv, Bounded
  <1>2. Cached' /\ Numbered'
    BY NewRecords DEF IInv, Cached, Numbered, At, Bounded
  <1>3. EachOperation'
    <2> SUFFICES ASSUME NEW p \in Operations
                 PROVE  /\ Follows(op'[p]) /\ Kept(op[p])' /\ Serves(op[p], server[p])'
                        /\ ~ op'[p].disturbed => Undisturbed(op[p])'
      BY DEF EachOperation
    <2>1. CASE p \in gone
      <3>1. op'[p] = Over /\ server'[p] = StoppedServer
        BY <2>1
      <3> QED BY <3>1, NewRecords, OverHolds DEF Kept, Undisturbed, Serves
    <2>2. CASE p \notin gone /\ op'[p] = op[p]
      <3>1. op'[p] = op[p] /\ server'[p] = server[p] /\ cache' = cache
        BY <2>2
      <3> QED BY <3>1 DEF IInv, EachOperation, Kept, Undisturbed, Serves
    <2>3. CASE /\ p \notin gone /\ op[p].stage = "stopping" /\ op'[p].stage = "resolve"
               /\ Follows(op'[p])
      <3>1. server'[p] = server[p] /\ server[p].stage \notin Up
        BY <2>3 DEF IInv, EachOperation, Serves, Up
      <3> QED BY <2>3, <3>1 DEF Kept, Undisturbed, Serves, Up
    <2> QED BY <2>1, <2>2, <2>3
  <1>4. EachDocument'
    BY OverHolds DEF IInv, EachDocument, Bounded
  <1> QED BY <1>1, <1>2, <1>3, <1>4

LEMMA LoadFailsStep ==
  ASSUME IInv, NEW o \in Operations, LoadFails(o)
  PROVE  IInv'
  <1> DEFINE w == op[o].window
  <1>1. /\ op \in [Operations -> OpRecord] /\ server \in [Operations -> ServerRecord]
        /\ client \in [Windows -> Operations \cup {NoClient}]
        /\ open \subseteq Windows /\ overlapped \subseteq Windows
        /\ op[o].stage = "load" /\ server[o].stage = "starting"
        /\ op[o] \in OpRecord /\ Follows(op[o]) /\ w \in Windows
    BY DEF IInv, TypeInv, EachOperation, LoadFails, At, Serves, Follows, OpRecord
  <1>2. /\ UNCHANGED <<github, cache, setting, open, overlapped>> /\ Bounded
        /\ op' = [op EXCEPT ![o] = Over] /\ server' = [server EXCEPT ![o] = StoppedServer]
        /\ client' = [client EXCEPT ![w] = NoClient]
    BY BudgetLeft DEF LoadFails, Fails
  <1> HIDE DEF w
  <1>3. /\ op' \in [Operations -> OpRecord] /\ server' \in [Operations -> ServerRecord]
        /\ client' \in [Windows -> Operations \cup {NoClient}]
        /\ \A p \in Operations : op'[p] = IF p = o THEN Over ELSE op[p]
        /\ \A p \in Operations : server'[p] = IF p = o THEN StoppedServer ELSE server[p]
        /\ \A v \in Windows : client'[v] = IF v = w THEN NoClient ELSE client[v]
    BY <1>1, <1>2, NewRecords
  <1>4. TypeInv' /\ Cached' /\ Numbered' /\ EachOperation' /\ EachDocument'
    <2>1. ~ At(o, "unused") /\ {o} \in SUBSET Operations
      BY <1>1 DEF At
    <2>2. /\ \A p \in {o} : op'[p] = Over /\ server'[p] = StoppedServer /\ ~ At(p, "unused")
          /\ \A p \in Operations \ {o} : server'[p] = server[p] /\ op'[p] = op[p]
          /\ open' \subseteq Windows /\ overlapped' \subseteq Windows
      BY <1>1, <1>2, <1>3, <2>1
    <2>3. Bounded /\ UNCHANGED <<github, cache, setting>>
      BY <1>2
    <2> QED BY <1>3, <2>1, <2>2, <2>3, OverStep
  <1>5. Shut'
    BY <1>1, <1>2, <1>3, NewRecords, Constants DEF IInv, Shut, Of
  <1>6. InTurn'
    <2> SUFFICES ASSUME NEW p \in Operations, op'[p].window \notin overlapped
                 PROVE  /\ Active(p)' =>
                              /\ client'[op'[p].window] =
                                    IF op'[p].stage = "load" THEN p ELSE NoClient
                              /\ \A q \in Operations :
                                    op'[q].window = op'[p].window /\ Active(q)' => q = p
                        /\ server'[p].stage \in Up => client'[op'[p].window] = p
      BY <1>2 DEF InTurn, At
    <2>1. CASE p = o
      BY <1>3, <2>1, NewRecords DEF Active, Ended, Up
    <2>2. CASE p # o
      <3>1. op'[p] = op[p] /\ server'[p] = server[p] /\ op[p].window \notin overlapped
        BY <1>3, <2>2
      <3>2. /\ Active(p) =>
                  /\ client[op[p].window] = IF op[p].stage = "load" THEN p ELSE NoClient
                  /\ \A q \in Operations :
                        op[q].window = op[p].window /\ Active(q) => q = p
            /\ server[p].stage \in Up => client[op[p].window] = p
        BY <3>1 DEF IInv, InTurn, At
      <3>3. Active(p) \/ server[p].stage \in Up => op[p].window # w
        <4>1. CASE op[p].window = w
          <5>1. client[w] = o /\ ~ Active(p)
            BY <1>1, <2>2, <3>1, <4>1 DEF IInv, InTurn, Active, Ended, At, w
          <5> QED BY <2>2, <3>2, <4>1, <5>1
        <4> QED BY <4>1
      <3>4. Active(p) \/ server[p].stage \in Up => op[p].window \in Windows
        <4>1. Follows(op[p]) /\ Serves(op[p], server[p]) /\ op[p] \in OpRecord
          BY DEF IInv, TypeInv, EachOperation
        <4> QED BY <4>1 DEF Follows, Serves, Active, Ended, Up, OpRecord
      <3>5. ASSUME NEW q \in Operations, op'[q].window = op'[p].window,
                   op'[q].stage \notin Ended, Active(p)
            PROVE  q = p
        BY <1>3, <3>1, <3>2, <3>5, NewRecords DEF Active, Ended
      <3> QED BY <1>3, <3>1, <3>2, <3>3, <3>4, <3>5 DEF Active
    <2> QED BY <2>1, <2>2
  <1>7. Begun'
    BY <1>3, NewRecords, BegunBefore
  <1> QED BY <1>4, <1>5, <1>6, <1>7 DEF IInv

LEMMA ServerStopsStep ==
  ASSUME IInv, NEW o \in Operations, ServerStops(o)
  PROVE  IInv'
  <1> DEFINE q == op[o].stopping
  <1>1. /\ op \in [Operations -> OpRecord] /\ server \in [Operations -> ServerRecord]
        /\ client \in [Windows -> Operations \cup {NoClient}]
        /\ open \subseteq Windows /\ overlapped \subseteq Windows
        /\ op[o] \in OpRecord /\ Follows(op[o]) /\ op[o].stage = "stopping"
        /\ q \in Operations /\ UNCHANGED <<github, cache, windows, budget>>
    BY DEF IInv, TypeInv, EachOperation, ServerStops, At, Follows
  <1>2. PICK r \in OpRecord :
          /\ r.stage = "resolve" /\ r.window = op[o].window
          /\ r.seen = op[o].seen /\ r.artifact = op[o].artifact
          /\ op' = [op EXCEPT ![o] = r, ![q] = Over]
    <2> DEFINE r == [op[o] EXCEPT !.stage = "resolve", !.stopping = NoClient]
    <2>1. /\ r \in OpRecord /\ r.stage = "resolve" /\ r.window = op[o].window
          /\ r.seen = op[o].seen /\ r.artifact = op[o].artifact
      BY <1>1 DEF OpRecord, Stages
    <2>2. op' = [op EXCEPT ![o] = r, ![q] = Over]
      BY <1>1 DEF ServerStops
    <2> HIDE DEF r
    <2> QED BY <2>1, <2>2
  <1>3. server' = [server EXCEPT ![q] = StoppedServer]
    BY DEF ServerStops
  <1>4. Follows(r)
    BY <1>1, <1>2 DEF Follows, Looking
  <1> HIDE DEF q
  <1>5. /\ op' \in [Operations -> OpRecord] /\ server' \in [Operations -> ServerRecord]
        /\ \A p \in Operations :
              op'[p] = IF p = q THEN Over ELSE IF p = o THEN r ELSE op[p]
        /\ \A p \in Operations : server'[p] = IF p = q THEN StoppedServer ELSE server[p]
    BY <1>1, <1>2, <1>3, NewRecords
  <1>6. UNCHANGED <<github, cache, setting>> /\ Bounded
    BY <1>1, BudgetLeft DEF windows
  <1>7. ~ At(q, "unused")
    BY <1>1 DEF IInv, Begun, At, q
  <1>8. TypeInv' /\ Cached' /\ Numbered' /\ EachOperation' /\ EachDocument'
    <2>1. {q} \in SUBSET Operations
            /\ \A p \in {q} :
                  op'[p] = Over /\ server'[p] = StoppedServer /\ ~ At(p, "unused")
      BY <1>1, <1>5, <1>7
    <2>2. \A p \in Operations \ {q} : server'[p] = server[p]
      BY <1>5
    <2>3. \A p \in Operations \ {q} :
             \/ op'[p] = op[p]
             \/ /\ op[p].stage = "stopping" /\ op'[p].stage = "resolve"
                /\ Follows(op'[p])
      BY <1>1, <1>2, <1>4, <1>5
    <2>4. /\ client' \in [Windows -> Operations \cup {NoClient}]
          /\ open' \subseteq Windows /\ overlapped' \subseteq Windows
      BY <1>1 DEF windows
    <2> QED BY <1>5, <1>6, <2>1, <2>2, <2>3, <2>4, OverStep
  <1>9. Shut'
    BY <1>1, <1>2, <1>5, NewRecords, Constants DEF IInv, Shut, Of, windows
  <1>10. InTurn'
    BY <1>1, <1>2, <1>5, NewRecords, FewerInTurn DEF windows, Active, Ended, Up
  <1>11. Begun'
    BY <1>1, <1>2, <1>5, NewRecords, BegunBefore DEF windows
  <1> QED BY <1>8, <1>9, <1>10, <1>11 DEF IInv

LEMMA CloseStep ==
  ASSUME IInv, NEW w \in Windows, Close(w)
  PROVE  IInv'
  <1> DEFINE gone == Of(w)
  <1>1. /\ op \in [Operations -> OpRecord] /\ server \in [Operations -> ServerRecord]
        /\ client \in [Windows -> Operations \cup {NoClient}]
        /\ open \subseteq Windows /\ overlapped \subseteq Windows
        /\ \A p \in Operations : Follows(op[p]) /\ op[p] \in OpRecord
        /\ gone \in SUBSET Operations
        /\ \A p \in Operations : p \in gone <=> op[p].window = w
    BY DEF IInv, TypeInv, EachOperation, Of
  <1>2. /\ UNCHANGED <<github, cache, setting>> /\ Bounded
        /\ open' = open \ {w} /\ overlapped' = overlapped \ {w}
        /\ client' = [client EXCEPT ![w] = NoClient]
        /\ op' = [p \in Operations |-> IF p \in gone THEN Over ELSE op[p]]
        /\ server' = [p \in Operations |-> IF p \in gone THEN StoppedServer ELSE server[p]]
    BY BudgetLeft DEF Close
  <1> HIDE DEF gone
  <1>3. /\ op' \in [Operations -> OpRecord] /\ server' \in [Operations -> ServerRecord]
        /\ client' \in [Windows -> Operations \cup {NoClient}]
        /\ \A p \in Operations : op'[p] = IF p \in gone THEN Over ELSE op[p]
        /\ \A p \in Operations :
              server'[p] = IF p \in gone THEN StoppedServer ELSE server[p]
        /\ \A v \in Windows : client'[v] = IF v = w THEN NoClient ELSE client[v]
        /\ open' \subseteq Windows /\ overlapped' \subseteq Windows
    BY <1>1, <1>2, NewRecords
  <1>4. TypeInv' /\ Cached' /\ Numbered' /\ EachOperation' /\ EachDocument'
    <2>1. \A p \in gone : ~ At(p, "unused")
      BY <1>1, Constants DEF Follows, At
    <2>2. \A p \in gone : op'[p] = Over /\ server'[p] = StoppedServer /\ ~ At(p, "unused")
      BY <1>1, <1>3, <2>1
    <2>3. \A p \in Operations \ gone : server'[p] = server[p] /\ op'[p] = op[p]
      BY <1>3
    <2> QED BY <1>1, <1>2, <1>3, <2>2, <2>3, OverStep
  <1>5. Shut'
    <2> SUFFICES ASSUME NEW v \in Windows, v \notin open'
                 PROVE  v \notin overlapped' /\ client'[v] = NoClient /\ Of(v)' = {}
      BY DEF Shut
    <2>1. CASE v = w
      <3>1. \A p \in Operations : op'[p].window # w
        BY <1>1, <1>3, NewRecords, Constants
      <3> QED BY <1>2, <1>3, <2>1, <3>1 DEF Of
    <2>2. CASE v # w
      <3>1. /\ v \notin overlapped /\ client[v] = NoClient
            /\ \A p \in Operations : op[p].window # v
        BY <1>2, <2>2 DEF IInv, Shut, Of
      <3>2. \A p \in Operations : op'[p].window # v
        BY <1>3, <3>1, NewRecords, Constants
      <3> QED BY <1>2, <1>3, <2>2, <3>1, <3>2 DEF Of
    <2> QED BY <2>1, <2>2
  <1>6. InTurn'
    <2> SUFFICES ASSUME NEW p \in Operations, op'[p].window \notin overlapped',
                        Active(p)' \/ server'[p].stage \in Up
                 PROVE  /\ Active(p)' =>
                              /\ client'[op'[p].window] =
                                    IF op'[p].stage = "load" THEN p ELSE NoClient
                              /\ \A q \in Operations :
                                    op'[q].window = op'[p].window /\ Active(q)' => q = p
                        /\ server'[p].stage \in Up => client'[op'[p].window] = p
      BY DEF InTurn, At
    <2>1. p \notin gone
      BY <1>3, NewRecords DEF Active, Ended, Up
    <2>2. /\ op'[p] = op[p] /\ server'[p] = server[p] /\ op[p].window # w
          /\ op[p].window \in Windows /\ client'[op[p].window] = client[op[p].window]
          /\ op[p].window \notin overlapped
      <3>1. op'[p] = op[p] /\ server'[p] = server[p] /\ op[p].window # w
        BY <1>1, <1>3, <2>1
      <3>2. op[p].window # Absent
        BY <1>1, <3>1 DEF Follows, Active, Ended, Up, IInv, EachOperation, Serves
      <3>3. op[p].window \in Windows
        BY <1>1, <3>2 DEF OpRecord
      <3> QED BY <1>2, <1>3, <3>1, <3>3
    <2>3. ASSUME NEW q \in Operations, op'[q].window = op'[p].window,
                 op'[q].stage \notin Ended
          PROVE  op'[q] = op[q] /\ Active(q)
      BY <1>3, <2>3, NewRecords DEF Active, Ended
    <2> QED BY <2>2, <2>3 DEF IInv, InTurn, Active, At
  <1>7. Begun'
    BY <1>3, NewRecords, BegunBefore
  <1> QED BY <1>4, <1>5, <1>6, <1>7 DEF IInv

-----------------------------------------------------------------------------
(***************************************************************************)
(* Commands                                                                *)
(***************************************************************************)
\* The server that is remembered is told to stop, if there is one that can be.
StopsClient(w, r) ==
    \/ /\ r.stage = "resolve" /\ client[w] = NoClient /\ UNCHANGED server
    \/ /\ r.stage = "over" /\ client[w] # NoClient /\ UNCHANGED server
       /\ server[client[w]].stage = "starting"
    \/ /\ r.stage = "stopping" /\ client[w] # NoClient /\ r.stopping = client[w]
       /\ server[client[w]].stage # "starting"
       /\ server' = [server EXCEPT ![client[w]].stage = "stopping"]

\* A window's next operation begins as r.
Begins(w, r) ==
    /\ r.stage \in {"resolve", "stopping", "over"}
    /\ r.stage = "over" \/ r.window = w
    /\ w \in open' /\ open' = open \cup {w}
    /\ client' = [client EXCEPT ![w] = NoClient]
    /\ \/ overlapped' = overlapped \cup {w}
       \/ overlapped' = overlapped /\ \A o \in Operations : op[o].window = w => ~ Active(o)
    /\ StopsClient(w, r)
    /\ op' = [op EXCEPT ![NextOperation] = r]
    /\ UNCHANGED <<github, cache>> /\ Spend("commands")

LEMMA BeginStep ==
  ASSUME IInv, NEW w \in Windows, NEW r \in OpRecord, Begins(w, r), Follows(r),
         setting' \in [Windows -> [local : BOOLEAN, commit : Commits \cup {Automatic}]]
  PROVE  IInv'
  <1> DEFINE n == NextOperation
             current == client[w]
  <1>1. /\ TypeInv /\ Numbered /\ op \in [Operations -> OpRecord]
        /\ server \in [Operations -> ServerRecord]
        /\ client \in [Windows -> Operations \cup {NoClient}]
        /\ open \subseteq Windows /\ overlapped \subseteq Windows
        /\ UNCHANGED <<github, cache>> /\ Spend("commands")
    BY DEF IInv, TypeInv, Begins
  <1>2. /\ budget' \in [commands : 0..MaxCommands, notices : Nat, faults : Nat]
        /\ budget.commands \in 1..MaxCommands
        /\ budget'.commands = budget.commands - 1 /\ budget'.notices = budget.notices
    BY <1>1, SpendCommand
  <1>3. /\ n \in Operations /\ op[n].stage = "unused"
        /\ \A o \in Operations :
              o # n => (o > MaxCommands - budget.commands
                          <=> o > MaxCommands - budget'.commands)
        /\ ~ (n > MaxCommands - budget'.commands)
    BY <1>1, <1>2, NextIsFirst DEF At
  <1>4. op' = [op EXCEPT ![n] = r] /\ client' = [client EXCEPT ![w] = NoClient]
          /\ open' = open \cup {w} /\ w \in open'
    BY DEF Begins
  <1> HIDE DEF n
  <1>5. /\ op' \in [Operations -> OpRecord]
        /\ \A p \in Operations : op'[p] = IF p = n THEN r ELSE op[p]
        /\ client' \in [Windows -> Operations \cup {NoClient}]
        /\ \A v \in Windows : client'[v] = IF v = w THEN NoClient ELSE client[v]
        /\ open' \subseteq Windows /\ overlapped' \subseteq Windows
        /\ r.stage \in {"resolve", "stopping", "over"}
        /\ r.stage = "over" \/ r.window = w
    BY <1>1, <1>3, <1>4 DEF Begins
  <1>6. /\ current \in Operations \cup {NoClient} /\ NoClient \notin Operations
        /\ current # NoClient => op[current].stage # "unused" /\ current # n
    BY <1>1, <1>3, Constants DEF IInv, Begun, At
  <1>7. server' \in [Operations -> ServerRecord]
          /\ \A p \in Operations :
                /\ server'[p].index = server[p].index
                /\ server'[p].document = server[p].document
                /\ server'[p].requests = server[p].requests
                /\ server'[p].shown = server[p].shown
                /\ server'[p].stage = IF p = current /\ r.stage = "stopping"
                                        THEN "stopping" ELSE server[p].stage
    <2>1. CASE UNCHANGED server /\ r.stage # "stopping"
      BY <1>1, <2>1
    <2>2. CASE /\ r.stage = "stopping" /\ current # NoClient
               /\ server' = [server EXCEPT ![current].stage = "stopping"]
      <3>1. current \in Operations
        BY <1>6, <2>2
      <3> HIDE DEF current
      <3> QED BY <1>1, <2>2, <3>1 DEF ServerRecord
    <2> QED BY <2>1, <2>2 DEF Begins, StopsClient
  <1>8. /\ r.stage = "resolve" => current = NoClient
        /\ r.stage = "stopping" => /\ r.stopping = current /\ current # NoClient
                                   /\ server[current].stage # "starting"
        /\ r.stage = "over" => current # NoClient /\ server[current].stage = "starting"
    BY DEF Begins, StopsClient
  <1>9. \/ /\ w \in overlapped'
           /\ \A v \in Windows : v # w => (v \in overlapped' <=> v \in overlapped)
        \/ overlapped' = overlapped /\ \A o \in Operations : op[o].window = w => ~ Active(o)
    BY DEF Begins
  <1> HIDE DEF current
  <1>10. TypeInv'
    BY <1>1, <1>2, <1>5, <1>7 DEF TypeInv
  <1>11. Numbered' /\ Cached' /\ EachDocument'
    <2>1. Numbered'
      BY <1>1, <1>3, <1>5 DEF Numbered, At
    <2>2. Cached' /\ EachDocument'
      BY <1>1, <1>2, <1>7 DEF IInv, Cached, EachDocument, Documented
    <2> QED BY <2>1, <2>2
  <1>12. EachOperation'
    <2> SUFFICES ASSUME NEW p \in Operations
                 PROVE  /\ Follows(op'[p]) /\ Kept(op[p])' /\ Serves(op[p], server[p])'
                        /\ ~ op'[p].disturbed => Undisturbed(op[p])'
      BY DEF EachOperation
    <2>0. Serves(op[p], server[p])
      BY DEF IInv, EachOperation
    <2>1. CASE p = n
      <3>1. op'[p] = r /\ server'[p].stage = server[p].stage /\ server[p].stage \notin Up
        BY <1>3, <1>5, <1>6, <1>7, <2>0, <2>1 DEF Serves, Up
      <3> QED BY <1>5, <3>1 DEF Kept, Undisturbed, Serves, Up
    <2>2. CASE p # n
      <3>1. op'[p] = op[p] /\ cache' = cache /\ server'[p].index = server[p].index
        BY <1>1, <1>5, <1>7, <2>2
      <3>2. Serves(op[p], server[p])'
        BY <1>7, <1>8, <2>0, <3>1 DEF Serves
      <3> QED BY <3>1, <3>2 DEF IInv, EachOperation, Kept, Undisturbed
    <2> QED BY <2>1, <2>2
  <1>13. Shut'
    <2> SUFFICES ASSUME NEW v \in Windows, v \notin open'
                 PROVE  v \notin overlapped' /\ client'[v] = NoClient /\ Of(v)' = {}
      BY DEF Shut
    <2>1. /\ v # w /\ v \notin overlapped /\ client[v] = NoClient
          /\ \A p \in Operations : op[p].window # v
      BY <1>4 DEF IInv, Shut, Of
    <2>2. \A p \in Operations : op'[p].window # v
      BY <1>5, <2>1, Constants DEF Follows
    <2> QED BY <1>5, <1>9, <2>1, <2>2 DEF Of
  <1>14. InTurn'
    <2> SUFFICES ASSUME NEW p \in Operations, op'[p].window \notin overlapped',
                        Active(p)' \/ server'[p].stage \in Up
                 PROVE  /\ Active(p)' =>
                              /\ client'[op'[p].window] =
                                    IF op'[p].stage = "load" THEN p ELSE NoClient
                              /\ \A q \in Operations :
                                    op'[q].window = op'[p].window /\ Active(q)' => q = p
                        /\ server'[p].stage \in Up => client'[op'[p].window] = p
      BY DEF InTurn, At
    <2>0. /\ server'[p].stage \in Up => server[p].stage \in Up
          /\ server[p].stage \in Up => op[p].stage \in {"load", "done"}
      BY <1>7 DEF IInv, EachOperation, Serves, Up
    <2>1. CASE p = n
      <3>1. op'[p] = r /\ r.window = w /\ r.stage # "over" /\ server'[p].stage \notin Up
        BY <1>3, <1>5, <2>0, <2>1 DEF Active, Ended
      <3>2. \A o \in Operations : op[o].window = w => ~ Active(o)
        BY <1>9, <3>1
      <3>3. \A q \in Operations : op'[q].window = w /\ Active(q)' => q = p
        BY <1>5, <2>1, <3>2 DEF Active
      <3> QED BY <1>5, <3>1, <3>3
    <2>2. CASE p # n
      <3>1. /\ op'[p] = op[p] /\ op[p].window \in Windows
            /\ Active(p) \/ server[p].stage \in Up
        <4>1. op'[p] = op[p] /\ (Active(p) \/ server[p].stage \in Up)
          BY <1>5, <2>0, <2>2 DEF Active
        <4>2. op[p] \in OpRecord /\ Follows(op[p])
          BY DEF IInv, TypeInv, EachOperation
        <4> QED BY <1>5, <2>0, <2>2, <4>1, <4>2 DEF Follows, OpRecord, Active, Ended
      <3>2. CASE op[p].window # w
        <4>1. op[p].window \notin overlapped /\ client'[op[p].window] = client[op[p].window]
          BY <1>5, <1>9, <3>1, <3>2
        <4>2. ASSUME NEW q \in Operations, op'[q].window = op[p].window,
                     op'[q].stage \notin Ended
              PROVE  op'[q] = op[q]
          BY <1>5, <3>2, <4>2 DEF Ended
        <4>3. server'[p].stage \in Up => server[p].stage \in Up
          BY <2>0
        <4>4. /\ Active(p) =>
                    /\ client[op[p].window] = IF op[p].stage = "load" THEN p ELSE NoClient
                    /\ \A q \in Operations :
                          op[q].window = op[p].window /\ Active(q) => q = p
              /\ server[p].stage \in Up => client[op[p].window] = p
          BY <4>1 DEF IInv, InTurn, At
        <4>5. ASSUME Active(p)', NEW q \in Operations, op'[q].window = op'[p].window,
                     Active(q)'
              PROVE  q = p
          BY <3>1, <4>2, <4>4, <4>5 DEF Active
        <4> QED BY <3>1, <4>1, <4>3, <4>4, <4>5 DEF Active
      <3>3. CASE op[p].window = w
        <4>1. ~ Active(p) /\ w \notin overlapped
          BY <1>9, <3>1, <3>3
        <4>2. server'[p].stage \in Up /\ client[w] = p
          BY <2>0, <3>1, <3>3, <4>1 DEF IInv, InTurn, Active
        <4>3. current = p /\ server[p].stage = "running"
          BY <2>0, <4>1, <4>2 DEF current, Active, Ended, Up, IInv, EachOperation, Serves
        <4> QED BY <1>5, <1>6, <1>7, <1>8, <4>2, <4>3 DEF Up
      <3> QED BY <3>2, <3>3
    <2> QED BY <2>1, <2>2
  <1>15. Begun'
    <2>1. ASSUME NEW v \in Windows, client'[v] # NoClient
          PROVE  op'[client'[v]].stage # "unused"
      <3>1. client'[v] = client[v] /\ client[v] \in Operations
              /\ op[client[v]].stage # "unused"
        BY <1>1, <1>5, <2>1 DEF IInv, Begun, At
      <3> QED BY <1>5, <3>1
    <2>2. ASSUME NEW o \in Operations, op'[o].stage = "stopping"
          PROVE  op'[op'[o].stopping].stage # "unused"
      <3>1. CASE o = n
        <4>1. r.stopping = current /\ current # NoClient /\ r.stage = "stopping"
          BY <1>5, <1>8, <2>2, <3>1
        <4>2. current \in Operations /\ op[current].stage # "unused" /\ current # n
          BY <1>6, <4>1
        <4> QED BY <1>5, <3>1, <4>1, <4>2
      <3>2. CASE o # n
        <4>1. /\ op'[o] = op[o] /\ op[o].stopping \in Operations
              /\ op[op[o].stopping].stage # "unused"
          BY <1>5, <2>2, <3>2 DEF IInv, EachOperation, Follows, Begun, At
        <4> QED BY <1>5, <4>1
      <3> QED BY <3>1, <3>2
    <2> QED BY <2>1, <2>2 DEF Begun, At
  <1> QED BY <1>10, <1>11, <1>12, <1>13, <1>14, <1>15 DEF IInv

LEMMA OpenStep ==
  ASSUME IInv, NEW w \in Windows, Open(w)
  PROVE  IInv'
  <1> DEFINE n == NextOperation
             r == [op[n] EXCEPT !.window = w, !.stage = "resolve"]
  <1>1. /\ TypeInv /\ Numbered /\ Spend("commands") /\ w \notin open
        /\ op \in [Operations -> OpRecord]
        /\ client \in [Windows -> Operations \cup {NoClient}]
        /\ UNCHANGED <<github, cache, setting, client, overlapped, server>>
    BY DEF IInv, TypeInv, Open
  <1>2. n \in Operations /\ op[n].stage = "unused"
    BY <1>1, SpendCommand, NextIsFirst DEF At
  <1>3. op' = [op EXCEPT ![n] = r]
    BY <1>1, <1>2 DEF Open
  <1> HIDE DEF n
  <1>4. op[n] \in OpRecord /\ Follows(op[n])
    BY <1>1, <1>2 DEF IInv, EachOperation
  <1>5. /\ r \in OpRecord /\ r.stage = "resolve" /\ r.window = w
        /\ r.seen = NothingRead /\ r.artifact = Absent
    BY <1>2, <1>4 DEF OpRecord, Stages, Follows
  <1> HIDE DEF r
  <1>6. Follows(r)
    BY <1>5, Constants DEF Follows, Looking
  <1>7. client[w] = NoClient /\ \A p \in Operations : op[p].window # w
    BY <1>1 DEF IInv, Shut, Of
  <1>8. client' = [client EXCEPT ![w] = NoClient] /\ open' = open \cup {w}
    BY <1>1, <1>7 DEF Open
  <1>9. Begins(w, r)
    BY <1>1, <1>3, <1>5, <1>7, <1>8 DEF Begins, StopsClient, n
  <1>10. setting' \in [Windows -> [local : BOOLEAN, commit : Commits \cup {Automatic}]]
    BY <1>1 DEF TypeInv
  <1> QED BY <1>5, <1>6, <1>9, <1>10, BeginStep

LEMMA CommandStep ==
  ASSUME IInv, NEW w \in Windows, NEW settings \in Settings, Command(w, settings)
  PROVE  IInv'
  <1> DEFINE current == client[w]
             stage == IF current = NoClient THEN "resolve"
                      ELSE IF server[current].stage = "starting" THEN "over"
                      ELSE "stopping"
             r == IF stage = "over" THEN Over
                  ELSE [NewOp EXCEPT !.window = w, !.stage = stage,
                                     !.stopping = IF stage = "stopping" THEN current ELSE @]
  <1>1. /\ TypeInv /\ w \in open /\ Spend("commands")
        /\ client \in [Windows -> Operations \cup {NoClient}]
        /\ current \in Operations \cup {NoClient}
        /\ setting' = [setting EXCEPT ![w] = settings]
        /\ UNCHANGED <<github, cache, open>>
        /\ client' = [client EXCEPT ![w] = NoClient]
    BY DEF IInv, TypeInv, Command, stopClient
  <1>2. /\ op' = [op EXCEPT ![NextOperation] = r]
        /\ server' = IF stage = "stopping"
                       THEN [server EXCEPT ![current].stage = "stopping"] ELSE server
    BY DEF Command, stopClient
  <1>3. \/ overlapped' = overlapped \cup {w}
        \/ overlapped' = overlapped /\ \A o \in Operations : op[o].window = w => ~ Active(o)
    BY DEF Command, Of, Active
  <1>4. stage \in {"resolve", "over", "stopping"}
          /\ (stage = "stopping" => current \in Operations)
    BY <1>1
  <1>5. /\ r \in OpRecord /\ r.stage = stage /\ Follows(r)
        /\ stage = "over" \/ r.window = w
        /\ stage = "stopping" => r.stopping = current
    <2>1. CASE stage = "over"
      BY <2>1, NewRecords, OverHolds
    <2>2. CASE stage # "over"
      <3> DEFINE target == IF stage = "stopping" THEN current ELSE NewOp.stopping
                 s == [NewOp EXCEPT !.window = w, !.stage = stage, !.stopping = target]
      <3>1. r = s
        BY <2>2
      <3>2. target \in Operations \cup {NoClient}
        BY <1>1 DEF NewOp
      <3>3. stage = "stopping" => target = current
        OBVIOUS
      <3>4. stage \in Stages
        BY <1>4 DEF Stages, Ended
      <3> HIDE DEF r, target, stage
      <3>5. /\ s \in OpRecord /\ s.stage = stage /\ s.window = w /\ s.stopping = target
            /\ s.seen = NothingRead /\ s.artifact = Absent
        BY <3>2, <3>4, NewRecords DEF OpRecord
      <3> HIDE DEF s
      <3>6. Follows(s)
        BY <1>4, <2>2, <3>3, <3>5, Constants DEF Follows, Looking
      <3> QED BY <3>1, <3>3, <3>5, <3>6
    <2> QED BY <2>1, <2>2
  <1>6. StopsClient(w, r)
    BY <1>2, <1>5 DEF StopsClient
  <1> HIDE DEF r, stage
  <1>7. open' = open \cup {w} /\ w \in open'
    BY <1>1
  <1>8. Begins(w, r)
    BY <1>1, <1>2, <1>3, <1>4, <1>5, <1>6, <1>7 DEF Begins
  <1>9. setting' \in [Windows -> [local : BOOLEAN, commit : Commits \cup {Automatic}]]
    <2>1. settings \in [local : BOOLEAN, commit : Commits \cup {Automatic}]
      BY ExtensionAssumption
    <2> QED BY <1>1, <2>1 DEF TypeInv
  <1> QED BY <1>5, <1>8, <1>9, BeginStep

-----------------------------------------------------------------------------
(***************************************************************************)
(* Documents                                                               *)
(***************************************************************************)
LEMMA DocumentStep ==
  ASSUME IInv, NEW o \in Operations, NEW s \in ServerRecord,
         server' = [server EXCEPT ![o] = s],
         s.stage = server[o].stage, s.index = server[o].index,
         UNCHANGED <<github, cache, windows, op>>,
         budget' \in [commands : 0..MaxCommands, notices : Nat, faults : Nat],
         budget'.commands = budget.commands,
         budget'.notices = budget.notices \/ budget'.notices = budget.notices - 1,
         Documented(s, budget'.notices)
  PROVE  IInv'
  <1>1. /\ server' \in [Operations -> ServerRecord]
        /\ \A p \in Operations : server'[p] = IF p = o THEN s ELSE server[p]
    BY DEF IInv, TypeInv
  <1>2. TypeInv' /\ Cached' /\ Numbered' /\ Shut' /\ Begun'
    BY <1>1 DEF IInv, TypeInv, Cached, Numbered, Shut, Begun, Of, At, windows
  <1>3. EachOperation'
    BY <1>1 DEF IInv, EachOperation, Kept, Undisturbed, Serves
  <1>4. EachDocument'
    <2> SUFFICES ASSUME NEW p \in Operations, p # o
                 PROVE  Documented(server[p], budget'.notices)
      BY <1>1 DEF EachDocument
    <2>1. Documented(server[p], budget.notices) /\ server[p] \in ServerRecord
            /\ budget.notices \in Nat
      BY DEF IInv, TypeInv, EachDocument
    <2>2. \A v \in Nat : v > budget.notices => v > budget'.notices
      BY <2>1
    <2> QED BY <2>1, <2>2 DEF Documented, ServerRecord, Documents, Requests
  <1>5. InTurn'
    BY <1>1, FewerInTurn DEF windows, Active
  <1> QED BY <1>2, <1>3, <1>4, <1>5 DEF IInv

LEMMA NoticeStep ==
  ASSUME IInv, NEW o \in Operations, Notice(o)
  PROVE  IInv'
  <1> DEFINE left == budget.notices
  <1>1. /\ TypeInv /\ server[o] \in ServerRecord /\ Documented(server[o], left)
        /\ UNCHANGED <<github, cache, windows, op>>
    BY DEF IInv, TypeInv, EachDocument, Notice
  <1>2. /\ budget' \in [commands : 0..MaxCommands, notices : Nat, faults : Nat]
        /\ budget'.commands = budget.commands
        /\ left \in Nat /\ budget'.notices = left - 1 /\ left - 1 \in Nat
    <2>1. Spend("notices")
      BY DEF Notice
    <2>2. budget' \in [commands : 0..MaxCommands, notices : Nat, faults : Nat]
      BY <1>1, <2>1, SpendNotice
    <2> QED BY <1>1, <2>1, <2>2, SpendNotice
  <1> HIDE DEF left
  <1>3. /\ \A v \in Nat : v > left => v > left - 1
        /\ left > left - 1 /\ \A v \in Nat : v > left => v # left
    BY <1>2
  <1>4. ASSUME NEW document \in Documents \cup {Absent},
               server' = [server EXCEPT ![o].document = document],
               document # Absent => document.version = left /\ document.hash = Absent
        PROVE  IInv'
    <2> DEFINE s == [server[o] EXCEPT !.document = document]
    <2>1. server' = [server EXCEPT ![o] = s]
      BY <1>4
    <2>2. /\ s \in ServerRecord /\ s.stage = server[o].stage /\ s.index = server[o].index
          /\ s.document = document /\ s.requests = server[o].requests
          /\ s.shown = server[o].shown
      BY <1>1 DEF ServerRecord
    <2> HIDE DEF s
    <2>3. \A request \in server[o].requests : request.version \in Nat
      BY <1>1 DEF ServerRecord, Requests
    <2>4. Documented(s, left - 1)
      BY <1>1, <1>2, <1>3, <1>4, <2>2, <2>3 DEF Documented
    <2> QED BY <1>1, <1>2, <2>1, <2>2, <2>4, DocumentStep DEF left
  <1>5. ASSUME NEW text \in Texts
        PROVE  /\ NewDocument(text) \in Documents
               /\ NewDocument(text).version = left /\ NewDocument(text).hash = Absent
    BY <1>2 DEF NewDocument, Documents, left
  <1>6. ASSUME NEW text \in Texts, DidOpen(o, text) \/ DidChange(o, text)
        PROVE  IInv'
    BY <1>4, <1>5, <1>6 DEF DidOpen, DidChange
  <1>7. CASE DidClose(o)
    BY <1>4, <1>7 DEF DidClose
  <1>8. CASE TokensRequested(o)
    <2> DEFINE document == server[o].document
               hash     == IF document.hash = Absent THEN document.text ELSE document.hash
               request  == [version |-> document.version, hash |-> hash]
               hashed   == [document EXCEPT !.hash = hash]
               s == [server[o] EXCEPT !.document = hashed, !.requests = @ \cup {request}]
    <2>1. document # Absent /\ server' = [server EXCEPT ![o] = s]
      BY <1>1, <1>8 DEF TokensRequested, TypeInv
    <2>2. /\ document \in Documents /\ document.version \in Nat /\ document.version > left
          /\ hash = document.text /\ hash \in Texts
      BY <1>1, <2>1 DEF ServerRecord, Documents, Documented
    <2> HIDE DEF document, hash
    <2>3. /\ hashed \in Documents /\ hashed.version = document.version
          /\ hashed.text = document.text /\ hashed.hash = hash
          /\ request \in Requests /\ request.version = document.version
          /\ request.hash = hash
      BY <2>2 DEF Documents, Requests
    <2> HIDE DEF hashed, request
    <2>4. /\ s \in ServerRecord /\ s.stage = server[o].stage /\ s.index = server[o].index
          /\ s.document = hashed /\ s.requests = server[o].requests \cup {request}
          /\ s.shown = server[o].shown
      BY <1>1, <2>3 DEF ServerRecord
    <2> HIDE DEF s
    <2>5. \A q \in server[o].requests : q.version \in Nat
      BY <1>1 DEF ServerRecord, Requests
    <2>6. Documented(s, left - 1)
      BY <1>1, <1>3, <2>1, <2>2, <2>3, <2>4, <2>5 DEF Documented, document
    <2> QED BY <1>1, <1>2, <2>1, <2>4, <2>6, DocumentStep DEF left
  <1> QED BY <1>6, <1>7, <1>8 DEF Notice

LEMMA TokensAnsweredStep ==
  ASSUME IInv, NEW o \in Operations, NEW request \in server[o].requests,
         TokensAnswered(o, request)
  PROVE  IInv'
  <1> DEFINE answered == /\ server[o].document # Absent
                         /\ server[o].document.version = request.version
                         /\ request.hash = TokensOf(server[o].index)
             shown == IF answered
                        THEN [tokens |-> TokensOf(server[o].index),
                              document |-> server[o].document]
                        ELSE server[o].shown
             s == [server[o] EXCEPT !.requests = @ \ {request}, !.shown = shown]
  <1>1. /\ TypeInv /\ server[o] \in ServerRecord /\ Documented(server[o], budget.notices)
        /\ server \in [Operations -> ServerRecord]
        /\ UNCHANGED <<github, cache, windows, op, budget>>
        /\ budget \in [commands : 0..MaxCommands, notices : Nat, faults : Nat]
    BY DEF IInv, TypeInv, EachDocument, TokensAnswered
  <1>2. server' = [server EXCEPT ![o] = s]
    BY <1>1 DEF TokensAnswered
  <1>3. /\ shown \in Answers \cup {Absent}
        /\ shown # Absent =>
              shown.document # Absent /\ shown.document.text = shown.tokens
    <2>1. CASE answered
      <3>1. request \in Requests /\ server[o].document \in Documents
        BY <1>1, <2>1 DEF ServerRecord
      <3>2. request.hash \in Texts /\ request.hash = server[o].document.text
        BY <1>1, <2>1, <3>1 DEF Documented, Requests
      <3> QED BY <2>1, <3>1, <3>2 DEF Answers
    <2>2. CASE ~ answered
      BY <1>1, <2>2 DEF ServerRecord, Documented
    <2> QED BY <2>1, <2>2
  <1> HIDE DEF shown
  <1>4. /\ s \in ServerRecord /\ s.stage = server[o].stage /\ s.index = server[o].index
        /\ s.document = server[o].document /\ s.requests = server[o].requests \ {request}
        /\ s.shown = shown
    BY <1>1, <1>3 DEF ServerRecord
  <1> HIDE DEF s
  <1>5. Documented(s, budget.notices)
    BY <1>1, <1>3, <1>4 DEF Documented
  <1> QED BY <1>1, <1>2, <1>4, <1>5, DocumentStep

LEMMA PublishStep ==
  ASSUME IInv, NEW artifact \in Artifacts, Publish(artifact)
  PROVE  IInv'
  <1>1. /\ github' \subseteq Artifacts /\ IsFiniteSet(github')
        /\ UNCHANGED <<cache, windows, op, server, budget>>
    BY FS_AddElement DEF IInv, TypeInv, Publish
  <1>2. TypeInv' /\ Cached' /\ Numbered' /\ Shut' /\ Begun'
    BY <1>1 DEF IInv, TypeInv, Cached, Numbered, Shut, Begun, Of, At, windows
  <1>3. EachOperation' /\ EachDocument'
    BY <1>1 DEF IInv, EachOperation, Kept, Undisturbed, Serves, EachDocument
  <1>4. InTurn'
    BY <1>1, FewerInTurn DEF windows, Active
  <1> QED BY <1>2, <1>3, <1>4 DEF IInv

-----------------------------------------------------------------------------
(***************************************************************************)
(* The theorems                                                            *)
(***************************************************************************)
LEMMA Initially == Init => IInv
  <1> SUFFICES ASSUME Init PROVE IInv
    OBVIOUS
  <1>1. \A o \in Operations : op[o] = NewOp /\ server[o] = NewServer
    BY DEF Init
  <1>2. budget \in [commands : 0..MaxCommands, notices : Nat, faults : Nat]
          /\ budget.commands = MaxCommands
    BY Constants DEF Init
  <1>3. /\ op \in [Operations -> OpRecord] /\ server \in [Operations -> ServerRecord]
        /\ client \in [Windows -> Operations \cup {NoClient}]
        /\ open \subseteq Windows /\ overlapped \subseteq Windows
        /\ cache \in [Commits -> [Files -> Contents]] /\ Cached
        /\ setting \in [Windows -> [local : BOOLEAN, commit : Commits \cup {Automatic}]]
    BY NewRecords DEF Init, EmptyCache, Contents, Cached
  <1>4. github \subseteq Artifacts /\ IsFiniteSet(github)
    BY ExtensionAssumption DEF Init
  <1>5. TypeInv
    BY <1>2, <1>3, <1>4 DEF TypeInv
  <1>6. Numbered
    BY <1>1, <1>2, NewRecords, Constants DEF Numbered, At, Operations
  <1>7. EachOperation /\ EachDocument
    BY <1>1, NewRecords DEF EachOperation, EachDocument, Follows, Kept, Undisturbed, Serves,
                            Documented, Looking
  <1>8. InTurn /\ Begun
    BY <1>1, NewRecords DEF Init, InTurn, Begun, Active, Ended, Up, At
  <1>9. Shut
    BY <1>1, NewRecords, Constants DEF Init, Shut, Of
  <1> QED BY <1>3, <1>5, <1>6, <1>7, <1>8, <1>9 DEF IInv

LEMMA Stutters == ASSUME IInv, UNCHANGED vars PROVE IInv'
  BY DEF vars, windows, IInv, TypeInv, Cached, Numbered, EachOperation, EachDocument,
         InTurn, Shut, Begun, Active, At, Of, Kept, Undisturbed, Serves

LEMMA Steps == IInv /\ [Next]_vars => IInv'
  <1> SUFFICES ASSUME IInv, [Next]_vars PROVE IInv'
    OBVIOUS
  <1>1. ASSUME NEW w \in Windows,
               Open(w) \/ Close(w) \/ \E settings \in Settings : Command(w, settings)
        PROVE  IInv'
    BY <1>1, OpenStep, CloseStep, CommandStep
  <1>2. ASSUME NEW o \in Operations,
               \/ ServerStops(o) \/ Resolve(o) \/ ServerLoads(o) \/ LoadFails(o)
               \/ Notice(o)
               \/ \E request \in server[o].requests : TokensAnswered(o, request)
        PROVE  IInv'
    BY <1>2, ServerStopsStep, ResolveStep, ServerLoadsStep, LoadFailsStep, NoticeStep,
       TokensAnsweredStep
  <1>3. ASSUME NEW artifact \in Artifacts, Publish(artifact) PROVE IInv'
    BY <1>3, PublishStep
  <1>4. CASE UNCHANGED vars
    BY <1>4, Stutters
  <1> QED BY <1>1, <1>2, <1>3, <1>4 DEF Next

LEMMA Invariance == Spec => []IInv
  BY Initially, Steps, PTL DEF Spec

\* Whatever other windows write and wherever they are closed, a server that runs
\* has opened a whole index, of the commit that was configured or of one in the
\* history of the workspace's (resolveDownloadedRoslynIndex, writeCacheAtomically).
THEOREM VerifiedIsServed == Spec => []ServesVerified
  <1>1. IInv => ServesVerified
    <2> SUFFICES ASSUME IInv, NEW o \in Operations, Running(o), op[o].commit # LocalIndex
                 PROVE  /\ server[o].index \in Artifacts
                        /\ server[o].index.commit = op[o].commit
                        /\ op[o].commit \in IF op[o].exact THEN {op[o].wanted}
                                            ELSE Range(History[op[o].wanted])
      BY DEF ServesVerified
    <2>1. Follows(op[o]) /\ Serves(op[o], server[o]) /\ server[o].stage = "running"
      BY DEF IInv, EachOperation, Running
    <2> QED BY <2>1 DEF Follows, Serves, Chosen
  <1> QED BY <1>1, Invariance, PTL

\* An operation that nobody disturbs repairs files of different downloads, and
\* serves the index that was verified (isValidCachedIndex, writeCacheAtomically).
THEOREM AloneRepairs == Spec => []RepairedWhenAlone
  <1>1. IInv => RepairedWhenAlone
    BY DEF IInv, EachOperation, RepairedWhenAlone, Serves, Undisturbed, At
  <1> QED BY <1>1, Invariance, PTL

\* Where no command was given before another had ended, at most one server of a
\* window runs, and it is the one that the next command will stop (startClient,
\* stopClient).
THEOREM OneServerRuns == Spec => []SoleServer
  <1>1. IInv => SoleServer
    BY DEF IInv, InTurn, SoleServer, Up
  <1> QED BY <1>1, Invariance, PTL

\* Tokens are returned only for a document that has the text they were made from
\* when they are returned (provideSemanticTokens).
THEOREM TokensAreOfTheText == Spec => []TokensMatch
  <1>1. IInv => TokensMatch
    BY DEF IInv, EachDocument, Documented, TokensMatch
  <1> QED BY <1>1, Invariance, PTL
=============================================================================
