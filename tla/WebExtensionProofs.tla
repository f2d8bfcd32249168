-------------------------- MODULE WebExtensionProofs --------------------------
(***************************************************************************)
(* Theorems about WebExtension, for any repository, workspaces and settings, *)
(* and any number of commands, moves of the revision and failures.           *)
(***************************************************************************)
EXTENDS WebExtension, TLAPS

(***************************************************************************)
(* Types                                                                   *)
(***************************************************************************)
Indices == Commits \cup {NoIndex, ConfiguredIndex, WorkspaceIndex}

\* An operation that has not yet chosen what to download.
Undecided == {"stopping", "resolve", "workspace", "hub", "initialize", "github"}
Decided   == {"read", "create", "bootstrap", "starting"}
Stages    == Undecided \cup Decided \cup Ended \cup {"prompt", "download"}

OpRecord ==
    [stage : Stages, stopping : Operations \cup {NoClient},
     wanted : Commits \cup {NoCommit}, exact : BOOLEAN, told : BOOLEAN,
     heads : SUBSET Commits, index : Indices]

WorkerRecord ==
    [stage  : Alive \cup {"none", "terminated"}, index : Indices,
     posted : SUBSET {"ready", "error"}]

TypeInv ==
    /\ head \in Commits
    /\ setting.commit \in Commits \cup {Automatic}
    /\ remembered \in Commits \cup {NoCommit}
    /\ client \in Operations \cup {NoClient}
    /\ overlapped \in BOOLEAN
    /\ op \in [Operations -> OpRecord]
    /\ worker \in [Operations -> WorkerRecord]
    /\ budget \in [commands : 0..MaxCommands, moves : Nat, faults : Nat]

(***************************************************************************)
(* Each operation with its worker                                           *)
(***************************************************************************)
\* Where nothing was configured and something tells the revision, the commit is
\* that of a workspace the operation has seen, the index one of its history.
Follows(r) ==
    /\ r.stage \in Undecided => ~ r.exact /\ r.told
    /\ r.stage = "prompt" => ~ r.exact /\ ~ r.told
    /\ r.stage = "download" =>
          r.wanted \in Commits /\ (r.exact \/ ~ r.told \/ r.wanted \in r.heads)
    /\ r.stage \in Decided /\ r.exact => r.index = r.wanted
    /\ r.stage \in Decided /\ r.index \in Commits /\ ~ r.exact /\ r.told =>
          \E c \in r.heads : r.index \in Range(History[c])

Belongs(r, w) ==
    /\ w.stage \in Alive => r.stage \in {"bootstrap", "starting", "done"}
    /\ "ready" \in w.posted => w.stage = "ready"
    /\ r.stage \in {"bootstrap", "starting"} /\ w.stage \in Alive => w.index = r.index

\* The operations that have begun come first.
Numbered ==
    \A o \in Operations : At(o, "unused") <=> o > MaxCommands - budget.commands

EachOperation ==
    \A o \in Operations :
        /\ Follows(op[o]) /\ Belongs(op[o], worker[o])
        /\ op[o].stage \notin Ended => head \in op[o].heads
        /\ At(o, "stopping") =>
              op[o].stopping \in Operations \ {o} /\ ~ At(op[o].stopping, "unused")

(***************************************************************************)
(* All of them, while commands do not overlap                               *)
(***************************************************************************)
Active(o) == op[o].stage \notin Ended

Stopped(o) == \E p \in Operations : At(p, "stopping") /\ op[p].stopping = o

InTurn ==
    /\ \A o, p \in Operations : Active(o) /\ Active(p) => o = p
    /\ \A o \in Operations : Active(o) =>
          client = IF At(o, "starting") THEN o ELSE NoClient
    /\ client # NoClient =>
          op[client].stage \in {"starting", "done"} /\ worker[client].stage = "ready"
    /\ \A o \in Operations : At(o, "stopping") => At(op[o].stopping, "done")
    /\ \A o \in Operations : worker[o].stage \in Alive /\ At(o, "done") =>
          client = o \/ Stopped(o)

Begun == client # NoClient => ~ At(client, "unused")

\* Nothing goes on without a window.
Shut ==
    ~ open => /\ client = NoClient
              /\ \A o \in Operations : op[o].stage \in {"unused", "over"}

IInv ==
    /\ TypeInv /\ Numbered /\ EachOperation /\ Begun /\ Shut
    /\ ~ overlapped => InTurn

-----------------------------------------------------------------------------
(***************************************************************************)
(* Values and bounds                                                       *)
(***************************************************************************)
LEMMA Constants ==
  /\ MaxCommands \in Nat /\ MaxMoves \in Nat /\ MaxFaults \in Nat
  /\ NoClient \notin Operations /\ NoCommit \notin Commits /\ Automatic \notin Commits
  /\ NoIndex \notin Commits /\ ConfiguredIndex \notin Commits
  /\ WorkspaceIndex \notin Commits
  BY WebExtensionAssumption DEF Operations

LEMMA NewRecords ==
  /\ NewOp \in OpRecord /\ OverOp \in OpRecord /\ NewWorker \in WorkerRecord
  /\ OverOp.stage = "over" /\ NewOp.stage = "unused"
  /\ NewWorker.stage = "none" /\ NewWorker.posted = {}
  BY DEF NewOp, OverOp, NewWorker, OpRecord, WorkerRecord, Stages, Ended, Indices

LEMMA SpendFault ==
  ASSUME TypeInv, NEW what \in {"moves", "faults"}, Spend(what)
  PROVE  /\ budget' \in [commands : 0..MaxCommands, moves : Nat, faults : Nat]
         /\ budget'.commands = budget.commands
  <1> DEFINE less == budget[what] - 1
  <1>1. budget \in [commands : 0..MaxCommands, moves : Nat, faults : Nat]
    BY DEF TypeInv
  <1>2. less \in Nat /\ budget' = [budget EXCEPT ![what] = less]
    BY <1>1 DEF Spend
  <1> HIDE DEF less
  <1> QED BY <1>1, <1>2

LEMMA SpendCommand ==
  ASSUME TypeInv, Spend("commands")
  PROVE  /\ budget' \in [commands : 0..MaxCommands, moves : Nat, faults : Nat]
         /\ budget.commands \in 1..MaxCommands
         /\ budget'.commands = budget.commands - 1
  <1> DEFINE less == budget.commands - 1
  <1>1. budget \in [commands : 0..MaxCommands, moves : Nat, faults : Nat]
    BY DEF TypeInv
  <1>2. /\ budget.commands \in 0..MaxCommands /\ budget.commands > 0
        /\ budget' = [budget EXCEPT !.commands = less]
    BY <1>1 DEF Spend
  <1>4. less \in 0..MaxCommands /\ budget.commands \in 1..MaxCommands
    BY <1>2, Constants
  <1> HIDE DEF less
  <1>3. budget' \in [commands : 0..MaxCommands, moves : Nat, faults : Nat]
          /\ budget'.commands = less
    BY <1>1, <1>2, <1>4
  <1> QED BY <1>3, <1>4 DEF less

\* The next operation is the first that has not begun.
LEMMA NextIsFirst ==
  ASSUME TypeInv, Numbered, budget.commands \in 1..MaxCommands
  PROVE  /\ NextOperation \in Operations /\ At(NextOperation, "unused")
         /\ \A o \in Operations :
               o # NextOperation => (o > MaxCommands - budget.commands
                                       <=> o > MaxCommands - (budget.commands - 1))
         /\ ~ (NextOperation > MaxCommands - (budget.commands - 1))
  <1> DEFINE first == MaxCommands - budget.commands + 1
  <1>1. first \in Operations /\ At(first, "unused")
    BY Constants DEF Numbered, Operations
  <1>2. \A p \in Operations : At(p, "unused") => first <= p
    BY Constants DEF Numbered, Operations
  <1>3. \E o \in Operations :
           At(o, "unused") /\ \A p \in Operations : At(p, "unused") => o <= p
    BY <1>1, <1>2
  <1>4. /\ NextOperation \in Operations /\ At(NextOperation, "unused")
        /\ \A p \in Operations : At(p, "unused") => NextOperation <= p
    BY <1>3 DEF NextOperation
  <1>5. NextOperation = first
    BY <1>1, <1>2, <1>4, Constants DEF Operations
  <1>6. ~ (NextOperation > MaxCommands - (budget.commands - 1))
    BY <1>5, Constants
  <1>7. \A o \in Operations :
           o # first => (o > MaxCommands - budget.commands
                           <=> o > MaxCommands - (budget.commands - 1))
    BY Constants DEF Operations
  <1> QED BY <1>4, <1>5, <1>6, <1>7

\* A worker that is not alive belongs to any operation, with no answer posted.
LEMMA NotAlive ==
  ASSUME NEW r, NEW w, Belongs(r, w), r.stage \notin {"bootstrap", "starting", "done"}
  PROVE  w.stage \notin Alive /\ \A other : Belongs(other, w)
  BY DEF Belongs, Alive

LEMMA DisposedBelongs ==
  ASSUME TypeInv, NEW o \in Operations, NEW w, w = [NewWorker EXCEPT !.stage = "terminated"]
  PROVE  /\ w \in WorkerRecord /\ w.stage \notin Alive
         /\ \A r : Belongs(r, w)
         /\ Disposed(o) = [worker EXCEPT ![o] = w]
         /\ Disposed(o) \in [Operations -> WorkerRecord]
         /\ \A q \in Operations : Disposed(o)[q] = IF q = o THEN w ELSE worker[q]
  <1>1. w \in WorkerRecord /\ w.stage = "terminated" /\ w.posted = {}
    BY DEF NewWorker, WorkerRecord, Indices
  <1> QED BY <1>1 DEF Disposed, TypeInv, Belongs, Alive

LEMMA OverFollows == Follows(OverOp)
  BY NewRecords DEF Follows, Undecided, Decided

-----------------------------------------------------------------------------
(***************************************************************************)
(* Kinds of steps                                                          *)
(***************************************************************************)
\* What a step must keep of what is around the operations.
Around ==
    /\ head' = head /\ open' = open
    /\ setting'.commit \in Commits \cup {Automatic}
    /\ remembered' \in Commits \cup {NoCommit}
    /\ overlapped' = overlapped
    /\ budget' \in [commands : 0..MaxCommands, moves : Nat, faults : Nat]
    /\ budget'.commands = budget.commands

\* An operation and its worker become r and w.
Becomes(o, r, w) == op' = [op EXCEPT ![o] = r] /\ worker' = [worker EXCEPT ![o] = w]

\* One operation changes, with its worker, and perhaps becomes the client or the
\* client is forgotten.
LEMMA OneChanges ==
  ASSUME IInv, Around, NEW o \in Operations, client' \in {client, o, NoClient},
         op[o].stage \notin {"unused", "over"},
         NEW r \in OpRecord, NEW w \in WorkerRecord, Becomes(o, r, w),
         r.stage \notin {"unused", "stopping"},
         r.stage \notin Ended => head \in r.heads,
         Follows(r), Belongs(r, w)
  PROVE  /\ TypeInv' /\ Numbered' /\ EachOperation' /\ Begun' /\ Shut'
         /\ \A q \in Operations : op'[q] = IF q = o THEN r ELSE op[q]
         /\ \A q \in Operations : worker'[q] = IF q = o THEN w ELSE worker[q]
  <1>0. /\ op \in [Operations -> OpRecord] /\ worker \in [Operations -> WorkerRecord]
        /\ NoClient \notin Operations
    BY Constants DEF IInv, TypeInv
  <1>1. /\ \A q \in Operations : op'[q] = IF q = o THEN r ELSE op[q]
        /\ \A q \in Operations : worker'[q] = IF q = o THEN w ELSE worker[q]
        /\ op' \in [Operations -> OpRecord] /\ worker' \in [Operations -> WorkerRecord]
    BY <1>0 DEF Becomes
  <1>2. TypeInv'
    BY <1>1 DEF IInv, TypeInv, Around
  <1>3. \A q \in Operations : At(q, "unused")' <=> At(q, "unused")
    BY <1>1 DEF At
  <1>4. Numbered' /\ Begun'
    BY <1>3 DEF IInv, TypeInv, Numbered, Begun, Around, At
  <1>5. EachOperation'
    <2> SUFFICES ASSUME NEW q \in Operations
                 PROVE  /\ Follows(op'[q]) /\ Belongs(op'[q], worker'[q])
                        /\ op'[q].stage \notin Ended => head \in op'[q].heads
                        /\ op'[q].stage = "stopping" =>
                              /\ op'[q].stopping \in Operations \ {q}
                              /\ op'[op'[q].stopping].stage # "unused"
      BY DEF EachOperation, Around, At
    <2>1. CASE q = o
      BY <1>1, <2>1 DEF IInv, EachOperation, At
    <2>2. CASE q # o
      BY <1>1, <1>3, <2>2 DEF IInv, EachOperation, At
    <2> QED BY <2>1, <2>2
  <1>6. Shut'
    BY DEF IInv, Shut, Around
  <1> QED BY <1>1, <1>2, <1>4, <1>5, <1>6

\* An operation goes on, or is over, without its client.
LEMMA OneGoesOn ==
  ASSUME IInv, Around, UNCHANGED client, NEW o \in Operations,
         op[o].stage \notin Ended \cup {"starting", "stopping"},
         NEW r \in OpRecord, NEW w \in WorkerRecord, Becomes(o, r, w),
         r.stage \notin {"unused", "starting", "stopping", "done"},
         r.stage \notin Ended => r.heads = op[o].heads,
         Follows(r), Belongs(r, w)
  PROVE  IInv'
  <1>0. /\ NoClient \notin Operations /\ (r.stage \notin Ended => head \in r.heads)
        /\ op[o].stage \notin {"unused", "over"} /\ r.stage \notin {"unused", "stopping"}
        /\ client' \in {client, o, NoClient}
    BY Constants DEF IInv, EachOperation, Ended
  <1>1. /\ TypeInv' /\ Numbered' /\ EachOperation' /\ Begun' /\ Shut'
        /\ \A q \in Operations : op'[q] = IF q = o THEN r ELSE op[q]
        /\ \A q \in Operations : worker'[q] = IF q = o THEN w ELSE worker[q]
    BY <1>0, OneChanges
  <1>2. ASSUME ~ overlapped PROVE InTurn'
    <2>1. InTurn /\ client = NoClient
      BY <1>2 DEF IInv, InTurn, Active, At
    <2>2. \A q \in Operations : Active(q)' => q = o
      BY <1>1, <2>1 DEF InTurn, Active
    <2>3. \A q \in Operations : ~ At(q, "stopping")' /\ ~ At(q, "starting")'
      BY <1>1, <2>2 DEF Active, At, Ended
    <2>4. \A q \in Operations : ~ (worker'[q].stage \in Alive /\ At(q, "done")')
      <3> SUFFICES ASSUME NEW q \in Operations, worker'[q].stage \in Alive,
                          op'[q].stage = "done"
                   PROVE  FALSE
        BY DEF At
      <3>1. q # o /\ worker[q].stage \in Alive /\ op[q].stage = "done"
        BY <1>1
      <3>2. client = q \/ Stopped(q)
        BY <2>1, <3>1 DEF InTurn, At
      <3>3. Stopped(q)
        BY <1>0, <2>1, <3>2
      <3>4. PICK p \in Operations : op[p].stage = "stopping"
        BY <3>3 DEF Stopped, At
      <3> QED BY <2>1, <3>4 DEF InTurn, Active, Ended
    <2> QED BY <2>1, <2>2, <2>3, <2>4 DEF InTurn
  <1> QED BY <1>1, <1>2 DEF IInv, Around

\* The same, where the operation had no worker that is alive and gets none.
LEMMA OneDecides ==
  ASSUME IInv, Around, UNCHANGED <<client, worker>>, NEW o \in Operations,
         op[o].stage \notin Ended \cup {"starting", "stopping", "bootstrap"},
         NEW r \in OpRecord, op' = [op EXCEPT ![o] = r],
         r.stage \notin {"unused", "starting", "stopping", "done"},
         r.stage \notin Ended => r.heads = op[o].heads,
         Follows(r)
  PROVE  IInv'
  <1>1. worker' = [worker EXCEPT ![o] = worker[o]] /\ worker[o] \in WorkerRecord
    BY DEF IInv, TypeInv
  <1>2. Belongs(r, worker[o])
    BY NotAlive DEF IInv, EachOperation, Ended
  <1>3. Becomes(o, r, worker[o])
    BY <1>1 DEF Becomes
  <1>4. op[o].stage \notin Ended \cup {"starting", "stopping"}
    OBVIOUS
  <1> QED BY <1>1, <1>2, <1>3, <1>4, OneGoesOn

\* An operation whose worker has not been created.
Deciding == {"resolve", "workspace", "hub", "initialize", "github", "prompt", "download",
             "read", "create"}

LEMMA EndsStep ==
  ASSUME IInv, Around, UNCHANGED <<client, worker>>, NEW o \in Operations,
         op[o].stage \in Deciding, Ends(o)
  PROVE  IInv'
  BY NewRecords, OverFollows, OneDecides DEF Ends, Deciding, Ended

LEMMA UsesStep ==
  ASSUME IInv, Around, UNCHANGED <<client, worker>>, NEW o \in Operations,
         op[o].stage \in Deciding, NEW index \in Indices, Uses(o, index),
         op[o].exact => index = op[o].wanted,
         index \in Commits /\ ~ op[o].exact /\ op[o].told =>
            \E c \in op[o].heads : index \in Range(History[c])
  PROVE  IInv'
  <1> DEFINE r == [op[o] EXCEPT !.stage = "read", !.index = index]
  <1>1. op[o] \in OpRecord /\ op \in [Operations -> OpRecord]
    BY DEF IInv, TypeInv
  <1>2. /\ r \in OpRecord /\ r.stage = "read" /\ r.index = index /\ r.heads = op[o].heads
        /\ r.exact = op[o].exact /\ r.told = op[o].told /\ r.wanted = op[o].wanted
    BY <1>1 DEF OpRecord, Stages, Decided
  <1>3. op' = [op EXCEPT ![o] = r]
    BY <1>1 DEF Uses
  <1> HIDE DEF r
  <1>4. Follows(r)
    BY <1>2 DEF Follows, Undecided, Decided
  <1>5. op[o].stage \notin Ended \cup {"starting", "stopping", "bootstrap"}
    BY DEF Deciding, Ended
  <1> QED BY <1>2, <1>3, <1>4, <1>5, OneDecides

LEMMA GoesStep ==
  ASSUME IInv, Around, UNCHANGED <<client, worker>>, NEW o \in Operations,
         op[o].stage \in Undecided \ {"stopping"},
         NEW stage \in {"workspace", "hub", "initialize", "github"}, Goes(o, stage)
  PROVE  IInv'
  <1> DEFINE r == [op[o] EXCEPT !.stage = stage]
  <1>1. op[o] \in OpRecord /\ op \in [Operations -> OpRecord] /\ Follows(op[o])
    BY DEF IInv, TypeInv, EachOperation
  <1>2. /\ r \in OpRecord /\ r.stage = stage /\ r.heads = op[o].heads
        /\ r.exact = op[o].exact /\ r.told = op[o].told
    BY <1>1 DEF OpRecord, Stages, Undecided
  <1>3. op' = [op EXCEPT ![o] = r]
    BY <1>1 DEF Goes
  <1> HIDE DEF r
  <1>4. Follows(r)
    BY <1>1, <1>2 DEF Follows, Undecided, Decided
  <1>5. op[o].stage \notin Ended \cup {"starting", "stopping", "bootstrap"}
    BY DEF Undecided, Ended
  <1> QED BY <1>2, <1>3, <1>4, <1>5, OneDecides

\* A commit is wanted: one that was configured or entered, or a head that the
\* operation has seen.
LEMMA WantsStep ==
  ASSUME IInv, Around, UNCHANGED <<client, worker>>, NEW o \in Operations,
         op[o].stage \in Deciding,
         NEW commit \in Commits, NEW exact \in BOOLEAN, NEW told \in BOOLEAN,
         op' = [op EXCEPT ![o].stage = "download", ![o].wanted = commit,
                          ![o].exact = exact, ![o].told = told],
         exact \/ ~ told \/ commit \in op[o].heads
  PROVE  IInv'
  <1> DEFINE r == [op[o] EXCEPT !.stage = "download", !.wanted = commit,
                                !.exact = exact, !.told = told]
  <1>1. op[o] \in OpRecord /\ op \in [Operations -> OpRecord]
    BY DEF IInv, TypeInv
  <1>2. /\ r \in OpRecord /\ r.stage = "download" /\ r.heads = op[o].heads
        /\ r.wanted = commit /\ r.exact = exact /\ r.told = told
    BY <1>1 DEF OpRecord, Stages
  <1>3. op' = [op EXCEPT ![o] = r]
    BY <1>1
  <1> HIDE DEF r
  <1>4. Follows(r)
    BY <1>2 DEF Follows, Undecided, Decided
  <1>5. op[o].stage \notin Ended \cup {"starting", "stopping", "bootstrap"}
    BY DEF Deciding, Ended
  <1> QED BY <1>2, <1>3, <1>4, <1>5, OneDecides

\* Wants leaves exact and told as they are.
LEMMA WantsFields ==
  ASSUME IInv, NEW o \in Operations, NEW commit, Wants(o, commit)
  PROVE  op' = [op EXCEPT ![o].stage = "download", ![o].wanted = commit,
                          ![o].exact = op[o].exact, ![o].told = op[o].told]
  <1>1. op[o] \in OpRecord /\ op \in [Operations -> OpRecord]
    BY DEF IInv, TypeInv
  <1>2. [op[o] EXCEPT !.stage = "download", !.wanted = commit]
          = [op[o] EXCEPT !.stage = "download", !.wanted = commit,
                          !.exact = op[o].exact, !.told = op[o].told]
    BY <1>1 DEF OpRecord
  <1> QED BY <1>1, <1>2 DEF Wants

LEMMA UndetectedStep ==
  ASSUME IInv, Around, UNCHANGED <<client, worker>>, NEW o \in Operations,
         At(o, "github"), Undetected(o)
  PROVE  IInv'
  <1>1. /\ op[o] \in OpRecord /\ op \in [Operations -> OpRecord] /\ Follows(op[o])
        /\ remembered \in Commits \cup {NoCommit}
    BY DEF IInv, TypeInv, EachOperation
  <1> DEFINE stage == IF remembered = NoCommit THEN "prompt" ELSE "download"
             r == [op[o] EXCEPT !.stage = stage, !.wanted = remembered, !.told = FALSE]
  <1>2. /\ r \in OpRecord /\ r.stage = stage /\ r.heads = op[o].heads
        /\ r.wanted = remembered /\ r.exact = op[o].exact /\ ~ r.told
    BY <1>1 DEF OpRecord, Stages
  <1>3. op' = [op EXCEPT ![o] = r]
    BY <1>1 DEF Undetected
  <1>4. stage \in {"prompt", "download"} /\ (stage = "download" => remembered \in Commits)
    BY <1>1
  <1> HIDE DEF r, stage
  <1>5. ~ op[o].exact
    BY <1>1 DEF At, Follows, Undecided
  <1>6. Follows(r)
    BY <1>2, <1>4, <1>5 DEF Follows, Undecided, Decided
  <1>7. op[o].stage \notin Ended \cup {"starting", "stopping", "bootstrap"}
    BY DEF At, Ended
  <1> QED BY <1>2, <1>3, <1>4, <1>6, <1>7, OneDecides

LEMMA DecisionStep ==
  ASSUME IInv, NEW o \in Operations,
         \/ ResolveConfigured(o) \/ ResolveInWorkspace(o) \/ DetectRemoteHub(o)
         \/ InitializeWorkspace(o) \/ DetectGitHub(o) \/ PromptAnswered(o)
         \/ ResolveDownloaded(o) \/ ReadIndex(o) \/ StartFails(o)
  PROVE  IInv'
  <1>0. /\ op[o] \in OpRecord /\ op \in [Operations -> OpRecord] /\ Follows(op[o])
        /\ TypeInv /\ (op[o].stage \notin Ended => head \in op[o].heads)
    BY DEF IInv, TypeInv, EachOperation
  <1>a. /\ UNCHANGED <<outside, overlapped, budget>> => Around
        /\ UNCHANGED <<head, open, setting, remembered, overlapped, budget>> => Around
        /\ UNCHANGED <<outside, overlapped>> => (Spend("faults") => Around)
    BY <1>0, SpendFault DEF Around, TypeInv, outside
  <1>1. CASE ResolveConfigured(o)
    <2>1. Around /\ UNCHANGED <<client, worker>> /\ op[o].stage = "resolve"
      BY <1>1, <1>a DEF ResolveConfigured, At
    <2>2. CASE Uses(o, ConfiguredIndex)
      <3>1. ConfiguredIndex \in Indices /\ ConfiguredIndex \notin Commits /\ ~ op[o].exact
        BY <1>0, <2>1, Constants DEF Indices, Follows, Undecided
      <3> QED BY <2>1, <2>2, <3>1, UsesStep DEF Deciding
    <2>3. CASE Ends(o)
      BY <2>1, <2>3, EndsStep DEF Deciding
    <2>4. CASE Goes(o, "workspace")
      BY <2>1, <2>4, GoesStep DEF Undecided
    <2> QED BY <1>1, <2>2, <2>3, <2>4 DEF ResolveConfigured
  <1>2. CASE ResolveInWorkspace(o)
    <2>1. Around /\ UNCHANGED <<client, worker>> /\ op[o].stage = "workspace"
      BY <1>2, <1>a DEF ResolveInWorkspace, At
    <2>2. CASE Uses(o, WorkspaceIndex)
      <3>1. WorkspaceIndex \in Indices /\ WorkspaceIndex \notin Commits /\ ~ op[o].exact
        BY <1>0, <2>1, Constants DEF Indices, Follows, Undecided
      <3> QED BY <2>1, <2>2, <3>1, UsesStep DEF Deciding
    <2>3. CASE Ends(o)
      BY <2>1, <2>3, EndsStep DEF Deciding
    <2>4. CASE setting.commit # Automatic
               /\ op' = [op EXCEPT ![o].stage = "download", ![o].wanted = setting.commit,
                                   ![o].exact = TRUE]
      <3>1. setting.commit \in Commits
        BY <1>0, <2>4 DEF TypeInv
      <3>2. [op[o] EXCEPT !.stage = "download", !.wanted = setting.commit, !.exact = TRUE]
              = [op[o] EXCEPT !.stage = "download", !.wanted = setting.commit,
                              !.exact = TRUE, !.told = op[o].told]
        BY <1>0 DEF OpRecord
      <3>3. /\ op' = [op EXCEPT ![o].stage = "download", ![o].wanted = setting.commit,
                                ![o].exact = TRUE, ![o].told = op[o].told]
            /\ op[o].told \in BOOLEAN
        BY <1>0, <2>4, <3>2 DEF OpRecord
      <3> QED BY <2>1, <3>1, <3>3, WantsStep DEF Deciding
    <2>5. CASE Goes(o, "hub")
      BY <2>1, <2>5, GoesStep DEF Undecided
    <2> QED BY <1>2, <2>2, <2>3, <2>4, <2>5 DEF ResolveInWorkspace
  <1>b. ASSUME Wants(o, head), Around, UNCHANGED <<client, worker>>,
               op[o].stage \in {"hub", "initialize", "github"}
        PROVE  IInv'
    <2>1. /\ op[o].exact \in BOOLEAN /\ op[o].told \in BOOLEAN /\ head \in Commits
          /\ head \in op[o].heads
      BY <1>0, <1>b DEF OpRecord, TypeInv, Ended
    <2>2. op' = [op EXCEPT ![o].stage = "download", ![o].wanted = head,
                           ![o].exact = op[o].exact, ![o].told = op[o].told]
      BY <1>b, WantsFields
    <2>3. op[o].stage \in Deciding
      BY <1>b DEF Deciding
    <2> QED BY <1>b, <2>1, <2>2, <2>3, WantsStep
  <1>3. CASE DetectRemoteHub(o)
    <2>1. Around /\ UNCHANGED <<client, worker>> /\ op[o].stage = "hub"
      BY <1>3, <1>a DEF DetectRemoteHub, At
    <2>2. Wants(o, head) \/ Goes(o, "initialize") \/ Goes(o, "github")
      BY <1>3 DEF DetectRemoteHub
    <2> QED BY <1>b, <2>1, <2>2, GoesStep DEF Undecided
  <1>4. CASE InitializeWorkspace(o)
    <2>1. Around /\ UNCHANGED <<client, worker>> /\ op[o].stage = "initialize"
      BY <1>4, <1>a DEF InitializeWorkspace, At
    <2>2. Wants(o, head) \/ Goes(o, "github")
      BY <1>4 DEF InitializeWorkspace
    <2> QED BY <1>b, <2>1, <2>2, GoesStep DEF Undecided
  <1>5. CASE DetectGitHub(o)
    <2>1. Around /\ UNCHANGED <<client, worker>> /\ op[o].stage = "github"
      BY <1>5, <1>a DEF DetectGitHub, At, Spend
    <2>2. Wants(o, head) \/ Undetected(o)
      BY <1>5 DEF DetectGitHub
    <2> QED BY <1>b, <2>1, <2>2, UndetectedStep DEF At
  <1>6. CASE PromptAnswered(o)
    <2>1. /\ UNCHANGED <<client, worker>> /\ op[o].stage = "prompt"
          /\ UNCHANGED <<head, open, setting, overlapped, budget>>
      BY <1>6 DEF PromptAnswered, At
    <2>2. ASSUME NEW commit \in Commits, remembered' = commit, Wants(o, commit)
          PROVE  IInv'
      <3>1. Around
        BY <1>0, <2>1, <2>2 DEF Around, TypeInv
      <3>2. op[o].exact \in BOOLEAN /\ op[o].told \in BOOLEAN /\ ~ op[o].told
        BY <1>0, <2>1 DEF OpRecord, Follows
      <3>3. op' = [op EXCEPT ![o].stage = "download", ![o].wanted = commit,
                             ![o].exact = op[o].exact, ![o].told = op[o].told]
        BY <2>2, WantsFields
      <3>4. op[o].stage \in Deciding
        BY <2>1 DEF Deciding
      <3> QED BY <2>1, <2>2, <3>1, <3>2, <3>3, <3>4, WantsStep
    <2>3. CASE UNCHANGED remembered /\ Ends(o)
      BY <1>a, <2>1, <2>3, EndsStep DEF Deciding
    <2> QED BY <1>6, <2>2, <2>3 DEF PromptAnswered
  <1>7. CASE ResolveDownloaded(o)
    <2>1. Around /\ UNCHANGED <<client, worker>> /\ op[o].stage = "download"
      BY <1>7, <1>a DEF ResolveDownloaded, At
    <2>2. CASE Ends(o)
      BY <2>1, <2>2, EndsStep DEF Deciding
    <2>3. ASSUME NEW index \in DownloadedIndices(o), Uses(o, index)
          PROVE  IInv'
      <3>1. op[o].wanted \in Commits
              /\ (op[o].exact \/ ~ op[o].told \/ op[o].wanted \in op[o].heads)
        BY <1>0, <2>1 DEF Follows
      <3>2. index \in Commits
        BY <2>3, <3>1, WebExtensionAssumption DEF DownloadedIndices
      <3>3. op[o].exact => index = op[o].wanted
        BY <2>3 DEF DownloadedIndices
      <3>4. ~ op[o].exact /\ op[o].told =>
               \E c \in op[o].heads : index \in Range(History[c])
        BY <2>3, <3>1 DEF DownloadedIndices
      <3> QED BY <2>1, <2>3, <3>2, <3>3, <3>4, UsesStep DEF Deciding, Indices
    <2> QED BY <1>7, <2>2, <2>3 DEF ResolveDownloaded
  <1>8. CASE ReadIndex(o)
    <2>1. Around /\ UNCHANGED <<client, worker>> /\ op[o].stage = "read"
      BY <1>8, <1>a DEF ReadIndex, At
    <2> DEFINE r == [op[o] EXCEPT !.stage = "create"]
    <2>2. /\ r \in OpRecord /\ r.stage = "create" /\ r.index = op[o].index
          /\ r.heads = op[o].heads /\ r.exact = op[o].exact /\ r.told = op[o].told
          /\ r.wanted = op[o].wanted
      BY <1>0 DEF OpRecord, Stages, Decided
    <2>3. op' = [op EXCEPT ![o] = r]
      BY <1>0, <1>8 DEF ReadIndex, Goes
    <2> HIDE DEF r
    <2>4. Follows(r)
      BY <1>0, <2>1, <2>2 DEF Follows, Undecided, Decided
    <2>5. op[o].stage \notin Ended \cup {"starting", "stopping", "bootstrap"}
      BY <2>1 DEF Ended
    <2> QED BY <2>1, <2>2, <2>3, <2>4, <2>5, OneDecides
  <1>9. CASE StartFails(o)
    BY <1>9, <1>a, EndsStep DEF StartFails, Deciding
  <1> QED BY <1>1, <1>2, <1>3, <1>4, <1>5, <1>6, <1>7, <1>8, <1>9

-----------------------------------------------------------------------------
(***************************************************************************)
(* The worker's start                                                      *)
(***************************************************************************)
LEMMA AroundUnchanged ==
  ASSUME IInv
  PROVE  /\ UNCHANGED <<outside, overlapped, budget>> => Around
         /\ UNCHANGED <<outside, overlapped>> => (Spend("faults") => Around)
  BY SpendFault DEF IInv, Around, TypeInv, outside

LEMMA CreateStep ==
  ASSUME IInv, NEW o \in Operations, CreateWorker(o)
  PROVE  IInv'
  <1>1. /\ op[o] \in OpRecord /\ op \in [Operations -> OpRecord] /\ Follows(op[o])
        /\ worker[o] \in WorkerRecord /\ worker \in [Operations -> WorkerRecord]
        /\ Belongs(op[o], worker[o]) /\ op[o].stage = "create" /\ UNCHANGED client
    BY DEF IInv, TypeInv, EachOperation, CreateWorker, At
  <1> DEFINE r == [op[o] EXCEPT !.stage = "bootstrap"]
             w == [worker[o] EXCEPT !.stage = "loading", !.index = op[o].index]
  <1>2. /\ r \in OpRecord /\ r.stage = "bootstrap" /\ r.index = op[o].index
        /\ r.heads = op[o].heads /\ r.exact = op[o].exact /\ r.told = op[o].told
        /\ r.wanted = op[o].wanted
    BY <1>1 DEF OpRecord, Stages, Decided
  <1>3. /\ w \in WorkerRecord /\ w.stage = "loading" /\ w.index = op[o].index
        /\ w.posted = worker[o].posted
    BY <1>1 DEF OpRecord, WorkerRecord, Alive
  <1>4. Becomes(o, r, w) /\ Around
    BY <1>1, AroundUnchanged DEF CreateWorker, Goes, Becomes
  <1> HIDE DEF r, w
  <1>5. Follows(r)
    BY <1>1, <1>2 DEF Follows, Undecided, Decided
  <1>6. Belongs(r, w)
    BY <1>1, <1>2, <1>3 DEF Belongs, Alive
  <1>7. op[o].stage \notin Ended \cup {"starting", "stopping"}
    BY <1>1 DEF Ended
  <1> QED BY <1>1, <1>2, <1>3, <1>4, <1>5, <1>6, <1>7, OneGoesOn

LEMMA BootstrapEnds ==
  ASSUME IInv, NEW o \in Operations, BootstrapError(o) \/ BootstrapTimesOut(o)
  PROVE  IInv'
  <1> DEFINE w == [NewWorker EXCEPT !.stage = "terminated"]
  <1>1. /\ w \in WorkerRecord /\ Belongs(OverOp, w) /\ worker' = [worker EXCEPT ![o] = w]
    BY DisposedBelongs DEF BootstrapError, BootstrapTimesOut, IInv
  <1>2. /\ op[o].stage = "bootstrap" /\ UNCHANGED client /\ Around
        /\ op' = [op EXCEPT ![o] = OverOp]
    BY AroundUnchanged DEF BootstrapError, BootstrapTimesOut, At, Ends
  <1>3. Becomes(o, OverOp, w)
    BY <1>1, <1>2 DEF Becomes
  <1> HIDE DEF w
  <1> QED BY <1>1, <1>2, <1>3, NewRecords, OverFollows, OneGoesOn DEF Ended

\* The worker has loaded its index, or will never answer.
LEMMA WorkerStep ==
  ASSUME IInv, NEW o \in Operations, WorkerLoads(o) \/ WorkerFails(o)
  PROVE  IInv'
  <1>1. /\ op \in [Operations -> OpRecord] /\ worker \in [Operations -> WorkerRecord]
        /\ Follows(op[o]) /\ Belongs(op[o], worker[o]) /\ worker[o] \in WorkerRecord
        /\ worker[o].stage = "loading" /\ UNCHANGED <<client, op>> /\ Around
    BY AroundUnchanged DEF IInv, TypeInv, EachOperation, WorkerLoads, WorkerFails
  <1>2. PICK w \in WorkerRecord :
          /\ worker' = [worker EXCEPT ![o] = w] /\ w.index = worker[o].index
          /\ w.stage \in {"ready", "silent"}
          /\ "ready" \in w.posted => w.stage = "ready" \/ "ready" \in worker[o].posted
    <2>1. CASE WorkerLoads(o)
      <3> DEFINE w == [worker[o] EXCEPT !.stage = "ready", !.posted = @ \cup {"ready"}]
      <3>1. /\ w \in WorkerRecord /\ w.index = worker[o].index /\ w.stage = "ready"
        BY <1>1 DEF WorkerRecord, Alive
      <3>2. worker' = [worker EXCEPT ![o] = w]
        BY <1>1, <2>1 DEF WorkerLoads
      <3> HIDE DEF w
      <3> QED BY <3>1, <3>2
    <2>2. CASE WorkerFails(o)
      <3>1. PICK posted \in {{"error"}, {}} :
              worker' = [worker EXCEPT ![o].stage = "silent",
                                       ![o].posted = @ \cup posted]
        BY <2>2 DEF WorkerFails
      <3> DEFINE w == [worker[o] EXCEPT !.stage = "silent", !.posted = @ \cup posted]
      <3>2. /\ w \in WorkerRecord /\ w.index = worker[o].index /\ w.stage = "silent"
            /\ w.posted = worker[o].posted \cup posted
        BY <1>1 DEF WorkerRecord, Alive
      <3>3. worker' = [worker EXCEPT ![o] = w]
        BY <1>1, <3>1
      <3> HIDE DEF w
      <3> QED BY <3>2, <3>3
    <2> QED BY <2>1, <2>2
  <1>3. Belongs(op[o], w) /\ op[o].stage \in {"bootstrap", "starting", "done"}
          /\ worker[o].stage # "ready"
    BY <1>1, <1>2 DEF Belongs, Alive
  <1>4. Becomes(o, op[o], w) /\ op[o] \in OpRecord
    BY <1>1, <1>2 DEF Becomes
  <1>5. op[o].stage \notin Ended => head \in op[o].heads
    BY DEF IInv, EachOperation
  <1>6. /\ TypeInv' /\ Numbered' /\ EachOperation' /\ Begun' /\ Shut'
        /\ \A q \in Operations : worker'[q] = IF q = o THEN w ELSE worker[q]
    BY <1>1, <1>2, <1>3, <1>4, <1>5, OneChanges
  <1>7. ASSUME ~ overlapped PROVE InTurn'
    <2>1. InTurn /\ client # o
      BY <1>3, <1>7, Constants DEF IInv, InTurn
    <2>2. client # NoClient => worker'[client].stage = "ready"
      BY <1>6, <2>1 DEF InTurn, IInv, TypeInv
    <2>3. \A q \in Operations : worker'[q].stage \in Alive => worker[q].stage \in Alive
      BY <1>1, <1>6 DEF Alive
    <2> QED BY <1>1, <2>1, <2>2, <2>3 DEF InTurn, Active, At, Stopped
  <1> QED BY <1>6, <1>7 DEF IInv, Around, TypeInv, outside, WorkerLoads, WorkerFails

\* The client is made: it is the operation's own.
LEMMA ReadyStep ==
  ASSUME IInv, NEW o \in Operations, BootstrapReady(o)
  PROVE  IInv'
  <1>1. /\ op[o] \in OpRecord /\ op \in [Operations -> OpRecord] /\ Follows(op[o])
        /\ worker[o] \in WorkerRecord /\ worker \in [Operations -> WorkerRecord]
        /\ Belongs(op[o], worker[o]) /\ op[o].stage = "bootstrap" /\ client' = o
        /\ worker[o].stage = "ready" /\ head \in op[o].heads
    BY DEF IInv, TypeInv, EachOperation, BootstrapReady, At, Belongs, Ended
  <1> DEFINE r == [op[o] EXCEPT !.stage = "starting"]
             w == [worker[o] EXCEPT !.posted = {}]
  <1>2. /\ r \in OpRecord /\ r.stage = "starting" /\ r.index = op[o].index
        /\ r.heads = op[o].heads /\ r.exact = op[o].exact /\ r.told = op[o].told
        /\ r.wanted = op[o].wanted
    BY <1>1 DEF OpRecord, Stages, Decided
  <1>3. /\ w \in WorkerRecord /\ w.stage = "ready" /\ w.index = worker[o].index
        /\ w.posted = {}
    BY <1>1 DEF WorkerRecord
  <1>4. Becomes(o, r, w) /\ Around
    BY <1>1, AroundUnchanged DEF BootstrapReady, Goes, Becomes
  <1> HIDE DEF r, w
  <1>5. Follows(r)
    BY <1>1, <1>2 DEF Follows, Undecided, Decided
  <1>6. Belongs(r, w)
    BY <1>1, <1>2, <1>3 DEF Belongs, Alive
  <1>7. /\ TypeInv' /\ Numbered' /\ EachOperation' /\ Begun' /\ Shut'
        /\ \A q \in Operations : op'[q] = IF q = o THEN r ELSE op[q]
        /\ \A q \in Operations : worker'[q] = IF q = o THEN w ELSE worker[q]
    BY <1>1, <1>2, <1>3, <1>4, <1>5, <1>6, OneChanges
  <1>8. ASSUME ~ overlapped PROVE InTurn'
    <2>0. Active(o) /\ InTurn
      BY <1>1, <1>8 DEF Active, Ended, IInv
    <2>1. InTurn /\ client = NoClient /\ NoClient \notin Operations
      BY <1>1, <2>0, Constants DEF InTurn, At
    <2>2. \A q \in Operations : Active(q)' => q = o
      BY <1>7, <2>0 DEF InTurn, Active
    <2>3. \A q \in Operations : ~ At(q, "stopping")
      BY <1>1, <2>0 DEF InTurn, Active, At, Ended
    <2>4. \A q \in Operations : ~ (worker[q].stage \in Alive /\ At(q, "done"))
      BY <2>1, <2>3 DEF InTurn, Stopped
    <2> QED BY <1>1, <1>2, <1>3, <1>7, <2>1, <2>2, <2>3, <2>4 DEF InTurn, At, Active
  <1> QED BY <1>4, <1>7, <1>8 DEF IInv, Around

LEMMA ClientStep ==
  ASSUME IInv, NEW o \in Operations, ClientStarts(o) \/ ClientFails(o)
  PROVE  IInv'
  <1>1. /\ op[o] \in OpRecord /\ op \in [Operations -> OpRecord]
        /\ worker[o] \in WorkerRecord /\ worker \in [Operations -> WorkerRecord]
        /\ Belongs(op[o], worker[o]) /\ op[o].stage = "starting"
        /\ worker[o].stage = "ready"
    BY DEF IInv, TypeInv, EachOperation, ClientStarts, ClientFails, At
  <1>0. ~ overlapped => /\ InTurn /\ client = o /\ NoClient \notin Operations
                        /\ \A q \in Operations : Active(q) => q = o
                        /\ \A q \in Operations : ~ At(q, "stopping")
    <2>1. Active(o)
      BY <1>1 DEF Active, Ended
    <2> QED BY <1>1, <2>1, Constants DEF IInv, InTurn, At, Active, Ended
  <1>2. CASE ClientStarts(o)
    <2> DEFINE r == [NewOp EXCEPT !.stage = "done"]
    <2>1. r \in OpRecord /\ r.stage = "done"
      BY DEF NewOp, OpRecord, Stages, Ended, Indices
    <2>2. Becomes(o, r, worker[o]) /\ UNCHANGED client /\ Around
      BY <1>1, <1>2, AroundUnchanged DEF ClientStarts, Becomes
    <2> HIDE DEF r
    <2>3. Follows(r) /\ Belongs(r, worker[o])
      BY <1>1, <2>1 DEF Follows, Belongs, Undecided, Decided
    <2>4. /\ TypeInv' /\ Numbered' /\ EachOperation' /\ Begun' /\ Shut'
          /\ \A q \in Operations : op'[q] = IF q = o THEN r ELSE op[q]
          /\ \A q \in Operations : worker'[q] = IF q = o THEN worker[o] ELSE worker[q]
      BY <1>1, <2>1, <2>2, <2>3, OneChanges DEF Ended
    <2>5. ASSUME ~ overlapped PROVE InTurn'
      <3>1. \A q \in Operations : ~ Active(q)' /\ ~ At(q, "stopping")'
        BY <1>0, <2>1, <2>4, <2>5 DEF Active, At, Ended
      <3>2. \A q \in Operations :
               worker'[q].stage \in Alive /\ op'[q].stage = "done" => client = q
        BY <1>0, <2>4, <2>5 DEF InTurn, Stopped, At
      <3>3. op'[client].stage = "done" /\ worker'[client].stage = "ready"
        BY <1>0, <1>1, <2>1, <2>4, <2>5
      <3> QED BY <2>2, <3>1, <3>2, <3>3 DEF InTurn, At
    <2> QED BY <2>2, <2>4, <2>5 DEF IInv, Around
  <1>3. CASE ClientFails(o)
    <2> DEFINE w == [NewWorker EXCEPT !.stage = "terminated"]
    <2>1. /\ w \in WorkerRecord /\ w.stage \notin Alive
          /\ Belongs(OverOp, w) /\ worker' = [worker EXCEPT ![o] = w]
      BY <1>3, DisposedBelongs DEF ClientFails, IInv
    <2>2. op' = [op EXCEPT ![o] = OverOp] /\ client' = NoClient /\ Around
      BY <1>3, AroundUnchanged DEF ClientFails, Ends
    <2>0. Becomes(o, OverOp, w)
      BY <2>1, <2>2 DEF Becomes
    <2> HIDE DEF w
    <2>3. /\ TypeInv' /\ Numbered' /\ EachOperation' /\ Begun' /\ Shut'
          /\ \A q \in Operations : op'[q] = IF q = o THEN OverOp ELSE op[q]
          /\ \A q \in Operations : worker'[q] = IF q = o THEN w ELSE worker[q]
      BY <1>1, <2>0, <2>1, <2>2, NewRecords, OverFollows, OneChanges DEF Ended
    <2>4. ASSUME ~ overlapped PROVE InTurn'
      <3>1. \A q \in Operations : ~ Active(q)' /\ ~ At(q, "stopping")'
        BY <1>0, <2>3, <2>4, NewRecords DEF Active, At, Ended
      <3>2. \A q \in Operations : ~ (worker'[q].stage \in Alive /\ op'[q].stage = "done")
        BY <1>0, <2>1, <2>3, <2>4, NewRecords DEF InTurn, Stopped, At
      <3> QED BY <2>2, <3>1, <3>2 DEF InTurn, At
    <2> QED BY <2>2, <2>3, <2>4 DEF IInv, Around
  <1> QED BY <1>2, <1>3

-----------------------------------------------------------------------------
(***************************************************************************)
(* Commands                                                                *)
(***************************************************************************)
\* The worker is disposed of, whether its server could be stopped or not.
LEMMA StopStep ==
  ASSUME IInv, NEW o \in Operations, ServerStops(o) \/ StopFails(o)
  PROVE  IInv'
  <1> DEFINE q == op[o].stopping
             w == [NewWorker EXCEPT !.stage = "terminated"]
  <1>1. /\ op[o] \in OpRecord /\ op \in [Operations -> OpRecord] /\ Follows(op[o])
        /\ worker \in [Operations -> WorkerRecord] /\ Belongs(op[o], worker[o])
        /\ op[o].stage = "stopping" /\ head \in op[o].heads
        /\ q \in Operations \ {o} /\ ~ At(q, "unused") /\ UNCHANGED client
    BY DEF IInv, TypeInv, EachOperation, ServerStops, StopFails, At, Ended
  <1>2. /\ w \in WorkerRecord /\ w.stage \notin Alive /\ \A r : Belongs(r, w)
        /\ \A p \in Operations : worker'[p] = IF p = q THEN w ELSE worker[p]
        /\ worker' \in [Operations -> WorkerRecord]
    <2>1. worker' = Disposed(q)
      BY DEF ServerStops, StopFails
    <2>2. TypeInv /\ q \in Operations
      BY <1>1 DEF IInv
    <2> HIDE DEF q
    <2> QED BY <2>1, <2>2, DisposedBelongs
  <1> HIDE DEF w
  <1>3. PICK r \in OpRecord :
          /\ r.stage \in {"resolve", "over"} /\ Follows(r)
          /\ r.stage \notin Ended => head \in r.heads
          /\ op' = [op EXCEPT ![o] = r, ![q] = OverOp]
    <2>1. CASE ServerStops(o)
      <3> DEFINE r == [op[o] EXCEPT !.stage = "resolve", !.stopping = NoClient]
      <3>1. /\ r \in OpRecord /\ r.stage = "resolve" /\ r.heads = op[o].heads
            /\ r.exact = op[o].exact /\ r.told = op[o].told
        BY <1>1 DEF OpRecord, Stages, Undecided
      <3>2. op' = [op EXCEPT ![o] = r, ![q] = OverOp]
        BY <1>1, <2>1 DEF ServerStops
      <3> HIDE DEF r
      <3>3. Follows(r)
        BY <1>1, <3>1 DEF Follows, Undecided, Decided
      <3> QED BY <1>1, <3>1, <3>2, <3>3
    <2>2. CASE StopFails(o)
      BY <1>1, <2>2, NewRecords, OverFollows DEF StopFails, Ended
    <2> QED BY <2>1, <2>2
  <1>4. /\ \A p \in Operations :
              op'[p] = IF p = q THEN OverOp ELSE IF p = o THEN r ELSE op[p]
        /\ op' \in [Operations -> OpRecord]
    BY <1>1, <1>3, NewRecords
  <1>5. Around
    BY AroundUnchanged DEF ServerStops, StopFails
  <1>6. TypeInv'
    BY <1>1, <1>2, <1>4, <1>5 DEF IInv, TypeInv, Around
  <1>7. \A p \in Operations : At(p, "unused")' <=> At(p, "unused")
    BY <1>1, <1>3, <1>4, NewRecords DEF At
  <1>8. Numbered' /\ Begun' /\ Shut'
    BY <1>1, <1>5, <1>7 DEF IInv, TypeInv, Numbered, Begun, Shut, Around, At
  <1>9. EachOperation'
    <2> SUFFICES ASSUME NEW p \in Operations
                 PROVE  /\ Follows(op'[p]) /\ Belongs(op'[p], worker'[p])
                        /\ op'[p].stage \notin Ended => head \in op'[p].heads
                        /\ op'[p].stage = "stopping" =>
                              /\ op'[p].stopping \in Operations \ {p}
                              /\ op'[op'[p].stopping].stage # "unused"
      BY <1>5 DEF EachOperation, Around, At
    <2>1. CASE p = q
      BY <1>2, <1>4, <2>1, NewRecords, OverFollows DEF Ended
    <2>2. CASE p = o
      BY <1>1, <1>2, <1>3, <1>4, <2>2, NotAlive
    <2>3. CASE p # q /\ p # o
      BY <1>2, <1>4, <1>7, <2>3 DEF IInv, EachOperation, At
    <2> QED BY <2>1, <2>2, <2>3
  <1>10. ASSUME ~ overlapped PROVE InTurn'
    <2>0. Active(o) /\ InTurn
      BY <1>1, <1>10 DEF Active, Ended, IInv
    <2>1. client = NoClient /\ NoClient \notin Operations
      BY <1>1, <2>0, Constants DEF InTurn, At
    <2>2. \A p \in Operations : Active(p)' => p = o
      BY <1>4, <2>0, NewRecords DEF InTurn, Active, Ended
    <2>3. \A p \in Operations : ~ At(p, "stopping")' /\ ~ At(p, "starting")'
      BY <1>3, <1>4, <2>2, NewRecords DEF Active, At, Ended
    <2>4. \A p \in Operations : ~ (worker'[p].stage \in Alive /\ op'[p].stage = "done")
      <3> SUFFICES ASSUME NEW p \in Operations, worker'[p].stage \in Alive,
                          op'[p].stage = "done"
                   PROVE  FALSE
        OBVIOUS
      <3>1. p # q /\ p # o /\ worker[p].stage \in Alive /\ op[p].stage = "done"
        BY <1>2, <1>3, <1>4, NewRecords
      <3>2. Stopped(p)
        BY <2>0, <2>1, <3>1 DEF InTurn, At
      <3>3. PICK other \in Operations : At(other, "stopping") /\ op[other].stopping = p
        BY <3>2 DEF Stopped
      <3>4. other = o
        BY <2>0, <3>3 DEF InTurn, Active, At, Ended
      <3> QED BY <3>1, <3>3, <3>4
    <2> QED BY <1>1, <2>1, <2>2, <2>3, <2>4 DEF InTurn, At, Active
  <1> QED BY <1>5, <1>6, <1>8, <1>9, <1>10 DEF IInv, Around

\* The next operation begins: it resolves, stops what was started, or is over.
LEMMA BeginStep ==
  ASSUME IInv, UNCHANGED head, open',
         setting'.commit \in Commits \cup {Automatic}, UNCHANGED remembered,
         Spend("commands"), overlapped' \in BOOLEAN, ~ overlapped' => ~ overlapped,
         NEW r \in OpRecord, op' = [op EXCEPT ![NextOperation] = r],
         r.stage \in {"resolve", "over", "stopping"}, Follows(r),
         r.heads = {head} \/ r.stage = "over",
         client' = NoClient,
         \/ r.stage = "resolve" /\ client = NoClient /\ UNCHANGED worker
         \/ r.stage = "over" /\ client # NoClient /\ At(client, "starting")
              /\ worker' = Disposed(client)
         \/ /\ r.stage = "stopping" /\ r.stopping = client /\ client # NoClient
            /\ ~ At(client, "starting") /\ UNCHANGED worker,
         ~ overlapped' => \A o \in Operations : ~ Active(o)
  PROVE  IInv'
  <1> DEFINE n == NextOperation
  <1>0. /\ op \in [Operations -> OpRecord] /\ worker \in [Operations -> WorkerRecord]
        /\ NoClient \notin Operations /\ TypeInv /\ Numbered
        /\ client \in Operations \cup {NoClient}
    BY Constants DEF IInv, TypeInv
  <1>1. /\ budget' \in [commands : 0..MaxCommands, moves : Nat, faults : Nat]
        /\ budget.commands \in 1..MaxCommands /\ budget'.commands = budget.commands - 1
    BY <1>0, SpendCommand
  <1>2. /\ n \in Operations /\ op[n].stage = "unused"
        /\ \A o \in Operations :
              o # n => (o > MaxCommands - budget.commands
                          <=> o > MaxCommands - budget'.commands)
        /\ ~ (n > MaxCommands - budget'.commands)
    BY <1>0, <1>1, NextIsFirst DEF At
  <1> HIDE DEF n
  <1>3. /\ \A o \in Operations : op'[o] = IF o = n THEN r ELSE op[o]
        /\ op' \in [Operations -> OpRecord]
    BY <1>0, <1>2 DEF n
  <1>4. /\ worker' \in [Operations -> WorkerRecord]
        /\ \A o \in Operations : \/ worker'[o] = worker[o]
                                 \/ /\ o = client /\ worker'[o].stage \notin Alive
                                    /\ \A any : Belongs(any, worker'[o])
        /\ r.stage = "over" => worker'[client].stage \notin Alive
    <2>1. CASE UNCHANGED worker /\ r.stage # "over"
      BY <1>0, <2>1
    <2>2. CASE client # NoClient /\ worker' = Disposed(client)
      <3> DEFINE w == [NewWorker EXCEPT !.stage = "terminated"]
      <3>1. client \in Operations
        BY <1>0, <2>2
      <3>2. w \in WorkerRecord /\ w.stage \notin Alive /\ \A any : Belongs(any, w)
        BY <1>0, <3>1, DisposedBelongs
      <3>3. worker' = [worker EXCEPT ![client] = w]
        BY <2>2 DEF Disposed
      <3> HIDE DEF w
      <3>4. /\ worker' \in [Operations -> WorkerRecord]
            /\ \A o \in Operations : worker'[o] = IF o = client THEN w ELSE worker[o]
        BY <1>0, <3>1, <3>2, <3>3
      <3> QED BY <3>1, <3>2, <3>4
    <2> QED BY <2>1, <2>2
  <1>5. TypeInv'
    BY <1>0, <1>1, <1>3, <1>4 DEF TypeInv
  <1>6. Numbered' /\ Begun' /\ Shut'
    BY <1>0, <1>2, <1>3 DEF Numbered, Begun, Shut, At
  <1>7. EachOperation'
    <2> SUFFICES ASSUME NEW o \in Operations
                 PROVE  /\ Follows(op'[o]) /\ Belongs(op'[o], worker'[o])
                        /\ op'[o].stage \notin Ended => head \in op'[o].heads
                        /\ op'[o].stage = "stopping" =>
                              /\ op'[o].stopping \in Operations \ {o}
                              /\ op'[op'[o].stopping].stage # "unused"
      BY DEF EachOperation, At
    <2>1. CASE o = n
      <3>1. Belongs(r, worker'[n])
        <4>1. Belongs(op[n], worker[n])
          BY <1>2 DEF IInv, EachOperation
        <4> QED BY <1>2, <1>4, <4>1, NotAlive
      <3>2. r.stage = "stopping" => /\ r.stopping \in Operations \ {n}
                                    /\ op[r.stopping].stage # "unused"
        BY <1>0, <1>2 DEF IInv, Begun, At
      <3> QED BY <1>3, <2>1, <3>1, <3>2 DEF Ended
    <2>2. CASE o # n
      <3>1. /\ Follows(op[o]) /\ Belongs(op[o], worker[o])
            /\ op[o].stage \notin Ended => head \in op[o].heads
            /\ op[o].stage = "stopping" =>
                 /\ op[o].stopping \in Operations \ {o}
                 /\ op[op[o].stopping].stage # "unused"
        BY DEF IInv, EachOperation, At
      <3>2. Belongs(op[o], worker'[o])
        BY <1>4, <3>1
      <3> QED BY <1>2, <1>3, <2>2, <3>1, <3>2
    <2> QED BY <2>1, <2>2
  <1>8. ASSUME ~ overlapped' PROVE InTurn'
    <2>0. InTurn /\ \A o \in Operations : op[o].stage \in Ended
      BY <1>8 DEF IInv, Active
    <2>1. r.stage # "over"
      BY <1>0, <2>0 DEF At, Ended
    <2>2. \A o \in Operations : Active(o)' => o = n
      BY <1>3, <2>0 DEF Active
    <2>3. \A o \in Operations : ~ At(o, "starting")'
      BY <1>3, <2>0 DEF At, Ended
    <2>4. \A o \in Operations : At(o, "stopping")' => op'[op'[o].stopping].stage = "done"
      <3> SUFFICES ASSUME NEW o \in Operations, op'[o].stage = "stopping"
                   PROVE  op'[op'[o].stopping].stage = "done"
        BY DEF At
      <3>1. o = n /\ r.stage = "stopping"
        BY <1>3, <2>0 DEF Ended
      <3>2. r.stopping = client /\ client \in Operations /\ op[client].stage = "done"
        BY <1>0, <2>0, <3>1 DEF InTurn, Ended
      <3> QED BY <1>2, <1>3, <3>1, <3>2
    <2>5. ASSUME NEW o \in Operations, worker'[o].stage \in Alive, op'[o].stage = "done"
          PROVE  Stopped(o)'
      <3>1. o # n /\ worker[o].stage \in Alive /\ op[o].stage = "done"
        BY <1>2, <1>3, <1>4, <2>5
      <3>2. client = o
        BY <2>0, <3>1 DEF InTurn, Stopped, At, Ended
      <3>3. r.stage = "stopping" /\ r.stopping = o
        BY <1>0, <2>1, <3>2
      <3> QED BY <1>2, <1>3, <3>3 DEF Stopped, At
    <2> QED BY <2>2, <2>3, <2>4, <2>5 DEF InTurn, At
  <1> QED BY <1>5, <1>6, <1>7, <1>8 DEF IInv

LEMMA OpenStep ==
  ASSUME IInv, Open
  PROVE  IInv'
  <1> DEFINE r == [NewOp EXCEPT !.stage = "resolve", !.heads = {head}]
  <1>1. /\ TypeInv /\ client = NoClient /\ \A o \in Operations : ~ Active(o)
    BY DEF IInv, Shut, Open, Active, Ended
  <1>2. /\ r \in OpRecord /\ r.stage = "resolve" /\ r.heads = {head}
        /\ ~ r.exact /\ r.told
    BY <1>1 DEF TypeInv, NewOp, OpRecord, Stages, Undecided, Indices
  <1>3. /\ UNCHANGED <<head, setting, remembered, client, worker, overlapped>>
        /\ open' /\ Spend("commands") /\ op' = [op EXCEPT ![NextOperation] = r]
    BY DEF Open
  <1> HIDE DEF r
  <1>4. Follows(r)
    BY <1>2 DEF Follows, Undecided, Decided
  <1>5. setting'.commit \in Commits \cup {Automatic} /\ overlapped' \in BOOLEAN
    BY <1>1, <1>3 DEF TypeInv
  <1> QED BY <1>1, <1>2, <1>3, <1>4, <1>5, BeginStep

LEMMA CommandStep ==
  ASSUME IInv, NEW settings \in Settings, Command(settings)
  PROVE  IInv'
  <1>1. /\ TypeInv /\ client \in Operations \cup {NoClient}
        /\ settings.commit \in Commits \cup {Automatic}
    BY WebExtensionAssumption DEF IInv, TypeInv
  <1>2. /\ UNCHANGED <<head, remembered, open>> /\ open /\ Spend("commands")
        /\ setting' = settings /\ stopClient /\ client' = NoClient
        /\ overlapped' = (overlapped \/ \E o \in Operations : Active(o))
    BY DEF Command, stopClient, Active
  <1>3. overlapped' \in BOOLEAN /\ (~ overlapped' => ~ overlapped)
          /\ (~ overlapped' => \A o \in Operations : ~ Active(o))
    BY <1>1, <1>2 DEF TypeInv
  <1>4. setting'.commit \in Commits \cup {Automatic} /\ open'
    BY <1>1, <1>2
  <1>5. PICK r \in OpRecord :
          /\ op' = [op EXCEPT ![NextOperation] = r]
          /\ r.stage \in {"resolve", "over", "stopping"} /\ Follows(r)
          /\ r.heads = {head} \/ r.stage = "over"
          /\ \/ r.stage = "resolve" /\ client = NoClient /\ UNCHANGED worker
             \/ r.stage = "over" /\ client # NoClient /\ At(client, "starting")
                  /\ worker' = Disposed(client)
             \/ /\ r.stage = "stopping" /\ r.stopping = client /\ client # NoClient
                /\ ~ At(client, "starting") /\ UNCHANGED worker
    <2>1. CASE client = NoClient
      <3> DEFINE r == [[NewOp EXCEPT !.heads = {head}] EXCEPT !.stage = "resolve"]
      <3>1. /\ r \in OpRecord /\ r.stage = "resolve" /\ r.heads = {head}
            /\ ~ r.exact /\ r.told
        BY <1>1 DEF TypeInv, NewOp, OpRecord, Stages, Undecided, Indices
      <3>2. op' = [op EXCEPT ![NextOperation] = r] /\ UNCHANGED worker
        BY <1>2, <2>1 DEF stopClient
      <3> HIDE DEF r
      <3>3. Follows(r)
        BY <3>1 DEF Follows, Undecided, Decided
      <3> QED BY <2>1, <3>1, <3>2, <3>3
    <2>2. CASE client # NoClient /\ At(client, "starting")
      BY <1>2, <2>2, NewRecords, OverFollows DEF stopClient
    <2>3. CASE client # NoClient /\ ~ At(client, "starting")
      <3> DEFINE r == [[NewOp EXCEPT !.heads = {head}] EXCEPT !.stage = "stopping",
                                                              !.stopping = client]
      <3>1. /\ r \in OpRecord /\ r.stage = "stopping" /\ r.heads = {head}
            /\ ~ r.exact /\ r.told /\ r.stopping = client
        BY <1>1 DEF TypeInv, NewOp, OpRecord, Stages, Undecided, Indices
      <3>2. op' = [op EXCEPT ![NextOperation] = r] /\ UNCHANGED worker
        BY <1>2, <2>3 DEF stopClient
      <3> HIDE DEF r
      <3>3. Follows(r)
        BY <3>1 DEF Follows, Undecided, Decided
      <3> QED BY <2>3, <3>1, <3>2, <3>3
    <2> QED BY <2>1, <2>2, <2>3
  <1> QED BY <1>2, <1>3, <1>4, <1>5, BeginStep

LEMMA CloseStep ==
  ASSUME IInv, Close
  PROVE  IInv'
  <1>0. TypeInv /\ Spend("faults")
    BY DEF IInv, Close
  <1>1. /\ \A o \in Operations : op'[o] = IF At(o, "unused") THEN NewOp ELSE OverOp
        /\ \A o \in Operations : worker'[o] = NewWorker
        /\ op' \in [Operations -> OpRecord] /\ worker' \in [Operations -> WorkerRecord]
        /\ client' = NoClient /\ overlapped' = FALSE
        /\ UNCHANGED <<head, setting, remembered>>
    BY NewRecords DEF Close
  <1>2. TypeInv'
    BY <1>0, <1>1, SpendFault DEF TypeInv
  <1>3. \A o \in Operations : /\ op'[o].stage \in {"unused", "over"}
                              /\ op'[o].stage = "unused" <=> At(o, "unused")
    BY <1>1, NewRecords
  <1>4. Numbered' /\ Begun' /\ Shut'
    BY <1>0, <1>1, <1>3, SpendFault DEF IInv, Numbered, Begun, Shut, At
  <1>5. EachOperation'
    BY <1>1, <1>3, NewRecords
       DEF EachOperation, Follows, Belongs, Undecided, Decided, Ended, Alive, At
  <1>6. InTurn'
    BY <1>1, <1>3 DEF InTurn, Active, Ended, At
  <1> QED BY <1>2, <1>4, <1>5, <1>6 DEF IInv

LEMMA MovesStep ==
  ASSUME IInv, Moves
  PROVE  IInv'
  <1>0. TypeInv /\ Spend("moves") /\ op \in [Operations -> OpRecord]
    BY DEF IInv, TypeInv, Moves
  <1>1. PICK commit \in Commits :
          /\ head' = commit
          /\ op' = [o \in Operations |->
                       IF op[o].stage \in Ended THEN op[o]
                       ELSE [op[o] EXCEPT !.heads = @ \cup {commit}]]
    BY DEF Moves
  <1>2. UNCHANGED <<setting, remembered, open, client, worker, overlapped>>
    BY DEF Moves
  <1>3. ASSUME NEW o \in Operations
        PROVE  /\ op'[o] \in OpRecord
               /\ op'[o].stage = op[o].stage /\ op'[o].stopping = op[o].stopping
               /\ op'[o].wanted = op[o].wanted /\ op'[o].exact = op[o].exact
               /\ op'[o].told = op[o].told /\ op'[o].index = op[o].index
               /\ op'[o].heads = IF op[o].stage \in Ended THEN op[o].heads
                                 ELSE op[o].heads \cup {commit}
    <2>1. CASE op[o].stage \in Ended
      BY <1>0, <1>1, <2>1
    <2>2. CASE op[o].stage \notin Ended
      <3>1. op'[o] = [op[o] EXCEPT !.heads = @ \cup {commit}] /\ op[o] \in OpRecord
        BY <1>0, <1>1, <2>2
      <3> QED BY <2>2, <3>1 DEF OpRecord
    <2> QED BY <2>1, <2>2
  <1>4. TypeInv'
    BY <1>0, <1>1, <1>2, <1>3, SpendFault DEF TypeInv
  <1>5. Numbered' /\ Begun' /\ Shut'
    BY <1>0, <1>2, <1>3, SpendFault DEF IInv, TypeInv, Numbered, Begun, Shut, At
  <1>6. EachOperation'
    <2> SUFFICES ASSUME NEW o \in Operations
                 PROVE  /\ Follows(op'[o]) /\ Belongs(op'[o], worker'[o])
                        /\ op'[o].stage \notin Ended => head' \in op'[o].heads
                        /\ op'[o].stage = "stopping" =>
                              /\ op'[o].stopping \in Operations \ {o}
                              /\ op'[op'[o].stopping].stage # "unused"
      BY DEF EachOperation, At
    <2>1. /\ Follows(op[o]) /\ Belongs(op[o], worker[o])
          /\ op[o].stage = "stopping" => /\ op[o].stopping \in Operations \ {o}
                                         /\ op[op[o].stopping].stage # "unused"
      BY DEF IInv, EachOperation, At
    <2>2. Follows(op'[o])
      BY <1>3, <2>1 DEF Follows
    <2>3. Belongs(op'[o], worker'[o])
      BY <1>2, <1>3, <2>1 DEF Belongs
    <2> QED BY <1>1, <1>3, <2>1, <2>2, <2>3
  <1>7. InTurn => InTurn'
    <2> SUFFICES ASSUME InTurn PROVE InTurn'
      OBVIOUS
    <2>1. /\ \A o \in Operations : Active(o)' <=> Active(o)
          /\ \A o \in Operations : Stopped(o)' <=> Stopped(o)
          /\ \A o \in Operations : \A s : At(o, s)' <=> At(o, s)
          /\ \A o \in Operations : op'[o].stage = op[o].stage
                                    /\ op'[o].stopping = op[o].stopping
          /\ client' = client /\ worker' = worker /\ client \in Operations \cup {NoClient}
      BY <1>0, <1>2, <1>3 DEF Active, At, Stopped, TypeInv
    <2>2. (\A o, p \in Operations : Active(o) /\ Active(p) => o = p)'
      BY <2>1 DEF InTurn
    <2>3. (\A o \in Operations : Active(o) =>
               client = IF At(o, "starting") THEN o ELSE NoClient)'
      BY <2>1 DEF InTurn
    <2>4. (client # NoClient =>
               op[client].stage \in {"starting", "done"} /\ worker[client].stage = "ready")'
      BY <2>1 DEF InTurn
    <2>5. ASSUME NEW o \in Operations, op'[o].stage = "stopping"
          PROVE  op'[op'[o].stopping].stage = "done"
      <3>1. op[op[o].stopping].stage = "done" /\ op[o].stopping \in Operations
        BY <2>1, <2>5 DEF InTurn, At, IInv, EachOperation
      <3> QED BY <2>1, <2>5, <3>1
    <2>6. (\A o \in Operations : worker[o].stage \in Alive /\ At(o, "done") =>
               client = o \/ Stopped(o))'
      BY <2>1 DEF InTurn
    <2> QED BY <2>2, <2>3, <2>4, <2>5, <2>6 DEF InTurn, At
  <1> QED BY <1>2, <1>4, <1>5, <1>6, <1>7 DEF IInv

-----------------------------------------------------------------------------
(***************************************************************************)
(* The theorems                                                            *)
(***************************************************************************)
LEMMA Initially == Init => IInv
  <1> SUFFICES ASSUME Init PROVE IInv
    OBVIOUS
  <1>1. TypeInv
    <2>1. budget \in [commands : 0..MaxCommands, moves : Nat, faults : Nat]
      BY Constants DEF Init
    <2>2. /\ op \in [Operations -> OpRecord] /\ worker \in [Operations -> WorkerRecord]
          /\ setting.commit \in Commits \cup {Automatic}
          /\ head \in Commits /\ remembered \in Commits \cup {NoCommit}
          /\ client \in Operations \cup {NoClient} /\ overlapped \in BOOLEAN
      BY NewRecords DEF Init
    <2> QED BY <2>1, <2>2 DEF TypeInv
  <1>2. \A o \in Operations : op[o] = NewOp /\ worker[o] = NewWorker
    BY DEF Init
  <1>3. Numbered
    BY <1>2, NewRecords, Constants DEF Init, Numbered, At, Operations
  <1>4. EachOperation
    BY <1>2, NewRecords
       DEF EachOperation, Follows, Belongs, Undecided, Decided, Ended, Alive, At
  <1>5. InTurn /\ Begun /\ Shut
    BY <1>2, NewRecords DEF Init, InTurn, Begun, Shut, Active, Ended, At
  <1> QED BY <1>1, <1>3, <1>4, <1>5 DEF IInv

LEMMA Stutters == ASSUME IInv, UNCHANGED vars PROVE IInv'
  BY DEF vars, outside, IInv, TypeInv, Numbered, EachOperation, Begun, Shut, InTurn, Active,
         At, Stopped

LEMMA Steps == IInv /\ [Next]_vars => IInv'
  <1> SUFFICES ASSUME IInv, [Next]_vars PROVE IInv'
    OBVIOUS
  <1>1. CASE Open \/ Close \/ Moves
    BY <1>1, OpenStep, CloseStep, MovesStep
  <1>2. ASSUME NEW settings \in Settings, Command(settings) PROVE IInv'
    BY <1>2, CommandStep
  <1>3. ASSUME NEW o \in Operations,
               \/ ServerStops(o) \/ StopFails(o)
               \/ ResolveConfigured(o) \/ ResolveInWorkspace(o) \/ DetectRemoteHub(o)
               \/ InitializeWorkspace(o) \/ DetectGitHub(o) \/ PromptAnswered(o)
               \/ ResolveDownloaded(o) \/ ReadIndex(o) \/ StartFails(o)
               \/ CreateWorker(o) \/ BootstrapError(o) \/ BootstrapTimesOut(o)
               \/ BootstrapReady(o) \/ ClientStarts(o) \/ ClientFails(o)
               \/ WorkerLoads(o) \/ WorkerFails(o)
        PROVE  IInv'
    BY <1>3, StopStep, DecisionStep, CreateStep, BootstrapEnds, ReadyStep, ClientStep,
       WorkerStep
  <1>4. CASE UNCHANGED vars
    BY <1>4, Stutters
  <1> QED BY <1>1, <1>2, <1>3, <1>4 DEF Next, Proceeds

LEMMA Invariance == Spec => []IInv
  BY Initially, Steps, PTL DEF Spec

\* Whichever step of a start or a stop fails or is late: where no command was
\* given before another had ended, a worker is alive only while its operation
\* goes on, or as the one that the next command will stop (startClient,
\* stopClient, bootstrap and the disposal of the worker).
THEOREM OneWorkerIsAlive == Spec => []SoleWorker
  <1>1. IInv => SoleWorker
    <2> SUFFICES ASSUME IInv, ~ overlapped, NEW o \in Operations, worker[o].stage \in Alive
                 PROVE  \/ client = o /\ op[o].stage \in {"starting", "done"}
                        \/ op[o].stage = "bootstrap"
                        \/ Stopped(o)
      BY DEF SoleWorker, Stopped
    <2>1. op[o].stage \in {"bootstrap", "starting", "done"} /\ InTurn
      BY DEF IInv, EachOperation, Belongs
    <2> QED BY <2>1 DEF InTurn, Active, At, Ended
  <1> QED BY <1>1, Invariance, PTL

\* A client that is started talks to a worker that has loaded the index its
\* operation resolved: the commit that was configured, or one in the history of
\* a revision that the workspace was at since the command was given
\* (resolveIndexUri, detectRemoteHubRevision, detectGitHubRevision).
THEOREM WorkspaceIsServed == Spec => []ServesWorkspace
  <1>1. IInv => ServesWorkspace
    <2> SUFFICES ASSUME IInv, NEW o \in Operations
                 PROVE  /\ client = o /\ ~ overlapped => worker[o].stage = "ready"
                        /\ At(o, "starting") /\ worker[o].stage = "ready" =>
                             /\ worker[o].index = op[o].index
                             /\ op[o].exact => op[o].index = op[o].wanted
                             /\ op[o].index \in Commits /\ ~ op[o].exact /\ op[o].told =>
                                  \E c \in op[o].heads : op[o].index \in Range(History[c])
      BY DEF ServesWorkspace
    <2>1. client = o /\ ~ overlapped => worker[o].stage = "ready"
      BY Constants DEF IInv, InTurn
    <2>2. At(o, "starting") /\ worker[o].stage = "ready" =>
             /\ worker[o].index = op[o].index
             /\ op[o].exact => op[o].index = op[o].wanted
             /\ op[o].index \in Commits /\ ~ op[o].exact /\ op[o].told =>
                  \E c \in op[o].heads : op[o].index \in Range(History[c])
      BY DEF IInv, EachOperation, Belongs, Follows, Decided, Alive, At
    <2> QED BY <2>1, <2>2
  <1> QED BY <1>1, Invariance, PTL
=============================================================================
