--------------------------- MODULE HostedIndexing ---------------------------
(***************************************************************************)
(* The hosted Roslyn indexer: a scanner and the finalizers of the indexing  *)
(* runs share one file, index-state.json, on a branch of a GitHub           *)
(* repository.  tools/hosted-indexing/src: cli.ts, state-repository.ts.     *)
(*                                                                         *)
(* Every change of the file is a call of StateRepository.update: read the   *)
(* file, compute the new state, write it on condition that the file is the  *)
(* version that was read, and start again on a conflict or a transient      *)
(* error.  A write that got no answer is ambiguous: it may have been lost,  *)
(* it may have landed, and it may still land.                               *)
(*                                                                         *)
(* The scanner (one at a time: the workflow has a concurrency group) lists  *)
(* the candidates, reserves work, then dispatches an indexing run for each  *)
(* reservation.  Runs of one commit share a concurrency group: one is       *)
(* active, and at most one more is pending.  The last job of a run is its   *)
(* finalizer, which records the run's conclusion, whatever it is.           *)
(***************************************************************************)
EXTENDS IndexState

CONSTANTS
    Scanner,      \* the scanner process; a finalizer is named by its commit
    NoRun,        \* no run in this place of a concurrency group
    Listings,     \* what listCandidates can return
    MaxTries,     \* the retries of one update: 50 in the code
    Faults,       \* the kinds of fault that may occur
    MaxFaults,    \* bound on how many of them do
    MaxResets,    \* bound on manual scans with --reset-sha
    MaxReruns,    \* bound on manual reruns of a finished run
    MaxListings,  \* bound on changes of what is listed
    MaxTime       \* bound on the clock

ASSUME HostedIndexingAssumption ==
    /\ Scanner \notin Shas
    /\ \A listing \in Listings : IsListing(listing)
    /\ MaxTries \in Nat \ {0}
    /\ Faults \subseteq {"read", "write", "dispatch", "crash"}
    /\ MaxFaults \in Nat
    /\ MaxResets \in Nat
    /\ MaxReruns \in Nat
    /\ MaxListings \in Nat
    /\ MaxTime \in Nat

VARIABLES
    now,        \* Date.now()
    listing,    \* what listCandidates returns now
    repo,       \* the file: its version (0: there is none) and content
    late,       \* abandoned writes that may still reach the repository
    client,     \* StateRepository.update of the scanner and of each finalizer
    scan,       \* the scan in progress
    group,      \* the concurrency group of each commit's runs
    finished,   \* the last run of each commit that ended, for a rerun
    budget,     \* what is left of the bounds above
    reserved,   \* the <<commit, attempt>> pairs a write ever recorded as queued
    dispatched, \* the <<commit, attempt>> pairs ever dispatched
    newest      \* each commit's last dispatched run and what it ended with

vars == <<now, listing, repo, late, client, scan, group, finished, budget,
          reserved, dispatched, newest>>

repoVars == <<repo, late, reserved>>
runVars  == <<group, finished, dispatched, newest>>
envVars  == <<now, listing>>

Clients == {Scanner} \cup Shas

\* What a call of update computes: the version it was computed from, the state
\* to write, and the reservations to return.
Mutation    == [base : Nat, state : States, selected : SUBSET Reservation]

Run == [candidate : Candidates, attempt : Nat \ {0}, serial : Nat,
        phase : {"index", "finalize"}, conclusion : Conclusions \cup {"none"}]

ASSUME NoRunAssumption == NoRun \notin Run

NoMutation == [base |-> 0, state |-> emptyState(0), selected |-> {}]
IdleClient == [pc |-> "idle", tries |-> 0, mutation |-> NoMutation,
               ambiguous |-> {}]
IdleScan   == [pc |-> "idle", listing |-> <<>>, reset |-> NoSha, queue |-> {}]
EmptyGroup == [active |-> NoRun, pending |-> NoRun]

-----------------------------------------------------------------------------
(***************************************************************************)
(* The repository: GitHub's contents API (external).                        *)
(***************************************************************************)
\* Mutant: the write does not name the version that was read.
LandsAlways(base) == TRUE

\* The conditional write: it takes effect only on the version it names.
Lands(base) == base = repo.version

Commit(state) ==
    /\ repo' = [version |-> repo.version + 1, state |-> state]
    /\ reserved' = reserved \cup QueuedAttempts(state)

Spend(kind) ==
    /\ budget[kind] > 0
    /\ budget' = [budget EXCEPT ![kind] = @ - 1]

Fault(kind) == kind \in Faults /\ Spend("faults")

-----------------------------------------------------------------------------
(***************************************************************************)
(* StateRepository.update, for the mutation of each client.                 *)
(***************************************************************************)
read == IF repo.version = 0 THEN emptyState(now) ELSE parseState(repo.state)

mutate(w, state) ==
    IF w = Scanner
      THEN [base     |-> repo.version,
            state    |-> reserveCandidates(scan.listing, scan.reset, state, now),
            selected |-> Selected(scan.listing, scan.reset, state, now)]
      ELSE LET run == group[w].active IN
           [base     |-> repo.version,
            state    |-> completeCandidate(state, run.candidate, run.attempt,
                                           run.conclusion, now),
            selected |-> {}]

\* The run a concurrency group turns to when its active run is over.
NextInGroup(g) == [active |-> g.pending, pending |-> NoRun]

\* A workflow run is over once its finalizer is, recorded or not.
EndRun(sha, recorded) ==
    LET run == group[sha].active IN
    /\ group' = [group EXCEPT ![sha] = NextInGroup(@)]
    /\ finished' = [finished EXCEPT ![sha] = run]
    /\ newest' = IF recorded /\ newest[sha].serial = run.serial
                   THEN [newest EXCEPT ![sha].conclusion = run.conclusion]
                   ELSE newest
    /\ UNCHANGED dispatched

\* update returns: a scanner goes on to dispatch, a finalizer's run ends.
Return(w, selected) ==
    /\ client' = [client EXCEPT ![w] = IdleClient]
    /\ IF w = Scanner
         THEN /\ scan' = [scan EXCEPT !.pc = "dispatch", !.queue = selected]
              /\ UNCHANGED runVars
         ELSE EndRun(w, TRUE) /\ UNCHANGED scan

\* update throws, or the job that called it is killed.
Abort(w) ==
    /\ client' = [client EXCEPT ![w] = IdleClient]
    /\ IF w = Scanner
         THEN scan' = IdleScan /\ UNCHANGED runVars
         ELSE EndRun(w, FALSE) /\ UNCHANGED scan

\* The next turn of the loop.
Retry(w, ambiguous) ==
    /\ client' = [client EXCEPT ![w] = [pc |-> "read", tries |-> @.tries + 1,
                                        mutation |-> NoMutation,
                                        ambiguous |-> ambiguous]]
    /\ UNCHANGED <<scan, runVars>>

\* read() answers.  A state that equals an ambiguous write confirms it;
\* otherwise the mutation is computed, and written if it changes anything.
Read(w) ==
    /\ client[w].pc = "read"
    /\ client[w].tries < MaxTries
    /\ LET confirmed == {m \in client[w].ambiguous : sameState(m.state, read)}
           mutation  == mutate(w, read)
       IN  IF confirmed # {}
             THEN \E m \in confirmed : Return(w, m.selected)
           ELSE IF sameState(mutation.state, read)
             THEN Return(w, mutation.selected)
           ELSE /\ client' = [client EXCEPT ![w].pc = "write",
                                            ![w].mutation = mutation]
                /\ UNCHANGED <<scan, runVars>>
    /\ UNCHANGED <<envVars, repoVars, budget>>

\* read() fails with an error that is worth a retry.
ReadFails(w) ==
    /\ client[w].pc = "read"
    /\ client[w].tries < MaxTries
    /\ Fault("read")
    /\ Retry(w, client[w].ambiguous)
    /\ UNCHANGED <<envVars, repoVars>>

\* The last turn of the loop is over.
GiveUp(w) ==
    /\ client[w].pc = "read"
    /\ client[w].tries = MaxTries
    /\ Abort(w)
    /\ UNCHANGED <<envVars, repoVars, budget>>

\* The write lands and its answer arrives.
WriteAccepted(w) ==
    /\ client[w].pc = "write"
    /\ Lands(client[w].mutation.base)
    /\ Commit(client[w].mutation.state)
    /\ Return(w, client[w].mutation.selected)
    /\ UNCHANGED <<envVars, late, budget>>

\* 409: the file has another version by now.  A write that names no version
\* while there is a file is refused for good (422).
WriteRefused(w) ==
    /\ client[w].pc = "write"
    /\ ~ Lands(client[w].mutation.base)
    /\ IF client[w].mutation.base = 0
         THEN Abort(w)
         ELSE Retry(w, client[w].ambiguous)
    /\ UNCHANGED <<envVars, repoVars, budget>>

\* Mutant: a write without an answer is taken for done.
WriteUnansweredReturns(w) ==
    /\ client[w].pc = "write"
    /\ Fault("write")
    /\ \/ late' = late \cup {client[w].mutation}
       \/ UNCHANGED late
    /\ Return(w, client[w].mutation.selected)
    /\ UNCHANGED <<envVars, repo, reserved>>

\* No answer, or one that says nothing of the write (TypeError, 408, 425,
\* 429, 5xx, a rate-limit 403).  The write is lost, or on its way.
WriteUnanswered(w) ==
    /\ client[w].pc = "write"
    /\ Fault("write")
    /\ \/ late' = late \cup {client[w].mutation}
       \/ UNCHANGED late
    /\ Retry(w, client[w].ambiguous \cup {client[w].mutation})
    /\ UNCHANGED <<envVars, repo, reserved>>

\* A write without an answer reaches the repository, or does not.
LateWriteArrives ==
    \E m \in late :
        /\ late' = late \ {m}
        /\ IF Lands(m.base) THEN Commit(m.state) ELSE UNCHANGED <<repo, reserved>>
        /\ UNCHANGED <<envVars, client, scan, runVars, budget>>

\* The job is killed, or an error that is not retryable is thrown.
Killed(w) ==
    /\ client[w].pc # "idle"
    /\ Fault("crash")
    /\ \/ client[w].pc = "write" /\ late' = late \cup {client[w].mutation}
       \/ UNCHANGED late
    /\ Abort(w)
    /\ UNCHANGED <<envVars, repo, reserved>>
-----------------------------------------------------------------------------
(***************************************************************************)
(* cli.ts scan: list, reserve, dispatch.                                    *)
(***************************************************************************)
StartScan ==
    /\ scan.pc = "idle"
    /\ \/ /\ scan' = [scan EXCEPT !.pc = "reserve", !.listing = listing,
                                  !.reset = NoSha]
          /\ UNCHANGED budget
       \/ \E sha \in Listed(listing) :       \* any other --reset-sha throws
             /\ Spend("resets")
             /\ scan' = [scan EXCEPT !.pc = "reserve", !.listing = listing,
                                     !.reset = sha]
    /\ client' = [client EXCEPT ![Scanner] = [IdleClient EXCEPT !.pc = "read"]]
    /\ UNCHANGED <<envVars, repoVars, runVars>>

\* GitHub starts the run, or holds it behind the active one in the place of
\* any other that was pending: that one is cancelled, with no job of it run.
Enqueue(g, run) ==
    IF g.active = NoRun THEN [g EXCEPT !.active = run]
    ELSE [g EXCEPT !.pending = run]

\* The loop dispatches in the order of the reservations.
FirstInQueue(r) ==
    /\ r \in scan.queue
    /\ \A other \in scan.queue \ {r} :
          Ahead(scan.listing, scan.reset, r.candidate.sha, other.candidate.sha)

Dispatch(r) ==
    LET sha    == r.candidate.sha
        serial == newest[sha].serial + 1
        run    == [candidate |-> r.candidate, attempt |-> r.attempt,
                   serial |-> serial, phase |-> "index", conclusion |-> "none"]
    IN  /\ group' = [group EXCEPT ![sha] = Enqueue(@, run)]
        /\ dispatched' = dispatched \cup {<<sha, r.attempt>>}
        /\ newest' = [newest EXCEPT ![sha] = [serial |-> serial,
                                              conclusion |-> "none"]]
        /\ UNCHANGED <<finished, budget>>

\* A dispatch that fails is reported, and the loop goes on.
DispatchNext ==
    /\ scan.pc = "dispatch"
    /\ \E r \in scan.queue :
          /\ FirstInQueue(r)
          /\ scan' = [scan EXCEPT !.queue = @ \ {r}]
          /\ \/ Dispatch(r)
             \/ Fault("dispatch") /\ UNCHANGED runVars
    /\ UNCHANGED <<envVars, repoVars, client>>

EndScan ==
    /\ scan.pc = "dispatch"
    /\ \/ scan.queue = {} /\ UNCHANGED budget
       \/ scan.queue # {} /\ Fault("crash")
    /\ scan' = IdleScan
    /\ UNCHANGED <<envVars, repoVars, client, runVars>>

-----------------------------------------------------------------------------
(***************************************************************************)
(* The indexing runs (index-roslyn.yml) and the world around (external).    *)
(***************************************************************************)
\* The index job ends in any way, and the finalizer starts.
IndexEnds(sha) ==
    /\ group[sha].active # NoRun
    /\ group[sha].active.phase = "index"
    /\ \E conclusion \in Conclusions :
          group' = [group EXCEPT ![sha].active.phase = "finalize",
                                 ![sha].active.conclusion = conclusion]
    /\ client' = [client EXCEPT ![sha] = [IdleClient EXCEPT !.pc = "read"]]
    /\ UNCHANGED <<envVars, repoVars, scan, finished, budget, dispatched, newest>>

\* Somebody reruns a finished run: the same inputs, so the same attempt.
Rerun(sha) ==
    /\ finished[sha] # NoRun
    /\ Spend("reruns")
    /\ group' = [group EXCEPT ![sha] =
                   Enqueue(@, [finished[sha] EXCEPT !.phase = "index",
                                                    !.conclusion = "none"])]
    /\ newest' = IF newest[sha].serial = finished[sha].serial
                   THEN [newest EXCEPT ![sha].conclusion = "none"] ELSE newest
    /\ UNCHANGED <<envVars, repoVars, client, scan, finished, dispatched>>

ListingChanges ==
    /\ Spend("listings")
    /\ listing' \in Listings \ {listing}
    /\ UNCHANGED <<now, repoVars, client, scan, runVars>>

Tick ==
    /\ now < MaxTime
    /\ now' = now + 1
    /\ UNCHANGED <<listing, repoVars, client, scan, runVars, budget>>

-----------------------------------------------------------------------------
Init ==
    /\ now = 0
    /\ listing \in Listings
    /\ repo = [version |-> 0, state |-> emptyState(0)]
    /\ late = {}
    /\ client = [w \in Clients |-> IdleClient]
    /\ scan = IdleScan
    /\ group = [sha \in Shas |-> EmptyGroup]
    /\ finished = [sha \in Shas |-> NoRun]
    /\ budget = [faults |-> MaxFaults, resets |-> MaxResets,
                 reruns |-> MaxReruns, listings |-> MaxListings]
    /\ reserved = {}
    /\ dispatched = {}
    /\ newest = [sha \in Shas |-> [serial |-> 0, conclusion |-> "none"]]

Update(w) ==
    \/ Read(w) \/ ReadFails(w) \/ GiveUp(w)
    \/ WriteAccepted(w) \/ WriteRefused(w) \/ WriteUnanswered(w)
    \/ Killed(w)

Next ==
    \/ \E w \in Clients : Update(w)
    \/ LateWriteArrives
    \/ StartScan \/ DispatchNext \/ EndScan
    \/ \E sha \in Shas : IndexEnds(sha) \/ Rerun(sha)
    \/ ListingChanges
    \/ Tick

Spec == Init /\ [][Next]_vars

(***************************************************************************)
(* Fairness: the scan workflow is scheduled every 15 minutes, a running job *)
(* goes on, an index job ends (timeout-minutes), time passes.  Nothing says *)
(* that a fault, a rerun or a change of the listing happens.                *)
(***************************************************************************)
Fairness ==
    /\ \A w \in Clients : WF_vars(Read(w) \/ GiveUp(w)
                                    \/ WriteAccepted(w) \/ WriteRefused(w))
    /\ WF_vars(StartScan) /\ WF_vars(DispatchNext) /\ WF_vars(EndScan)
    /\ \A sha \in Shas : WF_vars(IndexEnds(sha))
    /\ WF_vars(Tick)

FairSpec == Spec /\ Fairness

-----------------------------------------------------------------------------
(***************************************************************************)
(* Properties                                                              *)
(***************************************************************************)
\* The state a reader of the file sees.
Ledger == IF repo.version = 0 THEN emptyState(0) ELSE parseState(repo.state)

Entry(sha) == Ledger.entries[sha]

\* Every variable keeps its type; the shapes of update, scan and run records.
EnvTypeOK ==
    /\ now \in Nat
    /\ listing \in Listings
    /\ budget \in [{"faults", "resets", "reruns", "listings"} -> Nat]

RepoTypeOK ==
    /\ repo \in [version : Nat, state : States]
    /\ late \subseteq Mutation
    /\ reserved \subseteq Shas \X (Nat \ {0})

UpdateTypeOK ==
    client \in [Clients -> [pc : {"idle", "read", "write"}, tries : Nat,
                           mutation : Mutation, ambiguous : SUBSET Mutation]]

ScanTypeOK ==
    scan \in [pc : {"idle", "reserve", "dispatch"},
              listing : Listings \cup {<<>>}, reset : Shas \cup {NoSha},
              queue : SUBSET Reservation]

RunTypeOK ==
    /\ group \in [Shas -> [active : Run \cup {NoRun}, pending : Run \cup {NoRun}]]
    /\ finished \in [Shas -> Run \cup {NoRun}]
    /\ dispatched \subseteq Shas \X (Nat \ {0})
    /\ newest \in [Shas -> [serial : Nat, conclusion : Conclusions \cup {"none"}]]

TypeOK == EnvTypeOK /\ RepoTypeOK /\ UpdateTypeOK /\ ScanTypeOK /\ RunTypeOK

Pair(r) == <<r.candidate.sha, r.attempt>>

\* No indexing run is started, or is about to be, for an attempt that the
\* saved state never recorded: what update returns to scan was written, even
\* when the answer to the write was lost.
OnlyReservedWork ==
    /\ {Pair(r) : r \in scan.queue} \subseteq reserved
    /\ dispatched \subseteq reserved

\* One attempt is never dispatched twice, by one scan or by two.  (Where the
\* listing changes or artifacts expire, attempt numbers start again at 1.)
NoSecondDispatch == \A r \in scan.queue : Pair(r) \notin dispatched

\* No commit is given more than MAX_ATTEMPTS attempts, and one more for every
\* reset, however many scans died, and however often a write was repeated.  A
\* fault can add one: a reset whose write landed unanswered is applied again
\* when the finalizer of another commit has written in between.
AttemptsBounded ==
    \A p \in reserved :
        p[2] <= MaxAttempts + (MaxResets - budget.resets) + (MaxFaults - budget.faults)

\* The result of the newest run of a commit is not overwritten, or kept out,
\* by the failure of an older run that reports later.
NewerSuccessWins ==
    \A sha \in Shas :
        newest[sha].conclusion = "success" /\ Entry(sha) # NoEntry
            => Entry(sha).status # "failed"

\* When update returns to a scan, a reservation that one of its unanswered
\* writes has recorded is among those returned, to be dispatched.
ReservationsReturned ==
    [][scan.pc = "reserve" /\ scan'.pc = "dispatch" =>
         \A m \in client[Scanner].ambiguous : \A r \in m.selected :
             Pair(r) \in reserved => r \in scan'.queue]_vars

\* A successful result is kept until its artifact expires, for a commit that
\* stays listed and as long as nobody resets one: reruns that fail do not undo it.
SuccessKept ==
    [][\A sha \in Shas :
         (/\ Retained(Entry(sha), now)
          /\ budget.resets = MaxResets
          /\ \A l \in Listings : sha \in Listed(l))
            => Entry(sha)'.status = "success"]_vars

\* An update that reads back one of its own ambiguous writes returns.
Confirms(w) ==
    client[w].pc = "read" /\ client[w].tries < MaxTries
      /\ (\E m \in client[w].ambiguous : m.state = repo.state)
      /\ client'[w] # client[w] /\ budget' = budget
        => client'[w].pc = "idle"

\* A reservation whose answer was lost is recognised when it is read back.
ReservationConfirmed == [][Confirms(Scanner)]_vars

\* No eligible commit is passed over for ever, whatever MAX_INDEXES_PER_RUN
\* and the order of the listing.
EligibleIsReserved ==
    \A sha \in Shas :
        sha \in Listed(listing) /\ Eligible(Entry(sha), now)
            ~> sha \notin Listed(listing) \/ ~ Eligible(Entry(sha), now)

\* Every attempt that is reserved is settled: its result is recorded, or a
\* later attempt takes its place.
AttemptsSettle ==
    \A sha \in Shas, n \in 1..MaxAttempts :
        <<sha, n>> \in QueuedAttempts(Ledger)
            ~> <<sha, n>> \notin QueuedAttempts(Ledger)

\* The file, its conditional writes and the retries implement a ledger that
\* changes by whole reservations and completions.
Abstract == INSTANCE IndexLedger WITH ledger <- Ledger
ImplementsLedger == Abstract!LedgerSpec
=============================================================================
