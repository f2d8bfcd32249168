----------------------------- MODULE IndexState -----------------------------
(***************************************************************************)
(* The saved index state of the hosted indexer and the two functions that   *)
(* change it: reserveCandidates and completeCandidate of                    *)
(* tools/hosted-indexing/src/state.ts.  Both are pure: they take the state  *)
(* that was read and the clock, and return the state to be written.         *)
(*                                                                         *)
(* A candidate is a commit and the source that names it (main or a pull     *)
(* request).  A state maps every commit to its entry, or to NoEntry.  The   *)
(* loop of reserveCandidates is stated here by its result.                  *)
(***************************************************************************)
EXTENDS Integers, Sequences, FiniteSets

CONSTANTS
    Shas,          \* the commits that can ever be listed
    Sources,       \* what a commit is listed as: main, or a pull request
    NoSha,         \* no --reset-sha option
    NoEntry,       \* the state holds no entry for the commit
    MaxIndexes,    \* MAX_INDEXES_PER_RUN
    MaxAttempts,   \* MAX_ATTEMPTS
    RetryAfter,    \* RETRY_AFTER_HOURS
    Retention      \* RESULT_RETENTION_DAYS

Candidates  == [sha : Shas, source : Sources]
Statuses    == {"queued", "success", "failed"}
\* "cancelled" and "skipped" are treated as "failure" is, everywhere.
Conclusions == {"success", "failure"}

\* The order in which an entry's keys are serialised: completeCandidate
\* builds them in an order of its own, parseState in the order that
\* reserveCandidates uses.
Layouts == {"parsed", "completed"}

Entries == [candidate         : Candidates,
            status            : Statuses,
            attempts          : Nat \ {0},
            lastAttemptAt     : Nat,
            lastConclusion    : Conclusions \cup {"queued"},
            artifactExpiresAt : Nat,          \* 0 unless status = "success"
            layout            : Layouts]

States == [updatedAt : Nat, entries : [Shas -> Entries \cup {NoEntry}]]

ASSUME IndexStateAssumption ==
    /\ MaxIndexes \in Nat \ {0}
    /\ MaxAttempts \in Nat \ {0}
    /\ RetryAfter \in Nat \ {0}
    /\ Retention \in Nat \ {0}
    /\ NoSha \notin Shas
    /\ NoEntry \notin Entries

emptyState(t) == [updatedAt |-> t, entries |-> [s \in Shas |-> NoEntry]]

-----------------------------------------------------------------------------
(***************************************************************************)
(* What listCandidates returns: a sequence of candidates with no commit     *)
(* listed twice, so a commit is a position in it.                           *)
(***************************************************************************)
Listed(listing) == {listing[i].sha : i \in DOMAIN listing}

IsListing(listing) ==
    /\ listing \in Seq(Candidates)
    /\ \A i, j \in DOMAIN listing : listing[i].sha = listing[j].sha => i = j

PositionOf(listing, sha) == CHOOSE i \in DOMAIN listing : listing[i].sha = sha

CandidateOf(listing, sha) == listing[PositionOf(listing, sha)]

\* The commit to reset is considered first, the others in listed order.
Ahead(listing, reset, s, sha) ==
    \/ s = reset /\ sha # reset
    \/ sha # reset /\ PositionOf(listing, s) < PositionOf(listing, sha)

-----------------------------------------------------------------------------
(***************************************************************************)
(* reserveCandidates                                                       *)
(***************************************************************************)
Existing(state, reset, sha) ==
    IF sha = reset THEN NoEntry ELSE state.entries[sha]

Retained(e, t)  == e # NoEntry /\ e.status = "success" /\ e.artifactExpiresAt > t
Unfinished(e)   == e # NoEntry /\ e.status # "success"
\* Mutant: one attempt too many.
ExhaustedLate(e) == Unfinished(e) /\ e.attempts > MaxAttempts
Exhausted(e)    == Unfinished(e) /\ e.attempts >= MaxAttempts
Waiting(e, t)   == Unfinished(e) /\ e.lastAttemptAt + RetryAfter > t
Eligible(e, t)  == ~ (Retained(e, t) \/ Exhausted(e) \/ Waiting(e, t))

\* Mutant: the limit counts the commits listed ahead, eligible or not.
ChosenByPosition(listing, reset, state, t) ==
    {sha \in Listed(listing) :
        /\ Eligible(Existing(state, reset, sha), t)
        /\ Cardinality({s \in Listed(listing) : Ahead(listing, reset, s, sha)})
             < MaxIndexes}

\* The commits a scan reserves: the first MaxIndexes eligible ones.
Chosen(listing, reset, state, t) ==
    LET IsEligible(s) == Eligible(Existing(state, reset, s), t)
    IN  {sha \in Listed(listing) :
            /\ IsEligible(sha)
            /\ Cardinality({s \in Listed(listing) :
                                IsEligible(s) /\ Ahead(listing, reset, s, sha)})
                 < MaxIndexes}

\* Mutants: a retry, or every reservation, forgets to count itself.
NextAttemptSameOnRetry(state, reset, sha) ==
    LET saved == state.entries[sha] IN
    IF saved = NoEntry \/ (sha # reset /\ saved.status = "success") THEN 1
    ELSE saved.attempts

NextAttemptUncounted(state, reset, sha) ==
    LET saved == state.entries[sha] IN
    IF saved = NoEntry \/ (sha # reset /\ saved.status = "success") THEN 0
    ELSE saved.attempts

NextAttempt(state, reset, sha) ==
    LET saved == state.entries[sha] IN
    IF saved = NoEntry THEN 1
    ELSE IF sha # reset /\ saved.status = "success" THEN 1
    ELSE saved.attempts + 1

\* Mutant: the entry is built with its keys in completeCandidate's order.
QueuedEntryReordered(candidate, attempt, t) ==
    [candidate |-> candidate, status |-> "queued", attempts |-> attempt,
     lastAttemptAt |-> t, lastConclusion |-> "queued", artifactExpiresAt |-> 0,
     layout |-> "completed"]

QueuedEntry(candidate, attempt, t) ==
    [candidate         |-> candidate,
     status            |-> "queued",
     attempts          |-> attempt,
     lastAttemptAt     |-> t,
     lastConclusion    |-> "queued",
     artifactExpiresAt |-> 0,
     layout            |-> "parsed"]

ReservedEntry(listing, reset, state, t, sha) ==
    LET existing == Existing(state, reset, sha) IN
    IF sha \in Chosen(listing, reset, state, t)
      THEN QueuedEntry(CandidateOf(listing, sha), NextAttempt(state, reset, sha), t)
    ELSE IF sha \notin Listed(listing) \/ existing = NoEntry
      THEN NoEntry
    ELSE [existing EXCEPT !.candidate = CandidateOf(listing, sha)]

ReserveChanges(listing, reset, state, t) ==
    \/ Chosen(listing, reset, state, t) # {}
    \/ \E sha \in Shas :
          /\ state.entries[sha] # NoEntry
          /\ \/ sha \notin Listed(listing)
             \/ sha = reset
             \/ state.entries[sha].candidate # CandidateOf(listing, sha)

reserveCandidates(listing, reset, state, t) ==
    IF ReserveChanges(listing, reset, state, t)
      THEN [updatedAt |-> t,
            entries   |-> [sha \in Shas |->
                             ReservedEntry(listing, reset, state, t, sha)]]
      ELSE state

\* What is dispatched: a candidate with the number of this attempt.
Reservation == [candidate : Candidates, attempt : Nat \ {0}]

\* The candidates to dispatch, each with its attempt number.
Selected(listing, reset, state, t) ==
    {[candidate |-> CandidateOf(listing, sha),
      attempt   |-> NextAttempt(state, reset, sha)] :
        sha \in Chosen(listing, reset, state, t)}

\* The attempts that a state records as reserved and not yet settled.
QueuedAttempts(state) ==
    {<<sha, state.entries[sha].attempts>> :
        sha \in {s \in Shas : /\ state.entries[s] # NoEntry
                              /\ state.entries[s].status = "queued"}}

-----------------------------------------------------------------------------
(***************************************************************************)
(* completeCandidate                                                       *)
(***************************************************************************)
\* Mutants: the attempt is not compared, the conclusion is not, or the attempt
\* is compared with <=.
StaleIgnoringAttempt(e, attempt, conclusion) ==
    /\ e # NoEntry
    /\ e.status = "success" /\ attempt = e.attempts /\ conclusion # "success"

StaleOnlyIfOlder(e, attempt, conclusion) == e # NoEntry /\ attempt < e.attempts

StaleIfNotNewer(e, attempt, conclusion) == e # NoEntry /\ attempt <= e.attempts

\* The result of an older attempt, or of a rerun that failed after the same
\* attempt had succeeded, is dropped.
StaleCompletion(e, attempt, conclusion) ==
    /\ e # NoEntry
    /\ \/ attempt < e.attempts
       \/ /\ e.status = "success"
          /\ attempt = e.attempts
          /\ conclusion # "success"

CompletedEntry(e, candidate, attempt, conclusion, t) ==
    [candidate         |-> candidate,
     status            |-> IF conclusion = "success" THEN "success" ELSE "failed",
     attempts          |-> IF e # NoEntry /\ e.attempts > attempt
                             THEN e.attempts ELSE attempt,
     lastAttemptAt     |-> t,
     lastConclusion    |-> conclusion,
     artifactExpiresAt |-> IF conclusion = "success" THEN t + Retention ELSE 0,
     layout            |-> "completed"]

completeCandidate(state, candidate, attempt, conclusion, t) ==
    LET e == state.entries[candidate.sha] IN
    IF StaleCompletion(e, attempt, conclusion)
      THEN state
      ELSE [updatedAt |-> t,
            entries   |-> [state.entries EXCEPT ![candidate.sha] =
                             CompletedEntry(e, candidate, attempt, conclusion, t)]]

-----------------------------------------------------------------------------
(***************************************************************************)
(* parseState: what a reader makes of the file.  Every entry is rebuilt     *)
(* with its keys in the parser's order.                                     *)
(***************************************************************************)
ParseEntry(e) == IF e = NoEntry THEN NoEntry ELSE [e EXCEPT !.layout = "parsed"]

parseState(state) ==
    [state EXCEPT !.entries = [sha \in Shas |-> ParseEntry(state.entries[sha])]]

\* JSON.stringify(left) === JSON.stringify(right): the order of the keys counts.
sameState(left, right) == left = right
=============================================================================
